---------------------------- MODULE SwitchOutput ----------------------------
(***************************************************************************)
(* The other side of ShowParsers: what the switch prints for a show        *)
(* command when it has the objects of a scene, and what a read should make *)
(* of it.  The switch is external; the format is that of the outputs in    *)
(* internal/provider/client/parser_test.go and tests/mock, with the lines  *)
(* IOS leaves out or prints about other objects.                           *)
(*                                                                         *)
(* A scene is [show, id, objects]: the command, the object it is about,    *)
(* and the objects of that kind on the switch, in the order they appear.   *)
(***************************************************************************)
EXTENDS ShowParsers

CONSTANT RangesPerLine    \* how much of a VLAN list fits on a line

Optional(test, line) == IF test THEN <<line>> ELSE <<>>
Blank == Line("", <<>>)
Lines(keys) == [i \in DOMAIN keys |-> Line(keys[i], <<>>)]

-----------------------------------------------------------------------------
\* show vlan id N: the row, its ports, and a second table about the same VLAN.
VlanOutput(o) ==
    <<[Line("VLAN", <<>>) EXCEPT !.says = {"Name"}], Line("----", <<>>),
      [Line("row", <<o.id, o.name.t, o.state>>) EXCEPT !.says = o.name.says],
      Line("more ports", <<>>), Blank,
      [Line("VLAN", <<>>) EXCEPT !.says = {"Type"}], Line("----", <<>>),
      Line("row", <<o.id, "enet", "100010">>)>>

\* show running-config interface X
Top == Lines(<<"Building configuration...", "Current configuration", "!", "interface">>)

\* A long list goes on in lines with "add".
AllowedVlans(ranges) ==
    [i \in 1..((Len(ranges) + RangesPerLine - 1) \div RangesPerLine) |->
        LET from == (i - 1) * RangesPerLine + 1
            to   == IF i * RangesPerLine < Len(ranges) THEN i * RangesPerLine ELSE Len(ranges)
        IN  Line("switchport trunk allowed vlan", SubSeq(ranges, from, to))]

InterfaceOutput(o) ==
    Top \o Optional(o.description.t # "", Free("description", o.description))
    \o (IF o.mode = "access"
        THEN <<Line("switchport access vlan", <<o.vlan>>), Line("switchport mode access", <<>>)>>
        ELSE <<Line("switchport trunk native vlan", <<o.vlan>>),
               Line("switchport mode trunk", <<>>)>> \o AllowedVlans(o.trunk))
    \o (IF o.ip = <<>> THEN <<Line("no ip address", <<>>)>> ELSE <<Line("ip address", o.ip)>>)
    \o Optional(~o.up, Line("shutdown", <<>>)) \o Lines(<<"end">>)

SVIOutput(o) ==
    Top \o Optional(o.description.t # "", Free("description", o.description))
    \o Optional(o.address # <<>>, Line("ip address", o.address))
    \o Optional(o.in # "", Line("ip access-group", <<o.in, "in">>))
    \o Optional(o.out # "", Line("ip access-group", <<o.out, "out">>))
    \o [i \in DOMAIN o.helpers |-> Line("ip helper-address", <<o.helpers[i]>>)]
    \o Optional(~o.up, Line("shutdown", <<>>)) \o Lines(<<"end">>)

\* A lease is printed without the zeros at its end.
LeaseArgs(lease) == SubSeq(lease, 1, IF lease[3] # 0 THEN 3 ELSE IF lease[2] # 0 THEN 2 ELSE 1)

PoolOutput(o) ==
    <<Line("ip dhcp pool", <<o.id>>), Line("network", o.network)>>
    \o Optional(o.router # "", Line("default-router", <<o.router>>))
    \o Optional(o.dns # <<>>, Line("dns-server", o.dns))
    \o Optional(o.domain # "", Line("domain-name", <<o.domain>>))
    \o <<Line("lease", LeaseArgs(o.lease))>>

HostOutput(o) ==
    <<Line("ip dhcp pool", <<o.id>>), Line("host", o.address),
      Line("hardware-address", <<o.mac>>)>>
    \o Optional(o.client # "", Line("client-name", <<o.client>>))
    \o Optional(o.router # "", Line("default-router", <<o.router>>))

\* The version 1 of a trap host, the distance 1 of a route and the high end of
\* one excluded address are not printed.
CommunityOutput(o) ==
    <<Line("snmp-server community", <<o.id, o.access>> \o Optional(o.acl # "", o.acl))>>
SnmpOutput(o) ==
    Optional(o.location # "", Line("snmp-server location", <<o.location>>))
    \o Optional(o.contact # "", Line("snmp-server contact", <<o.contact>>))
    \o [i \in DOMAIN o.hosts |-> Line("snmp-server host",
            <<o.hosts[i], IF o.version = "1" THEN "" ELSE o.version, o.community>>)]
RouteOutput(o)    == <<Line("ip route", o.id \o Optional(o.distance # 1, o.distance))>>
ExcludedOutput(o) ==
    <<Line("ip dhcp excluded-address", IF o.id[1] = o.id[2] THEN <<o.id[1]>> ELSE o.id)>>
RoutingOutput(o)  == <<Line(IF o.enabled THEN "ip routing" ELSE "no ip routing", <<>>)>>

ListOutput(o) ==
    <<Line(IF o.type = "extended" THEN "ip access-list extended" ELSE "ip access-list standard",
           <<o.id>>), Line("ace", <<>>)>>

\* show interfaces status.  Duplex and speed end at the right edge of their
\* column.
Word(text, at, len) == [text |-> text, at |-> at, len |-> len]
Heading == [Line("Port", <<Word("Port", 0, 4), Word("Name", 10, 4), Word("Status", 29, 6),
                           Word("Vlan", 42, 4), Word("Duplex", 53, 6), Word("Speed", 61, 5),
                           Word("Type", 67, 4)>>) EXCEPT !.says = {"Status", "Vlan"}]
StatusOutput(o) ==
    <<Line("port row", SelectSeq(
        <<Word(o.id, 0, 7), Word(o.name, 10, 6), Word(o.status, 29, 9), Word(o.vlan, 42, 5),
          Word(o.duplex.text, 59 - o.duplex.len, o.duplex.len),
          Word(o.speed.text, 66 - o.speed.len, o.speed.len), Word(o.type, 67, 10)>>,
        LAMBDA w : w.text # ""))>>

-----------------------------------------------------------------------------
\* The shows that print one object, those that filter by the beginning of a
\* line, and those that print everything of their kind.
OneObject == {"vlan", "interface", "interface_ip", "svi"}
BySection == {"dhcp_pool", "dhcp_host", "acl"}
Plural    == {"snmp_community", "snmp", "route", "excluded", "ip_routing", "status"}
Show      == OneObject \cup BySection \cup Plural

OutputOf(show, o) ==
    CASE show = "vlan"                         -> VlanOutput(o)
      [] show \in {"interface", "interface_ip"} -> InterfaceOutput(o)
      [] show = "svi"                          -> SVIOutput(o)
      [] show = "dhcp_pool"                    -> PoolOutput(o)
      [] show = "dhcp_host"                    -> HostOutput(o)
      [] show = "acl"                          -> ListOutput(o)
      [] show = "snmp_community"               -> CommunityOutput(o)
      [] show = "snmp"                         -> SnmpOutput(o)
      [] show = "route"                        -> RouteOutput(o)
      [] show = "excluded"                     -> ExcludedOutput(o)
      [] show = "ip_routing"                   -> RoutingOutput(o)
      [] show = "status"                       -> StatusOutput(o)

\* What follows "ip dhcp pool " and "ip access-list " on a line.  The filters
\* leave out the type of an access list.
TypeWord(o)     == IF o.type = "extended" THEN <<"ext", "ended">> ELSE <<"st", "andard">>
Follows(show, o) == (IF show = "acl" THEN TypeWord(o) ELSE <<>>) \o o.id

Printed(s) ==
    SelectSeq(s.objects, LAMBDA o :
        CASE s.show \in OneObject -> o.id = s.id
          [] s.show \in BySection -> IsPrefix(s.id, Follows(s.show, o))
          [] s.show \in Plural    -> TRUE)

Output(s) ==
    LET all == Printed(s)
    IN  IF all = <<>> /\ s.show = "vlan" THEN Lines(<<"not found">>)
        ELSE IF all = <<>> /\ s.show \in OneObject THEN Lines(<<"Invalid input detected">>)
        ELSE (IF s.show = "status" THEN <<Heading>> ELSE <<>>)
             \o FlattenSeq([i \in DOMAIN all |-> OutputOf(s.show, all[i])])

-----------------------------------------------------------------------------
(***************************************************************************)
(* What a read should return: the attributes of the object the scene is    *)
(* about, in the values a file gives them, or that it is not there.        *)
(***************************************************************************)
Numbers(ranges) == UNION { ranges[i][1]..ranges[i][2] : i \in DOMAIN ranges }

Attributes(s, o) ==
    CASE s.show = "vlan" -> [exists |-> TRUE, name |-> o.name.t, state |-> o.state]
      [] s.show = "interface" ->
           [exists |-> TRUE, description |-> o.description.t, mode |-> o.mode, up |-> o.up,
            access |-> IF o.mode = "access" THEN o.vlan ELSE 0,
            native |-> IF o.mode = "trunk" THEN o.vlan ELSE 0,
            trunk  |-> IF o.mode = "trunk" THEN SetToSortSeq(Numbers(o.trunk), <) ELSE <<>>]
      [] s.show = "interface_ip" ->
           IF o.ip = <<>> THEN Absent ELSE [exists |-> TRUE, dhcp |-> o.ip = <<"dhcp">>]
      [] s.show = "svi" ->
           [exists |-> TRUE, description |-> o.description.t, address |-> o.address,
            helpers |-> o.helpers, in |-> o.in, out |-> o.out, up |-> o.up]
      [] s.show = "dhcp_pool" ->
           [exists |-> TRUE, network |-> o.network, router |-> o.router, dns |-> o.dns,
            lease |-> o.lease, domain |-> o.domain]
      [] s.show = "dhcp_host" ->
           [exists |-> TRUE, address |-> o.address, mac |-> [o.mac EXCEPT !.form = "colon"],
            client |-> o.client, router |-> o.router]
      [] s.show = "acl" -> [exists |-> TRUE, type |-> o.type]
      [] s.show = "snmp_community" -> [exists |-> TRUE, access |-> o.access, acl |-> o.acl]
      [] s.show = "route" -> [exists |-> TRUE, distance |-> o.distance]
      [] s.show = "excluded" -> [exists |-> TRUE]

Expected(s) ==
    LET own == SelectSeq(s.objects, LAMBDA o : o.id = s.id)
    IN  CASE s.show = "ip_routing" -> [exists |-> s.objects[1].enabled]
          [] s.show = "snmp" ->
               [o \in {"location", "contact", "hosts", "version", "community"} |->
                   s.objects[1][o]] @@ [exists |-> TRUE]
          [] s.show = "status" ->
               [interfaces |-> [i \in DOMAIN s.objects |->
                  LET o == s.objects[i]
                      Cell(text) == IF text = "" THEN <<>> ELSE <<text>>
                  IN  [name |-> ExpandInterfaceName(o.id),
                       columns |-> <<Cell(o.id), Cell(o.name), Cell(o.status), Cell(o.vlan),
                                     Cell(o.duplex.text), Cell(o.speed.text), Cell(o.type)>>]]]
          [] s.show \notin {"ip_routing", "snmp", "status"} /\ own = <<>> -> Absent
          [] OTHER -> Attributes(s, own[1])

\* IOS refuses to show an interface that is not there.
Known(s) == Output(s) # Lines(<<"Invalid input detected">>)

-----------------------------------------------------------------------------
(***************************************************************************)
(* What is read wrongly, by its cause.                                     *)
(***************************************************************************)
QuotesError(text) == text.says \cap {"Invalid input detected", "Command rejected"} # {}

\* The list itself is filtered out, or another one whose name begins with its
\* own is not.
ListMistaken(s) ==
    LET own == { o \in ToSet(s.objects) : o.id = s.id }
        hit == { o \in ToSet(Printed(s)) : IsPrefix(s.id, o.id) }
    IN  own \cap hit = {} /\ own \cup hit # {}

Misread(s) ==
    \E o \in ToSet(s.objects) :
        \/ s.show \in {"interface", "interface_ip", "svi"} /\ QuotesError(o.description)
        \* the continuation of a long list replaces its beginning
        \/ s.show = "interface" /\ o.mode = "trunk" /\ Len(o.trunk) > RangesPerLine
        \* the description is taken for the address
        \/ s.show = "interface_ip" /\ o.ip \in {<<>>, <<"dhcp">>} /\ "ip address" \in o.description.says
        \* the name is taken for the heading of the table
        \/ s.show = "vlan" /\ o.id = s.id /\ {"VLAN", "Name"} \subseteq o.name.says
        \* no version is taken for 2c
        \/ s.show = "snmp" /\ o.hosts # <<>> /\ o.version = "1"
        \* a value begins to the left of its heading
        \/ s.show = "status" /\ (o.duplex.len > 6 \/ o.speed.len > 5)
        \/ s.show = "acl" /\ ListMistaken(s)

\* A line that ends in a user's text may end like a prompt.
LooksLikePrompt(s) == \E i \in DOMAIN Output(s) : Output(s)[i].ends \/ Output(s)[i].cut

=============================================================================
