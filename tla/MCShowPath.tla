----------------------------- MODULE MCShowPath -----------------------------
(***************************************************************************)
(* Instances of ShowPath: for every show command the object asked for in   *)
(* several states, alone, among others whose name it begins, or missing.   *)
(***************************************************************************)
EXTENDS ShowPath

\* Texts a user may write: none, a plain one, one that quotes commands, and
\* one that looks like a prompt.
Text(t, says, prompt) == [t |-> t, says |-> says, ends |-> prompt, cut |-> prompt]
NoText   == Text("", {}, FALSE)
Office   == Text("office", {}, FALSE)
Quoting  == Text("was shutdown, switchport mode trunk",
                 {"shutdown", "switchport mode trunk", "ip helper-address", "interface"}, FALSE)
Prompting == Text("uplink#", {}, TRUE)
Addressed == Text("ip address pending", {"ip address"}, FALSE)
Rejected == Text("Command rejected", {"Command rejected"}, FALSE)
Texts == {NoText, Office, Quoting, Addressed, Rejected}

P == <<"P">>        \* a name, and one that begins with it
P2 == <<"P", "2">>
Net == <<"10.0.0.0", "255.255.255.0">>

Scene(show, id, objects) == [show |-> show, id |-> id, objects |-> objects]
\* The object alone, before and after another one, and the other one alone.
Among(show, id, o, other) ==
    { Scene(show, id, s) : s \in {<<o>>, <<o, other>>, <<other, o>>, <<other>>} }

-----------------------------------------------------------------------------
Vlan(id, name) == [id |-> id, name |-> name, state |-> "active"]
VlanScenes == UNION { Among("vlan", 10, [Vlan(10, t) EXCEPT !.state = st], Vlan(100, Office)) :
                      t \in {Office, Text("VLAN0010", {"VLAN"}, FALSE),
                            Text("VLAN_Name", {"VLAN", "Name"}, FALSE)},
                      st \in {"active", "suspend"} }

Port(text, mode, trunk, ip, up) ==
    [id |-> "Gi1/0/1", description |-> text, mode |-> mode, vlan |-> 99, trunk |-> trunk,
     ip |-> ip, up |-> up]
\* The last one takes two lines.
Long   == <<<<1, 1>>, <<3, 3>>, <<5, 5>>, <<7, 7>>>>
Trunks == {<<<<10, 10>>>>, <<<<10, 12>>, <<20, 20>>>>, <<<<5, 5>>, <<10, 11>>, <<30, 31>>>>, Long}
Ports == { Port(t, "access", <<>>, ip, up) : t \in Texts, ip \in {<<>>, <<"dhcp">>, Net}, up \in BOOLEAN }
         \cup { Port(t, "trunk", r, <<>>, up) : t \in Texts, r \in Trunks, up \in BOOLEAN }
PortScenes == { Scene(show, "Gi1/0/1", <<o>>) : show \in {"interface", "interface_ip"}, o \in Ports }
              \cup { Scene("interface", "Gi1/0/2", <<>>) }

SVIs == { [id |-> 10, description |-> t, address |-> a, helpers |-> h, in |-> i, out |-> o,
           up |-> up] :
          t \in Texts, a \in {<<>>, Net}, h \in {<<>>, <<"10.0.0.1">>, <<"10.0.0.1", "10.0.0.2">>},
          i \in {"", "A"}, o \in {"", "B"}, up \in BOOLEAN }
SVIScenes == { Scene("svi", 10, <<v>>) : v \in SVIs } \cup { Scene("svi", 20, <<>>) }

-----------------------------------------------------------------------------
Pool(id, router, dns, lease, domain) ==
    [id |-> id, network |-> Net, router |-> router, dns |-> dns, lease |-> lease,
     domain |-> domain]
PoolScenes ==
    UNION { Among("dhcp_pool", P, Pool(P, r, d, l, dom), Pool(P2, "10.0.0.2", <<"10.0.0.2">>, <<7, 7, 7>>, "x")) :
            r \in {"", "10.0.0.1"}, d \in {<<>>, <<"10.0.0.1", "10.0.0.2">>},
            l \in {<<2, 0, 0>>, <<0, 12, 0>>, <<0, 0, 30>>}, dom \in {"", "lab"} }

Mac(form) == [digits |-> 12, form |-> form]
Host(id, mac, client, router) ==
    [id |-> id, address |-> Net, mac |-> mac, client |-> client, router |-> router]
HostScenes ==
    UNION { Among("dhcp_host", P, Host(P, Mac(m), c, r), Host(P2, Mac("dotted"), "y", "10.0.0.2")) :
            m \in {"dotted", "colon"}, c \in {"", "pc"}, r \in {"", "10.0.0.1"} }

Community(id, access, acl) == [id |-> id, access |-> access, acl |-> acl]
CommunityScenes ==
    UNION { Among("snmp_community", P, Community(P, a, l), Community(P2, "ro", "7")) :
            a \in {"ro", "rw"}, l \in {"", "5"} }

SnmpScenes ==
    { Scene("snmp", "", <<[location |-> l, contact |-> c, hosts |-> h,
                           version |-> IF h = <<>> THEN "2c" ELSE v,
                           community |-> IF h = <<>> THEN "" ELSE "trap"]>>) :
      l \in {"", "lab"}, c \in {"me"}, h \in {<<>>, <<"10.0.0.1", "10.0.0.2">>},
      v \in {"1", "2c"} }

Route(hop, distance) == [id |-> Append(Net, hop), distance |-> distance]
RouteScenes == UNION { Among("route", Append(Net, "10.0.0.1"), Route("10.0.0.1", d), Route("10.0.0.2", 5)) :
                       d \in {1, 200} }

Excluded(low, high) == [id |-> <<low, high>>]
ExcludedScenes ==
    UNION { Among("excluded", <<"10.0.0.1", h>>, Excluded("10.0.0.1", h),
                  Excluded("10.0.0.1", IF h = "10.0.0.1" THEN "10.0.0.2" ELSE "10.0.0.1")) :
            h \in {"10.0.0.1", "10.0.0.2"} }

RoutingScenes == { Scene("ip_routing", "", <<[enabled |-> e]>>) : e \in BOOLEAN }

\* Lists that the filter hides, and lists named by the beginning of their type.
Ext  == <<"ext">>
Ext2 == <<"ext", "2">>
List(id, type) == [id |-> id, type |-> type]
ListScenes ==
    Among("acl", P, List(P, "extended"), List(P2, "standard")) \cup {Scene("acl", P, <<>>)}
    \cup Among("acl", Ext, List(Ext, "extended"), List(Ext2, "extended"))
    \cup Among("acl", Ext, List(Ext, "standard"), List(P, "extended"))

Row(type, name, vlan, speed) ==
    [id |-> <<type, "1/0/1">>, name |-> name, status |-> "connected", vlan |-> vlan,
     duplex |-> [text |-> "a-full", len |-> 6], speed |-> speed, type |-> "10/100/TX"]
A100  == [text |-> "a-100", len |-> 5]
A1000 == [text |-> "a-1000", len |-> 6]
StatusScenes == { Scene("status", <<>>, rows) :
                  rows \in { <<Row("Gi", n, v, A100), Row(ty, m, "trunk", A100)>> :
                             n \in {"", "office"}, m \in {"", "lab"}, v \in {"10", "routed"},
                             ty \in {"Te", "Po", "Serial"} }
                           \cup {<<>>, <<Row("Gi", "", "10", A1000)>>} }

\* The scenes of the runs that show what is read wrongly.
OnePort(text, mode, trunk) ==
    { Scene("interface", "Gi1/0/1", <<Port(text, mode, trunk, <<>>, FALSE)>>) }
PromptingScene == OnePort(Prompting, "access", <<>>)
RejectedScene  == OnePort(Rejected, "access", <<>>)
LongTrunkScene == OnePort(Office, "trunk", Long)
HiddenScene    == { Scene("acl", P, <<List(P, "extended")>>) }

AllScenes == VlanScenes \cup PortScenes \cup SVIScenes \cup PoolScenes \cup HostScenes
             \cup CommunityScenes \cup SnmpScenes \cup RouteScenes \cup ExcludedScenes
             \cup RoutingScenes \cup ListScenes \cup StatusScenes \cup PromptingScene

=============================================================================
