----------------------------- MODULE ApplyProofs -----------------------------
(***************************************************************************)
(* Proofs about the batches of ResourceLifecycle, for any edits, failures, *)
(* re-executed batches, reboots and imports:                               *)
(*   - without a change by hand, a successful apply has written what the   *)
(*     file asks for, for every resource;                                  *)
(*   - the variables keep their types, whatever is changed by hand.        *)
(***************************************************************************)
EXTENDS LifecycleProofs, FiniteSetTheorems

\* The resources that are written attribute by attribute, and those written in
\* one line.
Stepwise == {"vlan", "svi", "interface", "interface_ip", "dhcp_pool", "dhcp_host"}
Whole    == {"snmp_community", "static_route", "ip_routing", "dhcp_excluded_range"}

-----------------------------------------------------------------------------
(***************************************************************************)
(* A row speaks of the values of the file and of the constants of the      *)
(* tables; what a read invents is "0" or the value of a new object.        *)
(***************************************************************************)
Constants == {"active", "suspend", "access", "trunk", "1", "9", "dhcp", "ro", "rw", "up", "down"}

Sane(row) ==
    /\ row.verb \in {"set", "add"} /\ row.cleared \in {"never", "emptied", "changed"}
    /\ row.empty \subseteq {"0"} \cup row.initial /\ row.initial \subseteq Constants
    /\ \A w \in row.wants : w \subseteq Text \cup Constants

(***************************************************************************)
(* What the proof needs of a row: values are added only to the relay list  *)
(* of an SVI; only the address of cisco_interface_ip is read blindly; a    *)
(* value that is not sent is not one that a read invents; and only the     *)
(* rows of a port depend on its mode, but not the mode itself.             *)
(***************************************************************************)
Sound(k, row) ==
    /\ row.verb \in {"set", "add"} /\ (row.verb = "add" => k = "svi" /\ row.attr = "dhcp_servers")
    /\ row.cleared \in {"never", "emptied", "changed"} /\ Sane(row)
    /\ k # "interface_ip" => row.blind = {}
    /\ \A how \in {"create", "update"} :
          row.unsent[how] # {} =>
             row.keep = FALSE /\ row.empty \cap row.unsent[how] = {} /\ k # "interface_ip"
    /\ k # "interface" => row.only = {}
    /\ row.attr = "mode" => row.only = {} /\ row.keep = FALSE /\ row.empty = {}

\* The attributes of a table are told apart by their names.
Apart(rows, n) ==
    /\ DOMAIN rows = 1..n /\ n \in 0..4 /\ Len(rows) = n
    /\ \A i, j \in 1..n : rows[i].attr = rows[j].attr => i = j

LEMMA VlanTable ==
    LET rows == Rows("vlan")
    IN  Apart(rows, 2) /\ \A i \in 1..2 : Sound("vlan", rows[i])
<1> DEFINE r1 == Required("name", Text)
           r2 == [Required("state", {"active", "suspend"}) EXCEPT
                           !.unsent.create = {"active"}, !.initial = {"active"}]
<1>1. Rows("vlan") = <<r1, r2>>
  BY DEF Rows, Resources, Vlan, Resource
<1>2. r1.attr = "name" /\ Sound("vlan", r1)
  BY DEF Required, Sound, Sane, Constants
<1>3. r2.attr = "state" /\ Sound("vlan", r2)
  BY DEF Required, Sound, Sane, Constants
<1> HIDE DEF r1, r2
<1> QED
  BY <1>1, <1>2, <1>3 DEF Apart

LEMMA SviTable ==
    LET rows == Rows("svi")
    IN  /\ Apart(rows, 4) /\ \A i \in 1..4 : Sound("svi", rows[i])
        /\ rows[3].attr = "dhcp_servers" /\ rows[3].wants = SUBSET Text
<1> DEFINE r1 == Optional("description", Text)
           r2 == Required("ip_address", Text)
           r3 == OptionalList("dhcp_servers", "add")
           r4 == [Optional("access_group", Text) EXCEPT !.cleared = "changed"]
<1>1. Rows("svi") = <<r1, r2, r3, r4>>
  BY DEF Rows, Resources, Svi, Resource
<1>2. r1.attr = "description" /\ Sound("svi", r1)
  BY DEF Optional, Required, Sound, Sane, Constants
<1>3. r2.attr = "ip_address" /\ Sound("svi", r2)
  BY DEF Required, Sound, Sane, Constants
<1>4. r3.attr = "dhcp_servers" /\ Sound("svi", r3) /\ r3.wants = SUBSET Text
  BY DEF OptionalList, Optional, Required, Sound, Sane, Constants
<1>5. r4.attr = "access_group" /\ Sound("svi", r4)
  BY DEF Optional, Required, Sound, Sane, Constants
<1> HIDE DEF r1, r2, r3, r4
<1> QED
  BY <1>1, <1>2, <1>3, <1>4, <1>5 DEF Apart

LEMMA InterfaceTable ==
    LET rows == Rows("interface")
    IN  /\ Apart(rows, 4) /\ \A i \in 1..4 : Sound("interface", rows[i])
        /\ rows[1].attr = "mode"
<1> DEFINE r1 == [Required("mode", {"access", "trunk"}) EXCEPT !.initial = {"access"}]
           r2 == [Required("access_vlan", Text) EXCEPT !.only = {"access"}, !.empty = {"0"}]
           r3 == [OptionalList("trunk_vlans", "set") EXCEPT
                     !.wants = @ \ {{}}, !.only = {"trunk"}, !.keep = FALSE]
           r4 == [Required("native_vlan", {"1", "9"}) EXCEPT
                     !.only = {"trunk"}, !.empty = {"0"},
                     !.unsent = [create |-> {"1"}, update |-> {"1"}]]
<1>1. Rows("interface") = <<r1, r2, r3, r4>>
  BY DEF Rows, Resources, Interface, Resource
<1>2. r1.attr = "mode" /\ Sound("interface", r1)
  BY DEF Required, Sound, Sane, Constants
<1>3. r2.attr = "access_vlan" /\ Sound("interface", r2)
  BY DEF Required, Sound, Sane, Constants
<1>4. r3.attr = "trunk_vlans" /\ Sound("interface", r3)
  BY DEF OptionalList, Optional, Required, Sound, Sane, Constants
<1>5. r4.attr = "native_vlan" /\ Sound("interface", r4)
  BY DEF Required, Sound, Sane, Constants
<1> HIDE DEF r1, r2, r3, r4
<1> QED
  BY <1>1, <1>2, <1>3, <1>4, <1>5 DEF Apart

LEMMA DhcpPoolTable ==
    LET rows == Rows("dhcp_pool")
    IN  Apart(rows, 3) /\ \A i \in 1..3 : Sound("dhcp_pool", rows[i])
<1> DEFINE r1 == Required("network", Text)
           r2 == Optional("default_router", Text)
           r3 == OptionalList("dns_servers", "set")
<1>1. Rows("dhcp_pool") = <<r1, r2, r3>>
  BY DEF Rows, Resources, DhcpPool, Resource
<1>2. r1.attr = "network" /\ Sound("dhcp_pool", r1)
  BY DEF Required, Sound, Sane, Constants
<1>3. r2.attr = "default_router" /\ Sound("dhcp_pool", r2)
  BY DEF Optional, Required, Sound, Sane, Constants
<1>4. r3.attr = "dns_servers" /\ Sound("dhcp_pool", r3)
  BY DEF OptionalList, Optional, Required, Sound, Sane, Constants
<1> HIDE DEF r1, r2, r3
<1> QED
  BY <1>1, <1>2, <1>3, <1>4 DEF Apart

\* A port has an address as long as it has some value.
LEMMA AddressRow ==
    /\ Rows("interface_ip") = << [Required("ip_address", Text \cup {"dhcp"}) EXCEPT !.blind = Text] >>
    /\ Resources["interface_ip"].presence = "lines"
<1>1. Resources["interface_ip"] = InterfaceIP
  BY DEF Resources
<1> QED
  BY <1>1 DEF Rows, InterfaceIP, Resource

LEMMA HostAndAddressTables ==
    /\ Apart(Rows("dhcp_host"), 2) /\ \A i \in 1..2 : Sound("dhcp_host", Rows("dhcp_host")[i])
    /\ Apart(Rows("interface_ip"), 1) /\ Sound("interface_ip", Rows("interface_ip")[1])
<1> DEFINE r1 == Required("ip_address", Text)
           r2 == [Optional("client_name", Text) EXCEPT !.cleared = "emptied", !.keep = FALSE]
           r3 == [Required("ip_address", Text \cup {"dhcp"}) EXCEPT !.blind = Text]
<1>1. Rows("dhcp_host") = <<r1, r2>>
  BY DEF Rows, Resources, DhcpHost, Resource
<1>2. Rows("interface_ip") = <<r3>>
  BY AddressRow
<1>3. r1.attr = "ip_address" /\ Sound("dhcp_host", r1)
  BY DEF Required, Sound, Sane, Constants
<1>4. r2.attr = "client_name" /\ Sound("dhcp_host", r2)
  BY DEF Optional, Required, Sound, Sane, Constants
<1>5. r3.attr = "ip_address" /\ Sound("interface_ip", r3)
  BY DEF Required, Sound, Sane, Constants
<1> HIDE DEF r1, r2, r3
<1> QED
  BY <1>1, <1>2, <1>3, <1>4, <1>5 DEF Apart

LEMMA StepwiseTables ==
    ASSUME NEW k \in Stepwise
    PROVE  \E n \in 1..4 : Apart(Rows(k), n) /\ \A i \in 1..n : Sound(k, Rows(k)[i])
<1>1. k \in {"vlan", "svi", "interface"} =>
         \E n \in 1..4 : Apart(Rows(k), n) /\ \A i \in 1..n : Sound(k, Rows(k)[i])
  BY VlanTable, SviTable, InterfaceTable
<1>2. k \in {"dhcp_pool", "dhcp_host", "interface_ip"} =>
         \E n \in 1..4 : Apart(Rows(k), n) /\ \A i \in 1..n : Sound(k, Rows(k)[i])
  BY DhcpPoolTable, HostAndAddressTables
<1> QED
  BY <1>1, <1>2 DEF Stepwise

-----------------------------------------------------------------------------
(***************************************************************************)
(* Batches put together from several rows.                                 *)
(***************************************************************************)
IsBatch(s) == s \in Seq(Range(s))

LEMMA Joined ==
    ASSUME NEW p, NEW q, IsBatch(p), IsBatch(q)
    PROVE  /\ IsBatch(p \o q)
           /\ Len(p) \in Nat /\ Len(q) \in Nat /\ Len(p \o q) = Len(p) + Len(q)
           /\ DOMAIN p = 1..Len(p) /\ DOMAIN q = 1..Len(q)
           /\ DOMAIN (p \o q) = 1..(Len(p) + Len(q))
           /\ \A i \in 1..Len(p) : (p \o q)[i] = p[i]
           /\ \A i \in 1..Len(q) : (p \o q)[Len(p) + i] = q[i]
           /\ Range(p \o q) = Range(p) \cup Range(q)
<1> DEFINE S == Range(p) \cup Range(q)
<1>1. p \in Seq(S) /\ q \in Seq(S)
  BY SeqMonotonic DEF IsBatch
<1> HIDE DEF S
<1>2. /\ p \o q \in Seq(S) /\ Len(p \o q) = Len(p) + Len(q)
      /\ \A i \in 1..Len(p) + Len(q) : (p \o q)[i] = IF i <= Len(p) THEN p[i] ELSE q[i - Len(p)]
  BY <1>1, ConcatProperties
<1>3. /\ Len(p) \in Nat /\ Len(q) \in Nat /\ DOMAIN p = 1..Len(p) /\ DOMAIN q = 1..Len(q)
      /\ DOMAIN (p \o q) = 1..(Len(p) + Len(q))
  BY <1>1, <1>2, LenProperties
<1>4. \A i \in 1..Len(p) : (p \o q)[i] = p[i]
  BY <1>2, <1>3
<1>5. \A i \in 1..Len(q) : (p \o q)[Len(p) + i] = q[i]
  <2> TAKE i \in 1..Len(q)
  <2>1. Len(p) + i \in 1..Len(p) + Len(q) /\ ~(Len(p) + i <= Len(p)) /\ Len(p) + i - Len(p) = i
    BY <1>3
  <2> QED
    BY <1>2, <2>1
<1>6. Range(p \o q) = S
  BY <1>1, RangeConcatenation DEF S
<1> QED
  BY <1>2, <1>3, <1>4, <1>5, <1>6 DEF IsBatch, S

(***************************************************************************)
(* A command writes the wanted value of a row, or does not touch the row's *)
(* attribute.  A batch delivers a row when it writes its value and touches *)
(* it afterwards only to write it again.                                   *)
(***************************************************************************)
Writes(c, row, new) ==
    /\ c.attr = row.attr
    /\ IF row.verb = "set" THEN c.do = "set" /\ c.val = new ELSE c.do = "add" /\ c.val # {}
Other(c, row) == c.do = "open" \/ (c.do \in {"set", "add"} /\ c.attr # row.attr)
Harmless(s, row, new, j) ==
    \A i \in DOMAIN s : i > j => Writes(s[i], row, new) \/ Other(s[i], row)
Delivers(s, row, new) ==
    \E j \in DOMAIN s : Writes(s[j], row, new) /\ Harmless(s, row, new, j)

LEMMA DeliversLater ==
    ASSUME NEW p, NEW q, NEW row, NEW new, IsBatch(p), IsBatch(q), Delivers(q, row, new)
    PROVE  Delivers(p \o q, row, new)
<1>1. PICK j \in DOMAIN q : Writes(q[j], row, new) /\ Harmless(q, row, new, j)
  BY DEF Delivers
<1>2. j \in 1..Len(q) /\ Len(p) \in Nat /\ Len(q) \in Nat
  BY <1>1, Joined
<1>3. Len(p) + j \in DOMAIN (p \o q) /\ (p \o q)[Len(p) + j] = q[j]
  BY <1>2, Joined
<1>4. ASSUME NEW i \in DOMAIN (p \o q), i > Len(p) + j
      PROVE  Writes((p \o q)[i], row, new) \/ Other((p \o q)[i], row)
  <2>1. i \in 1..(Len(p) + Len(q))
    BY <1>4, Joined
  <2>2. i - Len(p) \in 1..Len(q) /\ i - Len(p) > j /\ Len(p) + (i - Len(p)) = i
    BY <1>2, <1>4, <2>1
  <2>3. (p \o q)[Len(p) + (i - Len(p))] = q[i - Len(p)] /\ i - Len(p) \in DOMAIN q
    BY <2>2, Joined
  <2> QED
    BY <1>1, <2>2, <2>3 DEF Harmless
<1> QED
  BY <1>1, <1>3, <1>4 DEF Delivers, Harmless

LEMMA DeliversStill ==
    ASSUME NEW p, NEW q, NEW row, NEW new, IsBatch(p), IsBatch(q), Delivers(p, row, new),
           \A c \in Range(q) : Other(c, row)
    PROVE  Delivers(p \o q, row, new)
<1>1. PICK j \in DOMAIN p : Writes(p[j], row, new) /\ Harmless(p, row, new, j)
  BY DEF Delivers
<1>2. j \in 1..Len(p) /\ Len(p) \in Nat /\ Len(q) \in Nat
  BY <1>1, Joined
<1>3. j \in DOMAIN (p \o q) /\ (p \o q)[j] = p[j]
  BY <1>2, Joined
<1>4. ASSUME NEW i \in DOMAIN (p \o q), i > j
      PROVE  Writes((p \o q)[i], row, new) \/ Other((p \o q)[i], row)
  <2>1. i \in 1..(Len(p) + Len(q))
    BY <1>4, Joined
  <2>2. CASE i \in 1..Len(p)
    <3>1. (p \o q)[i] = p[i] /\ i \in DOMAIN p
      BY <2>2, Joined
    <3> QED
      BY <1>1, <1>4, <3>1 DEF Harmless
  <2>3. CASE i \notin 1..Len(p)
    <3>1. i - Len(p) \in 1..Len(q) /\ Len(p) + (i - Len(p)) = i
      BY <1>2, <2>1, <2>3
    <3>2. (p \o q)[Len(p) + (i - Len(p))] = q[i - Len(p)] /\ i - Len(p) \in DOMAIN q
      BY <3>1, Joined
    <3>3. q[i - Len(p)] \in Range(q)
      BY <3>2 DEF Range
    <3> QED
      BY <3>1, <3>2, <3>3
  <2> QED
    BY <2>2, <2>3
<1> QED
  BY <1>1, <1>3, <1>4 DEF Delivers, Harmless

(***************************************************************************)
(* FlattenSeq of at most four batches, from its recursive definition.      *)
(***************************************************************************)
LEMMA Flattened ==
    ASSUME NEW ss, NEW n \in 1..4, DOMAIN ss = 1..n, Len(ss) = n
    PROVE  \E f : /\ FlattenSeq(ss) = f[n] /\ f[1] = ss[1]
                  /\ \A i \in 2..n : f[i] = f[i - 1] \o ss[i]
<1> DEFINE flatten[i \in 1..Len(ss)] == IF i = 1 THEN ss[i] ELSE flatten[i-1] \o ss[i]
           is(f) == f = [i \in 1..Len(ss) |-> IF i = 1 THEN ss[i] ELSE f[i-1] \o ss[i]]
<1>1. FlattenSeq(ss) = flatten[n]
  BY DEF FlattenSeq
<1>2. \E f : is(f)
  <2> DEFINE s2 == ss[1] \o ss[2]
             s3 == s2 \o ss[3]
             s4 == s3 \o ss[4]
             g == [i \in 1..n |-> CASE i = 1 -> ss[1] [] i = 2 -> s2
                                    [] i = 3 -> s3 [] i = 4 -> s4]
  <2>1. \A i \in 1..n : \/ i = 1 /\ g[i] = ss[i]
                        \/ i \in 2..4 /\ i # 1 /\ g[i] = g[i - 1] \o ss[i]
    <3> HIDE DEF s2, s3, s4
    <3>1. /\ 1 \in 1..n => g[1] = ss[1]
          /\ 2 \in 1..n => g[2] = s2
          /\ 3 \in 1..n => g[3] = s3
          /\ 4 \in 1..n => g[4] = s4
      OBVIOUS
    <3> HIDE DEF g
    <3>2. s2 = ss[1] \o ss[2] /\ s3 = s2 \o ss[3] /\ s4 = s3 \o ss[4]
      BY DEF s2, s3, s4
    <3> TAKE i \in 1..n
    <3>3. CASE i = 1
      BY <3>1, <3>3
    <3>4. CASE i = 2
      <4>1. 2 \in 1..n /\ 1 \in 1..n /\ i - 1 = 1
        BY <3>4
      <4>2. g[2] = g[1] \o ss[2]
        BY <3>1, <3>2, <4>1
      <4> QED
        BY <3>4, <4>1, <4>2
    <3>5. CASE i = 3
      <4>1. 3 \in 1..n /\ 2 \in 1..n /\ i - 1 = 2
        BY <3>5
      <4>2. g[3] = g[2] \o ss[3]
        BY <3>1, <3>2, <4>1
      <4> QED
        BY <3>5, <4>1, <4>2
    <3>6. CASE i = 4
      <4>1. 4 \in 1..n /\ 3 \in 1..n /\ i - 1 = 3
        BY <3>6
      <4>2. g[4] = g[3] \o ss[4]
        BY <3>1, <3>2, <4>1
      <4> QED
        BY <3>6, <4>1, <4>2
    <3> QED
      BY <3>3, <3>4, <3>5, <3>6
  <2>2. g = [i \in 1..n |-> g[i]]
    OBVIOUS
  <2> HIDE DEF g
  <2>3. g = [i \in 1..n |-> IF i = 1 THEN ss[i] ELSE g[i-1] \o ss[i]]
    BY <2>1, <2>2
  <2> QED
    BY <2>3
<1>3. flatten = CHOOSE f : is(f)
  OBVIOUS
<1> HIDE DEF is, flatten
<1>4. is(flatten)
  BY <1>2, <1>3, Zenon
<1>5. flatten[1] = ss[1] /\ \A i \in 2..n : flatten[i] = flatten[i - 1] \o ss[i]
  <2>1. \A i \in 1..n : flatten[i] = IF i = 1 THEN ss[i] ELSE flatten[i-1] \o ss[i]
    BY <1>4 DEF is
  <2>2. 1 \in 1..n /\ \A i \in 2..n : i \in 1..n /\ i # 1
    OBVIOUS
  <2> QED
    BY <2>1, <2>2
<1> QED
  BY <1>1, <1>5

\* One of the batches delivers a row and the others do not touch it.
LEMMA OneDelivers ==
    ASSUME NEW ss, NEW n \in 1..4, DOMAIN ss = 1..n, Len(ss) = n,
           NEW row, NEW new, NEW k \in 1..n,
           \A i \in 1..n : IsBatch(ss[i]),
           Delivers(ss[k], row, new),
           \A i \in 1..n : i # k => \A c \in Range(ss[i]) : Other(c, row)
    PROVE  Delivers(FlattenSeq(ss), row, new)
<1>1. PICK f : /\ FlattenSeq(ss) = f[n] /\ f[1] = ss[1]
               /\ \A i \in 2..n : f[i] = f[i - 1] \o ss[i]
  BY Flattened
<1> DEFINE D(i) == IsBatch(f[i]) /\ (k <= i => Delivers(f[i], row, new))
<1>2. D(1)
  BY <1>1
<1>3. ASSUME NEW i \in 2..n, D(i - 1) PROVE D(i)
  <2>1. IsBatch(f[i - 1]) /\ IsBatch(ss[i]) /\ f[i] = f[i - 1] \o ss[i]
    <3>1. i \in 1..n
      OBVIOUS
    <3> QED
      BY <1>1, <1>3, <3>1
  <2>2. IsBatch(f[i])
    BY <2>1, Joined
  <2>3. CASE k = i
    BY <2>1, <2>2, <2>3, DeliversLater
  <2>4. CASE k < i
    <3>1. k <= i - 1 /\ Delivers(f[i - 1], row, new)
      BY <1>3, <2>4
    <3>2. \A c \in Range(ss[i]) : Other(c, row)
      BY <2>4
    <3> QED
      BY <2>1, <2>2, <3>1, <3>2, DeliversStill
  <2> QED
    BY <2>2, <2>3, <2>4
<1> HIDE DEF D
<1>4. D(n)
  <2>1. n >= 2 => D(2)
    <3>1. n >= 2 => 2 \in 2..n /\ 2 - 1 = 1
      OBVIOUS
    <3> QED
      BY <1>2, <1>3, <3>1
  <2>2. n >= 3 => D(3)
    <3>1. n >= 3 => 3 \in 2..n /\ 3 - 1 = 2 /\ n >= 2
      OBVIOUS
    <3> QED
      BY <2>1, <1>3, <3>1
  <2>3. n >= 4 => D(4)
    <3>1. n >= 4 => 4 \in 2..n /\ 4 - 1 = 3 /\ n >= 3
      OBVIOUS
    <3> QED
      BY <2>2, <1>3, <3>1
  <2> QED
    BY <1>2, <2>1, <2>2, <2>3
<1> QED
  BY <1>1, <1>4 DEF D

\* A property of all commands of the batches holds for the whole one.
LEMMA AllFlattened ==
    ASSUME NEW ss, NEW n \in 1..4, DOMAIN ss = 1..n, Len(ss) = n, NEW C,
           \A i \in 1..n : IsBatch(ss[i]) /\ Range(ss[i]) \subseteq C
    PROVE  IsBatch(FlattenSeq(ss)) /\ Range(FlattenSeq(ss)) \subseteq C
<1>1. PICK f : /\ FlattenSeq(ss) = f[n] /\ f[1] = ss[1]
               /\ \A i \in 2..n : f[i] = f[i - 1] \o ss[i]
  BY Flattened
<1> DEFINE D(i) == IsBatch(f[i]) /\ Range(f[i]) \subseteq C
<1>2. D(1)
  BY <1>1
<1>3. ASSUME NEW i \in 2..n, D(i - 1) PROVE D(i)
  <2>1. IsBatch(f[i - 1]) /\ IsBatch(ss[i]) /\ f[i] = f[i - 1] \o ss[i]
    <3>1. i \in 1..n
      OBVIOUS
    <3> QED
      BY <1>1, <1>3, <3>1
  <2>2. IsBatch(f[i]) /\ Range(f[i]) = Range(f[i - 1]) \cup Range(ss[i])
    BY <2>1, Joined
  <2> QED
    BY <1>3, <2>2
<1> HIDE DEF D
<1>4. D(n)
  <2>1. n >= 2 => D(2)
    <3>1. n >= 2 => 2 \in 2..n /\ 2 - 1 = 1
      OBVIOUS
    <3> QED
      BY <1>2, <1>3, <3>1
  <2>2. n >= 3 => D(3)
    <3>1. n >= 3 => 3 \in 2..n /\ 3 - 1 = 2 /\ n >= 2
      OBVIOUS
    <3> QED
      BY <2>1, <1>3, <3>1
  <2>3. n >= 4 => D(4)
    <3>1. n >= 4 => 4 \in 2..n /\ 4 - 1 = 3 /\ n >= 3
      OBVIOUS
    <3> QED
      BY <2>2, <1>3, <3>1
  <2> QED
    BY <1>2, <2>1, <2>2, <2>3
<1> QED
  BY <1>1, <1>4 DEF D

-----------------------------------------------------------------------------
(***************************************************************************)
(* The batches of Create and Update of the resources that are written      *)
(* attribute by attribute.                                                 *)
(***************************************************************************)
LEMMA Flags ==
    /\ Kind = Stepwise \cup Whole
    /\ \A k \in Stepwise : /\ Resources[k].oneLine = FALSE
                           /\ k # "interface_ip" => /\ Resources[k].verified = TRUE
                                                   /\ Resources[k].presence # "lines"
    /\ Resources["interface_ip"].verified = FALSE
    /\ \A k \in Whole : Resources[k].oneLine = TRUE /\ Resources[k].presence # "lines"
<1>1. /\ Vlan.oneLine = FALSE /\ Vlan.verified = TRUE /\ Vlan.presence # "lines"
      /\ Svi.oneLine = FALSE /\ Svi.verified = TRUE /\ Svi.presence # "lines"
      /\ DhcpPool.oneLine = FALSE /\ DhcpPool.verified = TRUE /\ DhcpPool.presence # "lines"
      /\ DhcpHost.oneLine = FALSE /\ DhcpHost.verified = TRUE /\ DhcpHost.presence # "lines"
  BY DEF Vlan, Svi, DhcpPool, DhcpHost, Resource
<1>2. /\ Interface.oneLine = FALSE /\ Interface.verified = TRUE /\ Interface.presence # "lines"
      /\ InterfaceIP.oneLine = FALSE /\ InterfaceIP.verified = FALSE
  BY DEF Interface, InterfaceIP, Resource
<1>3. /\ SnmpCommunity.oneLine = TRUE /\ SnmpCommunity.presence # "lines"
      /\ StaticRoute.oneLine = TRUE /\ StaticRoute.presence # "lines"
      /\ IpRouting.oneLine = TRUE /\ IpRouting.presence # "lines"
      /\ DhcpExcludedRange.oneLine = TRUE /\ DhcpExcludedRange.presence # "lines"
  BY DEF SnmpCommunity, StaticRoute, IpRouting, DhcpExcludedRange, Resource
<1>4. Kind = Stepwise \cup Whole
  BY DEF Kind, Resources, Stepwise, Whole
<1> QED
  BY <1>1, <1>2, <1>3, <1>4 DEF Resources, Stepwise, Whole

\* What Create and Update have to send for a row.
Needs(k, row, how, plan) ==
    /\ plan[row.attr] # {} /\ ~(plan[row.attr] \subseteq row.unsent[how])
    /\ InUse(k, row, plan)

RowBatch(k, row, how, old, plan) ==
    Cleanup(row, old[row.attr], plan[row.attr]) \o Write(k, row, how, plan)

LEMMA CleanupBatch ==
    ASSUME NEW k, NEW row, Sound(k, row), NEW old, NEW new
    PROVE  Cleanup(row, old, new) \in {<<>>, <<Command("set", row.attr, {})>>}
  BY DEF Cleanup, Sound

LEMMA ShortBatches ==
    ASSUME NEW c
    PROVE  /\ IsBatch(<<>>) /\ Range(<<>>) = {}
           /\ IsBatch(<<c>>) /\ Range(<<c>>) = {c} /\ DOMAIN <<c>> = {1} /\ <<c>>[1] = c
<1>1. Range(<<>>) = {} /\ Range(<<c>>) = {c}
  BY Rows0, Rows1
<1>2. <<>> \in Seq({}) /\ <<c>> \in Seq({c}) /\ DOMAIN <<c>> = {1} /\ <<c>>[1] = c
  OBVIOUS
<1> QED
  BY <1>1, <1>2 DEF IsBatch

LEMMA WriteBatch ==
    ASSUME NEW k, NEW row, Sound(k, row), NEW how, NEW plan,
           row.verb = "add" => IsFiniteSet(plan[row.attr])
    PROVE  LET s == Write(k, row, how, plan)
               new == plan[row.attr]
           IN  /\ IsBatch(s)
               /\ \A c \in Range(s) : Writes(c, row, new) /\ c.do \in {"set", "add"}
               /\ Needs(k, row, how, plan) => 1 \in DOMAIN s
<1> DEFINE s   == Write(k, row, how, plan)
           new == plan[row.attr]
           each == [i \in 1..Cardinality(new) |-> Command("add", row.attr, {SetToSeq(new)[i]})]
<1>1. \/ s = <<>> /\ ~Needs(k, row, how, plan)
      \/ s = <<Command("set", row.attr, new)>> /\ row.verb = "set"
      \/ s = each /\ row.verb = "add" /\ new # {}
  BY DEF Write, Needs, Sound
<1>2. CASE s = <<>> /\ ~Needs(k, row, how, plan)
  BY <1>2, ShortBatches
<1>3. CASE s = <<Command("set", row.attr, new)>> /\ row.verb = "set"
  <2> DEFINE c == Command("set", row.attr, new)
  <2>1. Writes(c, row, new) /\ c.do = "set"
    BY <1>3 DEF Command, Writes
  <2> HIDE DEF c
  <2>2. s = <<c>>
    BY <1>3 DEF c
  <2> QED
    BY <2>1, <2>2, ShortBatches
<1>4. CASE s = each /\ row.verb = "add" /\ new # {}
  <2>1. IsFiniteSet(new)
    BY <1>4
  <2>2. Cardinality(new) \in Nat /\ Cardinality(new) # 0
    BY <1>4, <2>1, FS_CardinalityType, FS_EmptySet
  <2>3. \A i \in 1..Cardinality(new) : /\ Writes(each[i], row, new)
                                       /\ each[i].do = "add"
    BY <1>4 DEF Command, Writes
  <2>4. DOMAIN each = 1..Cardinality(new) /\ each = [i \in 1..Cardinality(new) |-> each[i]]
    OBVIOUS
  <2> HIDE DEF each, new
  <2>5. each \in [1..Cardinality(new) -> Range(each)]
    BY <2>4 DEF Range
  <2>6. IsBatch(each)
    BY <2>2, <2>5 DEF IsBatch
  <2>7. \A c \in Range(each) : Writes(c, row, new) /\ c.do \in {"set", "add"}
    BY <2>3, <2>4 DEF Range
  <2> QED
    BY <1>4, <2>2, <2>4, <2>6, <2>7 DEF new
<1> QED
  BY <1>1, <1>2, <1>3, <1>4

LEMMA RowDelivers ==
    ASSUME NEW k, NEW row, Sound(k, row), NEW how, NEW old, NEW plan,
           row.verb = "add" => IsFiniteSet(plan[row.attr])
    PROVE  LET s == RowBatch(k, row, how, old, plan)
           IN  /\ IsBatch(s)
               /\ \A c \in Range(s) : c.do \in {"set", "add"} /\ c.attr = row.attr
               /\ Needs(k, row, how, plan) => Delivers(s, row, plan[row.attr])
<1> DEFINE p == Cleanup(row, old[row.attr], plan[row.attr])
           q == Write(k, row, how, plan)
           new == plan[row.attr]
           clear == Command("set", row.attr, {})
<1>1. p \in {<<>>, <<clear>>} /\ clear.do = "set" /\ clear.attr = row.attr
  BY CleanupBatch DEF Command
<1>2. /\ IsBatch(q) /\ \A c \in Range(q) : Writes(c, row, new) /\ c.do \in {"set", "add"}
      /\ Needs(k, row, how, plan) => 1 \in DOMAIN q
  BY WriteBatch
<1> HIDE DEF p, q, clear, new
<1>3. IsBatch(p) /\ \A c \in Range(p) : c.do \in {"set", "add"} /\ c.attr = row.attr
  <2>1. CASE p = <<>>
    BY <2>1, ShortBatches
  <2>2. CASE p = <<clear>>
    <3>1. IsBatch(<<clear>>) /\ Range(<<clear>>) = {clear}
      BY ShortBatches
    <3> QED
      BY <1>1, <2>2, <3>1
  <2> QED
    BY <1>1, <2>1, <2>2
<1>4. IsBatch(p \o q) /\ Range(p \o q) = Range(p) \cup Range(q)
  BY <1>2, <1>3, Joined
<1>5. \A c \in Range(p \o q) : c.do \in {"set", "add"} /\ c.attr = row.attr
  BY <1>2, <1>3, <1>4 DEF Writes
<1>6. ASSUME Needs(k, row, how, plan) PROVE Delivers(p \o q, row, new)
  <2>1. \A i \in DOMAIN q : q[i] \in Range(q)
    BY DEF Range
  <2>2. Delivers(q, row, new)
    BY <1>2, <1>6, <2>1 DEF Delivers, Harmless
  <2> QED
    BY <1>2, <1>3, <2>2, DeliversLater
<1> QED
  BY <1>4, <1>5, <1>6 DEF RowBatch, p, q, new

\* The rest of the session: the object is there or will be opened.
Opens(r, s) == r.exists = TRUE \/ \E i \in DOMAIN s : s[i].do = "open"
Sendable(s) == IsBatch(s) /\ \A c \in Range(s) : c.do \in {"open", "set", "add"}

LEMMA StepwiseBuild ==
    ASSUME NEW k \in Stepwise, NEW how, NEW old, NEW plan,
           k = "svi" => IsFiniteSet(plan["dhcp_servers"])
    PROVE  LET s == BuildCommands(k, how, old, plan)
           IN  /\ Sendable(s) /\ 1 \in DOMAIN s /\ s[1].do = "open"
               /\ \A i \in DOMAIN Rows(k) :
                     Needs(k, Rows(k)[i], how, plan) =>
                         Delivers(s, Rows(k)[i], plan[Rows(k)[i].attr])
<1> DEFINE rows == Rows(k)
           open == Command("open", "all", {})
           ss   == [i \in DOMAIN rows |-> RowBatch(k, rows[i], how, old, plan)]
           s    == <<open>> \o FlattenSeq(ss)
<1>1. BuildCommands(k, how, old, plan) = s
  <2> DEFINE cleanups == [i \in DOMAIN rows |->
                             Cleanup(rows[i], old[rows[i].attr], plan[rows[i].attr])]
             writes   == [i \in DOMAIN rows |-> Write(k, rows[i], how, plan)]
  <2>1. BuildCommands(k, how, old, plan)
          = <<open>> \o FlattenSeq([i \in DOMAIN rows |-> cleanups[i] \o writes[i]])
    BY Flags DEF BuildCommands
  <2>2. [i \in DOMAIN rows |-> cleanups[i] \o writes[i]] = ss
    BY DEF RowBatch
  <2> QED
    BY <2>1, <2>2
<1>2. PICK n \in 1..4 : Apart(rows, n) /\ \A i \in 1..n : Sound(k, rows[i])
  BY StepwiseTables
<1>3. DOMAIN ss = 1..n /\ Len(ss) = n /\ DOMAIN rows = 1..n
  BY <1>2 DEF Apart
<1>4. ASSUME NEW i \in 1..n
      PROVE  /\ IsBatch(ss[i])
             /\ \A c \in Range(ss[i]) : c.do \in {"set", "add"} /\ c.attr = rows[i].attr
             /\ Needs(k, rows[i], how, plan) => Delivers(ss[i], rows[i], plan[rows[i].attr])
  <2>1. Sound(k, rows[i]) /\ ss[i] = RowBatch(k, rows[i], how, old, plan)
    BY <1>2, <1>3
  <2>2. rows[i].verb = "add" => IsFiniteSet(plan[rows[i].attr])
    BY <2>1 DEF Sound
  <2> HIDE DEF rows, ss
  <2> QED
    BY <2>1, <2>2, RowDelivers
<1> HIDE DEF ss
<1>5. /\ IsBatch(FlattenSeq(ss)) /\ \A c \in Range(FlattenSeq(ss)) : c.do \in {"set", "add"}
  <2> DEFINE C == { c \in UNION { Range(ss[i]) : i \in 1..n } : c.do \in {"set", "add"} }
  <2>1. \A i \in 1..n : IsBatch(ss[i]) /\ Range(ss[i]) \subseteq C
    BY <1>4
  <2>2. \A c \in C : c.do \in {"set", "add"}
    OBVIOUS
  <2> HIDE DEF C
  <2> QED
    BY <1>3, <2>1, <2>2, AllFlattened
<1>6. open.do = "open"
  BY DEF Command
<1> HIDE DEF open
<1>7. IsBatch(<<open>>) /\ Range(<<open>>) = {open} /\ Len(<<open>>) = 1
  BY ShortBatches
<1>8. Sendable(s)
  BY <1>5, <1>6, <1>7, Joined DEF Sendable
<1>9. 1 \in DOMAIN s /\ s[1] = open
  BY <1>5, <1>7, Joined, ShortBatches
<1>10. ASSUME NEW i \in 1..n, Needs(k, rows[i], how, plan)
       PROVE  Delivers(s, rows[i], plan[rows[i].attr])
  <2>1. Delivers(ss[i], rows[i], plan[rows[i].attr])
    BY <1>4, <1>10
  <2>2. ASSUME NEW j \in 1..n, j # i, NEW c \in Range(ss[j]) PROVE Other(c, rows[i])
    <3>1. c.do \in {"set", "add"} /\ c.attr = rows[j].attr
      BY <1>4, <2>2
    <3>2. rows[j].attr # rows[i].attr
      BY <1>2, <2>2 DEF Apart
    <3> QED
      BY <3>1, <3>2 DEF Other
  <2>3. Delivers(FlattenSeq(ss), rows[i], plan[rows[i].attr])
    <3> DEFINE row == rows[i]
               new == plan[rows[i].attr]
    <3>1. /\ \A j \in 1..n : IsBatch(ss[j])
          /\ \A j \in 1..n : j # i => \A c \in Range(ss[j]) : Other(c, row)
          /\ Delivers(ss[i], row, new)
      BY <1>4, <2>1, <2>2
    <3> HIDE DEF rows, row, new
    <3>2. Delivers(FlattenSeq(ss), row, new)
      BY <1>3, <3>1, OneDelivers
    <3> QED
      BY <3>2 DEF row, new
  <2> QED
    BY <1>5, <1>7, <2>3, DeliversLater
<1> QED
  BY <1>1, <1>3, <1>6, <1>8, <1>9, <1>10

-----------------------------------------------------------------------------
(***************************************************************************)
(* What the user may write, from the recursive definition of Models.       *)
(***************************************************************************)
LEMMA ModelsOf ==
    ASSUME NEW k, NEW n \in 0..4, Apart(Rows(k), n), NEW m \in Models(k)
    PROVE  /\ m = [a \in Attr(k) |-> m[a]]
           /\ \A i \in 1..n : m[Rows(k)[i].attr] \in Rows(k)[i].wants
<1> DEFINE rows == Rows(k)
           more(s, i) == { [x EXCEPT ![rows[i].attr] = w] : x \in s, w \in rows[i].wants }
           upTo[i \in 0..Len(rows)] ==
             IF i = 0 THEN {NoModel(k)}
             ELSE { [x EXCEPT ![rows[i].attr] = w] : x \in upTo[i - 1], w \in rows[i].wants }
           is(f) == f = [i \in 0..Len(rows) |->
                           IF i = 0 THEN {NoModel(k)} ELSE more(f[i - 1], i)]
<1>1. m \in upTo[Len(rows)]
  BY DEF Models
<1>2. Len(rows) = n /\ DOMAIN rows = 1..n
  BY DEF Apart
<1>3. \E f : is(f)
  <2> DEFINE s0 == {NoModel(k)}
             s1 == more(s0, 1)
             s2 == more(s1, 2)
             s3 == more(s2, 3)
             s4 == more(s3, 4)
             g  == [i \in 0..n |-> CASE i = 0 -> s0 [] i = 1 -> s1 [] i = 2 -> s2
                                     [] i = 3 -> s3 [] i = 4 -> s4]
  <2>1. \A i \in 0..n : \/ i = 0 /\ g[i] = s0
                        \/ i # 0 /\ g[i] = more(g[i - 1], i)
    <3> HIDE DEF s0, s1, s2, s3, s4, more
    <3>1. /\ 0 \in 0..n => g[0] = s0
          /\ 1 \in 0..n => g[1] = s1
          /\ 2 \in 0..n => g[2] = s2
          /\ 3 \in 0..n => g[3] = s3
          /\ 4 \in 0..n => g[4] = s4
      OBVIOUS
    <3> HIDE DEF g
    <3>2. s1 = more(s0, 1) /\ s2 = more(s1, 2) /\ s3 = more(s2, 3) /\ s4 = more(s3, 4)
      BY DEF s1, s2, s3, s4
    <3> TAKE i \in 0..n
    <3>3. CASE i = 0
      BY <3>1, <3>3
    <3>4. CASE i = 1
      <4>1. 1 \in 0..n /\ 0 \in 0..n /\ i - 1 = 0
        BY <3>4
      <4>2. g[1] = more(g[0], 1)
        BY <3>1, <3>2, <4>1
      <4> QED
        BY <3>4, <4>1, <4>2
    <3>5. CASE i = 2
      <4>1. 2 \in 0..n /\ 1 \in 0..n /\ i - 1 = 1
        BY <3>5
      <4>2. g[2] = more(g[1], 2)
        BY <3>1, <3>2, <4>1
      <4> QED
        BY <3>5, <4>1, <4>2
    <3>6. CASE i = 3
      <4>1. 3 \in 0..n /\ 2 \in 0..n /\ i - 1 = 2
        BY <3>6
      <4>2. g[3] = more(g[2], 3)
        BY <3>1, <3>2, <4>1
      <4> QED
        BY <3>6, <4>1, <4>2
    <3>7. CASE i = 4
      <4>1. 4 \in 0..n /\ 3 \in 0..n /\ i - 1 = 3
        BY <3>7
      <4>2. g[4] = more(g[3], 4)
        BY <3>1, <3>2, <4>1
      <4> QED
        BY <3>7, <4>1, <4>2
    <3> QED
      BY <3>3, <3>4, <3>5, <3>6, <3>7
  <2>2. g = [i \in 0..n |-> g[i]]
    OBVIOUS
  <2> HIDE DEF g, more
  <2>3. g = [i \in 0..n |-> IF i = 0 THEN {NoModel(k)} ELSE more(g[i - 1], i)]
    BY <2>1, <2>2
  <2>4. is(g)
    <3> HIDE DEF rows
    <3> QED
      BY <1>2, <2>3
  <2> HIDE DEF is
  <2> QED
    BY <2>4
<1>4. upTo = CHOOSE f : is(f)
  OBVIOUS
<1> HIDE DEF is, upTo
<1>5. is(upTo)
  BY <1>3, <1>4, Zenon
<1>6. /\ upTo[0] = {NoModel(k)}
      /\ \A i \in 1..n : upTo[i] = more(upTo[i - 1], i)
  <2>1. \A i \in 0..n : upTo[i] = IF i = 0 THEN {NoModel(k)} ELSE more(upTo[i - 1], i)
    <3> HIDE DEF more, rows
    <3> QED
      BY <1>2, <1>5 DEF is
  <2>2. 0 \in 0..n /\ \A i \in 1..n : i \in 0..n /\ i # 0
    OBVIOUS
  <2> HIDE DEF more
  <2> QED
    BY <2>1, <2>2
<1>7. \A i \in 1..n : rows[i].attr \in Attr(k)
  BY <1>2 DEF Attr, Range
<1> DEFINE D(i) == \A x \in upTo[i] : /\ x = [a \in Attr(k) |-> x[a]]
                                      /\ \A j \in 1..i : x[rows[j].attr] \in rows[j].wants
<1>8. D(0)
  BY <1>6 DEF NoModel
<1>9. ASSUME NEW i \in 1..n, D(i - 1) PROVE D(i)
  <2> SUFFICES ASSUME NEW x \in upTo[i]
               PROVE  /\ x = [a \in Attr(k) |-> x[a]]
                      /\ \A j \in 1..i : x[rows[j].attr] \in rows[j].wants
    OBVIOUS
  <2>1. PICK y \in upTo[i - 1], w \in rows[i].wants : x = [y EXCEPT ![rows[i].attr] = w]
    BY <1>6
  <2>2. y = [a \in Attr(k) |-> y[a]] /\ \A j \in 1..(i - 1) : y[rows[j].attr] \in rows[j].wants
    BY <1>9, <2>1
  <2>3. x = [a \in Attr(k) |-> x[a]]
    BY <2>1, <2>2
  <2>4. ASSUME NEW j \in 1..i PROVE x[rows[j].attr] \in rows[j].wants
    <3>1. CASE j = i
      BY <1>7, <2>1, <2>2, <3>1
    <3>2. CASE j # i
      <4>1. j \in 1..(i - 1) /\ j \in 1..n
        BY <3>2
      <4>2. rows[j].attr # rows[i].attr
        BY <3>2, <4>1 DEF Apart
      <4> QED
        BY <1>7, <2>1, <2>2, <4>1, <4>2
    <3> QED
      BY <3>1, <3>2
  <2> QED
    BY <2>3, <2>4
<1> HIDE DEF D, more
<1>10. D(n)
  <2>1. n >= 1 => D(1)
    <3>1. n >= 1 => 1 \in 1..n /\ 1 - 1 = 0
      OBVIOUS
    <3> QED
      BY <1>8, <1>9, <3>1
  <2>2. n >= 2 => D(2)
    <3>1. n >= 2 => 2 \in 1..n /\ 2 - 1 = 1 /\ n >= 1
      OBVIOUS
    <3> QED
      BY <2>1, <1>9, <3>1
  <2>3. n >= 3 => D(3)
    <3>1. n >= 3 => 3 \in 1..n /\ 3 - 1 = 2 /\ n >= 2
      OBVIOUS
    <3> QED
      BY <2>2, <1>9, <3>1
  <2>4. n >= 4 => D(4)
    <3>1. n >= 4 => 4 \in 1..n /\ 4 - 1 = 3 /\ n >= 3
      OBVIOUS
    <3> QED
      BY <2>3, <1>9, <3>1
  <2> QED
    BY <1>8, <2>1, <2>2, <2>3, <2>4
<1> QED
  BY <1>1, <1>2, <1>10 DEF D

LEMMA ServersAreFinite ==
    ASSUME IsFiniteSet(Text), NEW m \in Models("svi")
    PROVE  IsFiniteSet(m["dhcp_servers"])
<1>1. Rows("svi")[3].attr = "dhcp_servers" /\ Rows("svi")[3].wants = SUBSET Text
  BY SviTable
<1>2. m["dhcp_servers"] \in SUBSET Text
  BY <1>1, SviTable, ModelsOf
<1> QED
  BY <1>2, FS_Subset

\* A port without address is not in the state of cisco_interface_ip.
LEMMA AddressIsGiven ==
    ASSUME NEW m \in Models("interface_ip")
    PROVE  /\ Attr("interface_ip") = {Rows("interface_ip")[1].attr}
           /\ m[Rows("interface_ip")[1].attr] # {}
<1> DEFINE row == Rows("interface_ip")[1]
<1>1. Rows("interface_ip") = <<row>>
  BY AddressRow
<1> HIDE DEF row
<1>2. Attr("interface_ip") = {row.attr}
  BY <1>1, Rows1 DEF Attr
<1>3. m[row.attr] \in row.wants
  BY HostAndAddressTables, ModelsOf DEF row
<1>4. \A w \in row.wants : w # {}
  <2> DEFINE given == [Required("ip_address", Text \cup {"dhcp"}) EXCEPT !.blind = Text]
  <2>1. given.wants = { {v} : v \in Text \cup {"dhcp"} }
    BY DEF Required
  <2>2. row = given
    BY AddressRow DEF given, row
  <2> HIDE DEF given
  <2> QED
    BY <2>1, <2>2
<1> QED
  BY <1>2, <1>3, <1>4 DEF row

-----------------------------------------------------------------------------
(***************************************************************************)
(* One command of such a batch.                                            *)
(***************************************************************************)
Shaped(k, r) ==
    /\ DOMAIN r = {"exists", "val"} /\ DOMAIN r.val = Attr(k)
    /\ Resources[k].presence = "always" => r.exists = TRUE

LEMMA MissingIsShaped == \A k : Shaped(k, Missing(k))
  BY DEF Shaped, Missing, Initial

LEMMA ExecOpen ==
    ASSUME NEW k, NEW r, Shaped(k, r), NEW c, c.do = "open"
    PROVE  /\ Shaped(k, Exec(k, r, c))
           /\ Exec(k, r, c).exists = TRUE /\ Exec(k, r, c).val = r.val
<1>1. Exec(k, r, c) = [r EXCEPT !.exists = TRUE]
  BY DEF Exec
<1> QED
  BY <1>1 DEF Shaped

LEMMA ExecWrite ==
    ASSUME NEW k, NEW r, Shaped(k, r), NEW c, c.do \in {"set", "add"}
    PROVE  /\ Shaped(k, Exec(k, r, c)) /\ Exec(k, r, c).exists = r.exists
           /\ \A a \in Attr(k) : a # c.attr => Exec(k, r, c).val[a] = r.val[a]
           /\ c.do = "set" /\ c.attr \in Attr(k) => Exec(k, r, c).val[c.attr] = c.val
           /\ c.do = "add" /\ c.attr \in Attr(k) =>
                 Exec(k, r, c).val[c.attr] = r.val[c.attr] \cup c.val
<1>1. CASE c.do = "set"
  <2>1. Exec(k, r, c) = [r EXCEPT !.val[c.attr] = c.val]
    BY <1>1 DEF Exec
  <2> QED
    BY <1>1, <2>1 DEF Shaped
<1>2. CASE c.do = "add"
  <2> DEFINE r2 == Exec(k, r, c)
  <2>1. r2 = [r EXCEPT !.val[c.attr] = @ \cup c.val]
    BY <1>2 DEF Exec
  <2>2. /\ DOMAIN r2 = {"exists", "val"} /\ r2.exists = r.exists
        /\ r2.val = [r.val EXCEPT ![c.attr] = @ \cup c.val]
    BY <2>1 DEF Shaped
  <2> HIDE DEF r2
  <2>3. /\ DOMAIN r2.val = Attr(k)
        /\ \A a \in Attr(k) : a # c.attr => r2.val[a] = r.val[a]
        /\ c.attr \in Attr(k) => r2.val[c.attr] = r.val[c.attr] \cup c.val
    BY <2>2 DEF Shaped
  <2> QED
    BY <1>2, <2>2, <2>3 DEF Shaped, r2
<1> QED
  BY <1>1, <1>2

Has(r, row, new) ==
    IF row.verb = "set" THEN r.val[row.attr] = new ELSE r.val[row.attr] # {}
Delivered(r, s, row, new) ==
    Delivers(s, row, new) \/ (Has(r, row, new) /\ Harmless(s, row, new, 0))

LEMMA NextCommand ==
    ASSUME NEW s, IsBatch(s), s # <<>>
    PROVE  /\ Head(s) = s[1] /\ 1 \in DOMAIN s /\ IsBatch(Tail(s))
           /\ DOMAIN s = 1..Len(s) /\ Len(s) \in Nat /\ DOMAIN Tail(s) = 1..(Len(s) - 1)
           /\ \A i \in 1..(Len(s) - 1) : Tail(s)[i] = s[i + 1]
           /\ Range(Tail(s)) \subseteq Range(s)
<1>1. /\ Head(s) = s[1] /\ Tail(s) \in Seq(Range(s)) /\ Len(Tail(s)) = Len(s) - 1
      /\ \A i \in 1..Len(Tail(s)) : Tail(s)[i] = s[i + 1]
  BY HeadTailProperties DEF IsBatch
<1>2. DOMAIN s = 1..Len(s) /\ Len(s) \in Nat /\ Len(s) # 0
  BY EmptySeq, LenProperties DEF IsBatch
<1>3. DOMAIN Tail(s) = 1..(Len(s) - 1)
  BY <1>1, LenProperties
<1>4. Range(Tail(s)) \subseteq Range(s)
  <2> SUFFICES ASSUME NEW i \in 1..(Len(s) - 1) PROVE Tail(s)[i] \in Range(s)
    BY <1>3 DEF Range
  <2>1. Tail(s)[i] = s[i + 1] /\ i + 1 \in DOMAIN s
    BY <1>1, <1>2
  <2> QED
    BY <2>1 DEF Range
<1>5. Tail(s) \in Seq(Range(Tail(s)))
  BY <1>1, SeqOfRange
<1> QED
  BY <1>1, <1>2, <1>3, <1>4, <1>5 DEF IsBatch

LEMMA DeliveredStill ==
    ASSUME NEW k, NEW r, Shaped(k, r), NEW s, Sendable(s), s # <<>>,
           NEW row, row.attr \in Attr(k), row.verb \in {"set", "add"}, NEW new,
           Delivered(r, s, row, new)
    PROVE  Delivered(Exec(k, r, Head(s)), Tail(s), row, new)
<1> DEFINE c  == s[1]
           r2 == Exec(k, r, c)
<1>1. /\ Head(s) = c /\ 1 \in DOMAIN s /\ DOMAIN s = 1..Len(s) /\ Len(s) \in Nat
      /\ DOMAIN Tail(s) = 1..(Len(s) - 1)
      /\ \A i \in 1..(Len(s) - 1) : Tail(s)[i] = s[i + 1]
  BY NextCommand DEF Sendable
<1>2. c.do \in {"open", "set", "add"}
  BY <1>1 DEF Sendable, Range
<1> HIDE DEF c
<1>3. c.do = "open" => Shaped(k, r2) /\ r2.exists = TRUE /\ r2.val = r.val
  BY ExecOpen
<1>4. c.do # "open" =>
         /\ Shaped(k, r2) /\ r2.exists = r.exists
         /\ \A a \in Attr(k) : a # c.attr => r2.val[a] = r.val[a]
         /\ c.do = "set" /\ c.attr \in Attr(k) => r2.val[c.attr] = c.val
         /\ c.do = "add" /\ c.attr \in Attr(k) => r2.val[c.attr] = r.val[c.attr] \cup c.val
  BY <1>2, ExecWrite
<1> HIDE DEF r2
<1>5. Writes(c, row, new) => Has(r2, row, new)
  <2> SUFFICES ASSUME Writes(c, row, new) PROVE Has(r2, row, new)
    OBVIOUS
  <2>1. c.attr = row.attr /\ c.do \in {"set", "add"} /\ (c.do = "set" <=> row.verb = "set")
    BY DEF Writes
  <2>2. r2.val[row.attr] = IF c.do = "set" THEN c.val ELSE r.val[row.attr] \cup c.val
    BY <1>3, <1>4, <2>1
  <2> QED
    BY <2>1, <2>2 DEF Writes, Has
<1>6. Other(c, row) => r2.val[row.attr] = r.val[row.attr]
  BY <1>3, <1>4 DEF Other
<1>7. ASSUME NEW j \in Nat, Harmless(s, row, new, j), NEW j2 \in Nat, j2 + 1 >= j
      PROVE  Harmless(Tail(s), row, new, j2)
  <2> SUFFICES ASSUME NEW i \in 1..(Len(s) - 1), i > j2
               PROVE  Writes(Tail(s)[i], row, new) \/ Other(Tail(s)[i], row)
    BY <1>1 DEF Harmless
  <2>1. i + 1 \in DOMAIN s /\ i + 1 > j /\ Tail(s)[i] = s[i + 1]
    BY <1>1, <1>7
  <2> QED
    BY <1>7, <2>1 DEF Harmless
<1>8. CASE Delivers(s, row, new)
  <2>1. PICK j \in DOMAIN s : Writes(s[j], row, new) /\ Harmless(s, row, new, j)
    BY <1>8 DEF Delivers
  <2>2. CASE j = 1
    <3>1. Has(r2, row, new) /\ Harmless(Tail(s), row, new, 0)
      BY <1>5, <1>7, <2>1, <2>2 DEF c
    <3> QED
      BY <1>1, <3>1 DEF Delivered, r2
  <2>3. CASE j # 1
    <3>1. j - 1 \in 1..(Len(s) - 1) /\ Tail(s)[j - 1] = s[j] /\ j - 1 \in Nat /\ j \in Nat
      BY <1>1, <2>1, <2>3
    <3>2. Harmless(Tail(s), row, new, j - 1)
      BY <1>7, <2>1, <3>1
    <3> QED
      BY <1>1, <2>1, <3>1, <3>2 DEF Delivered, Delivers, r2
  <2> QED
    BY <2>2, <2>3
<1>9. CASE Has(r, row, new) /\ Harmless(s, row, new, 0)
  <2>1. Harmless(Tail(s), row, new, 0)
    BY <1>7, <1>9
  <2>2. Writes(c, row, new) \/ Other(c, row)
    BY <1>1, <1>9 DEF Harmless
  <2>3. Has(r2, row, new)
    BY <1>5, <1>6, <1>9, <2>2 DEF Has
  <2> QED
    BY <1>1, <2>1, <2>3 DEF Delivered, r2
<1> QED
  BY <1>8, <1>9 DEF Delivered

LEMMA SendOne ==
    ASSUME NEW k, NEW r, Shaped(k, r), NEW s, Sendable(s), Opens(r, s), s # <<>>
    PROVE  /\ Shaped(k, Exec(k, r, Head(s))) /\ Sendable(Tail(s))
           /\ Opens(Exec(k, r, Head(s)), Tail(s))
<1> DEFINE c  == s[1]
           r2 == Exec(k, r, c)
<1>1. /\ Head(s) = c /\ 1 \in DOMAIN s /\ DOMAIN s = 1..Len(s) /\ Len(s) \in Nat
      /\ DOMAIN Tail(s) = 1..(Len(s) - 1) /\ IsBatch(Tail(s))
      /\ \A i \in 1..(Len(s) - 1) : Tail(s)[i] = s[i + 1]
      /\ Range(Tail(s)) \subseteq Range(s)
  BY NextCommand DEF Sendable
<1>2. c.do \in {"open", "set", "add"}
  BY <1>1 DEF Sendable, Range
<1> HIDE DEF c
<1>3. c.do = "open" => Shaped(k, r2) /\ r2.exists = TRUE /\ r2.val = r.val
  BY ExecOpen
<1>4. c.do # "open" =>
         /\ Shaped(k, r2) /\ r2.exists = r.exists
         /\ \A a \in Attr(k) : a # c.attr => r2.val[a] = r.val[a]
         /\ c.do = "set" /\ c.attr \in Attr(k) => r2.val[c.attr] = c.val
         /\ c.do = "add" /\ c.attr \in Attr(k) => r2.val[c.attr] = r.val[c.attr] \cup c.val
  BY <1>2, ExecWrite
<1> HIDE DEF r2
<1>5. /\ Shaped(k, r2)
      /\ c.do = "open" => r2.exists = TRUE
      /\ r.exists = TRUE => r2.exists = TRUE
  BY <1>2, <1>3, <1>4
<1>6. Sendable(Tail(s))
  BY <1>1 DEF Sendable
<1>7. Opens(r2, Tail(s))
  <2>1. CASE r.exists = TRUE
    BY <1>5, <2>1 DEF Opens
  <2>2. CASE \E i \in DOMAIN s : s[i].do = "open"
    <3>1. PICK i \in DOMAIN s : s[i].do = "open"
      BY <2>2
    <3>2. CASE i = 1
      BY <1>5, <3>1, <3>2 DEF Opens, c
    <3>3. CASE i # 1
      <4>1. i - 1 \in 1..(Len(s) - 1) /\ i - 1 + 1 = i
        BY <1>1, <3>3
      <4>2. Tail(s)[i - 1] = s[i] /\ i - 1 \in DOMAIN Tail(s)
        BY <1>1, <4>1
      <4> QED
        BY <3>1, <4>2 DEF Opens
    <3> QED
      BY <3>2, <3>3
  <2> QED
    BY <2>1, <2>2 DEF Opens
<1> QED
  BY <1>1, <1>5, <1>6, <1>7 DEF r2

-----------------------------------------------------------------------------
(***************************************************************************)
(* The inductive invariant for a successful apply.  While an operation     *)
(* runs, every value it has to write is still to come, and nothing after   *)
(* it takes the value away, or it is on the switch already, and nothing in *)
(* the rest of the batch takes it away; the same after the batch has been  *)
(* started again, over whatever an earlier operation has left.             *)
(***************************************************************************)
Writing == op \in {"create", "update"}

Shapes == kind \in Stepwise => Shaped(kind, running) /\ Shaped(kind, startup)

RowByRow ==
    Writing /\ kind \in Stepwise =>
        /\ Sendable(todo) /\ Opens(running, todo)
        /\ \A i \in DOMAIN Rows(kind) :
              Needs(kind, Rows(kind)[i], op, want) =>
                  Delivered(running, todo, Rows(kind)[i], want[Rows(kind)[i].attr])

InOneLine ==
    Writing /\ kind \in Whole =>
        \/ todo = <<Command("line", "all", want)>>
        \/ todo = <<>> /\ running = [exists |-> TRUE, val |-> want]

Removing ==
    op = "delete" => todo \in {<<>>, <<Command("destroy", "all", {})>>}

Applied ==
    (op = "save" \/ verdict = "applied") /\ want # Absent => Configured(running)

WInv == /\ kind \in Kinds /\ want \in Models(kind) \cup {Absent} /\ spent \in [Event -> Nat]
        /\ op \in {"none", "create", "update", "delete", "save", "resave"}
        /\ Resting /\ Reporting /\ Asked
        /\ Shapes /\ RowByRow /\ InOneLine /\ Removing /\ Applied

\* A batch that starts, at whatever the switch has.
LEMMA BatchStarts ==
    ASSUME kind \in Stepwise, IsFiniteSet(Text), want \in Models(kind),
           NEW how, NEW old, NEW r, NEW s, s = BuildCommands(kind, how, old, want)
    PROVE  /\ Sendable(s) /\ Opens(r, s)
           /\ \A i \in DOMAIN Rows(kind) :
                 Needs(kind, Rows(kind)[i], how, want) =>
                     Delivered(r, s, Rows(kind)[i], want[Rows(kind)[i].attr])
<1>1. kind = "svi" => IsFiniteSet(want["dhcp_servers"])
  BY ServersAreFinite
<1> QED
  BY <1>1, StepwiseBuild DEF Opens, Delivered

LEMMA LineStarts ==
    ASSUME NEW k \in Whole, NEW how, NEW old, NEW plan
    PROVE  BuildCommands(k, how, old, plan) = <<Command("line", "all", plan)>>
  BY Flags DEF BuildCommands

\* The rows of a table and its attributes.
LEMMA AttrRow ==
    ASSUME NEW k \in Stepwise, NEW a \in Attr(k)
    PROVE  /\ Sound(k, Row(k, a)) /\ Row(k, a).attr = a
           /\ \E i \in DOMAIN Rows(k) :
                 /\ Rows(k)[i] = Row(k, a) /\ Rows(k)[i].attr = a /\ Sound(k, Rows(k)[i])
<1>1. Row(k, a) \in Range(Rows(k)) /\ Row(k, a).attr = a
  BY RowOfAttr
<1>2. PICK i \in DOMAIN Rows(k) : Rows(k)[i] = Row(k, a)
  BY <1>1 DEF Range
<1>3. Sound(k, Rows(k)[i])
  BY StepwiseTables DEF Apart
<1> QED
  BY <1>1, <1>2, <1>3

LEMMA RowAttr ==
    ASSUME NEW k \in Stepwise, NEW i \in DOMAIN Rows(k)
    PROVE  /\ Rows(k)[i].attr \in Attr(k) /\ Sound(k, Rows(k)[i])
           /\ Rows(k)[i].verb \in {"set", "add"}
<1>1. Rows(k)[i].attr \in Attr(k)
  BY DEF Attr, Range
<1>2. Sound(k, Rows(k)[i])
  BY StepwiseTables DEF Apart
<1> QED
  BY <1>1, <1>2 DEF Sound

(***************************************************************************)
(* The end of an operation.  A value that the read-back does not find is   *)
(* taken from the plan where the table says so, but then the batch would   *)
(* have written it; a value that is there and not wanted is found.         *)
(***************************************************************************)
LEMMA ReadAfterWrite ==
    ASSUME kind \in Stepwise \ {"interface_ip"}, WInv, Writing, todo = <<>>,
           UpdateModelFromInfo(kind, running, want) = want
    PROVE  Configured(running)
<1>1. want # Absent /\ want \in Models(kind) /\ running.exists = TRUE
  BY DEF WInv, Asked, Writing, RowByRow, Opens
<1>2. Present(kind, running)
  BY <1>1, Flags DEF Present
<1>3. \A a \in Attr(kind) :
         want[a] = IF ~InUse(kind, Row(kind, a), running.val) THEN want[a]
                   ELSE ReadValue(Row(kind, a), running.val[a], want[a])
  BY <1>2 DEF UpdateModelFromInfo
<1>4. ASSUME NEW a \in Attr(kind), InUse(kind, Row(kind, a), running.val),
             InUse(kind, Row(kind, a), want)
      PROVE  running.val[a] = want[a]
  <2>1. PICK i \in DOMAIN Rows(kind) :
            /\ Rows(kind)[i] = Row(kind, a) /\ Rows(kind)[i].attr = a
            /\ Sound(kind, Rows(kind)[i])
    BY AttrRow
  <2> DEFINE row == Rows(kind)[i]
  <2>2. want[a] = ReadValue(row, running.val[a], want[a])
    BY <1>3, <1>4, <2>1
  <2>3. row.blind = {} /\ row.attr = a
    BY <2>1 DEF Sound
  <2>4. CASE running.val[a] # {}
    BY <2>2, <2>3, <2>4 DEF ReadValue
  <2>5. CASE running.val[a] = {} /\ want[a] # {}
    <3>1. want[a] = IF row.keep THEN want[a] ELSE row.empty
      BY <2>2, <2>5 DEF ReadValue
    <3>2. CASE want[a] \subseteq row.unsent[op]
      <4>1. row.unsent[op] # {}
        BY <2>5, <3>2
      <4>2. row.keep = FALSE /\ row.empty \cap row.unsent[op] = {}
        BY <2>1, <4>1 DEF Sound, Writing
      <4>3. want[a] = row.empty
        BY <3>1, <4>2
      <4> QED
        BY <2>5, <3>2, <4>2, <4>3
    <3>3. CASE ~(want[a] \subseteq row.unsent[op])
      <4>1. Needs(kind, row, op, want)
        BY <1>4, <2>1, <2>5, <3>3 DEF Needs
      <4>2. Delivered(running, <<>>, row, want[a])
        BY <2>1, <4>1 DEF WInv, RowByRow, Writing
      <4>3. Has(running, row, want[a])
        BY <4>2 DEF Delivered, Delivers
      <4> QED
        BY <2>3, <2>5, <4>3 DEF Has
    <3> QED
      BY <3>2, <3>3
  <2> QED
    BY <2>4, <2>5
<1>5. kind = "interface" => running.val["mode"] = want["mode"]
  <2> SUFFICES ASSUME kind = "interface" PROVE running.val["mode"] = want["mode"]
    OBVIOUS
  <2>1. "mode" \in Attr(kind)
    BY InterfaceTable, RowAttr DEF Apart
  <2>2. Sound(kind, Row(kind, "mode")) /\ Row(kind, "mode").attr = "mode"
    BY <2>1, AttrRow
  <2>3. Row(kind, "mode").only = {}
    BY <2>2 DEF Sound
  <2> QED
    BY <1>4, <2>1, <2>3 DEF InUse
<1>6. ASSUME NEW a \in Attr(kind), InUse(kind, Row(kind, a), want)
      PROVE  InUse(kind, Row(kind, a), running.val)
  <2>0. Sound(kind, Row(kind, a))
    BY AttrRow
  <2>1. kind # "interface" => Row(kind, a).only = {}
    BY <2>0 DEF Sound
  <2> QED
    BY <1>5, <1>6, <2>1 DEF InUse
<1> QED
  BY <1>1, <1>2, <1>4, <1>6 DEF Configured

LEMMA WrittenInFull ==
    ASSUME WInv, Written, ReadBack = want
    PROVE  Configured(running)
<1>1. Writing /\ todo = <<>> /\ want # Absent /\ want \in Models(kind)
  BY DEF Written, Writing, WInv, Asked
<1>2. CASE kind \in Whole
  <2>1. running = [exists |-> TRUE, val |-> want]
    BY <1>1, <1>2 DEF WInv, InOneLine
  <2>2. Present(kind, running)
    BY <1>2, <2>1, Flags DEF Present
  <2> QED
    BY <1>1, <2>1, <2>2 DEF Configured
<1>3. CASE kind \in Stepwise \ {"interface_ip"}
  <2>1. UpdateModelFromInfo(kind, running, want) = want
    BY <1>3, Flags DEF ReadBack
  <2> QED
    BY <1>1, <1>3, <2>1, ReadAfterWrite
<1>4. CASE kind = "interface_ip"
  <2> DEFINE row == Rows("interface_ip")[1]
             a   == row.attr
  <2>1. Attr(kind) = {a} /\ want[a] # {}
    BY <1>1, <1>4, AddressIsGiven
  <2>2. 1 \in DOMAIN Rows(kind) /\ kind \in Stepwise
    BY <1>4, HostAndAddressTables DEF Apart, Stepwise
  <2>3. Sound("interface_ip", row)
    BY HostAndAddressTables
  <2>4. row.verb = "set" /\ row.only = {} /\ row.unsent[op] = {}
    BY <1>1, <2>3 DEF Sound, Writing
  <2>5. Needs(kind, row, op, want)
    BY <2>1, <2>4 DEF Needs, InUse
  <2>6. Delivered(running, <<>>, row, want[a])
    BY <1>1, <1>4, <2>2, <2>5 DEF WInv, RowByRow
  <2>7. running.val[a] = want[a]
    BY <2>4, <2>6 DEF Delivered, Delivers, Has
  <2>8. Present(kind, running)
    BY <1>4, <2>1, <2>7, AddressRow DEF Present
  <2> QED
    BY <1>1, <2>1, <2>7, <2>8 DEF Configured
<1>5. kind \in Stepwise \cup Whole
  BY Flags, KindAssumption DEF WInv
<1> QED
  BY <1>2, <1>3, <1>4, <1>5

LEMMA InitWInv == Init => WInv
<1> SUFFICES ASSUME Init PROVE WInv
  OBVIOUS
<1>1. Shaped(kind, running) /\ Shaped(kind, startup)
  BY MissingIsShaped DEF Init
<1> QED
  BY <1>1
  DEF Init, WInv, Resting, Reporting, Asked, Shapes, RowByRow, InOneLine, Removing, Applied, Writing

\* The batch of an operation that starts or starts again.
LEMMA StartWInv ==
    ASSUME Kinds \subseteq Kind, IsFiniteSet(Text), WInv,
           kind' = kind, want' = want, UNCHANGED switchVars, spent' \in [Event -> Nat],
           verdict' \notin {"no changes", "applied", "saved"},
           \/ /\ op' \in {"create", "update"} /\ want # Absent
              /\ \E old : todo' = BuildCommands(kind, op', old, want)
           \/ op' = "delete" /\ todo' = DeleteCommands(kind)
    PROVE  WInv'
<1>1. /\ kind \in Kind /\ kind \in Kinds /\ running' = running /\ startup' = startup
      /\ want \in Models(kind) \cup {Absent} /\ Shapes
  BY DEF WInv, switchVars
<1>2. CASE op' \in {"create", "update"} /\ want # Absent
            /\ \E old : todo' = BuildCommands(kind, op', old, want)
  <2>1. PICK old : todo' = BuildCommands(kind, op', old, want)
    BY <1>2
  <2>2. RowByRow'
    <3> SUFFICES ASSUME kind \in Stepwise
                 PROVE  /\ Sendable(todo') /\ Opens(running, todo')
                        /\ \A i \in DOMAIN Rows(kind) :
                              Needs(kind, Rows(kind)[i], op', want) =>
                                  Delivered(running, todo', Rows(kind)[i],
                                            want[Rows(kind)[i].attr])
      BY <1>1 DEF RowByRow
    <3> QED
      BY <1>1, <1>2, <2>1, BatchStarts
  <2>3. InOneLine'
    <3>1. kind \in Whole => todo' = <<Command("line", "all", want)>>
      BY <2>1, LineStarts
    <3> QED
      BY <3>1 DEF InOneLine
  <2> QED
    BY <1>1, <1>2, <2>2, <2>3
    DEF WInv, Resting, Reporting, Asked, Shapes, Removing, Applied
<1>3. CASE op' = "delete" /\ todo' = DeleteCommands(kind)
  <2>1. todo' = <<Command("destroy", "all", {})>>
    BY <1>3 DEF DeleteCommands
  <2> QED
    BY <1>1, <1>3, <2>1
    DEF WInv, Resting, Reporting, Asked, Shapes, RowByRow, InOneLine, Removing, Applied, Writing
<1> QED
  BY <1>2, <1>3

\* An operation ends, or nothing is running.
LEMMA RestWInv ==
    ASSUME WInv, kind' = kind, want' \in Models(kind) \cup {Absent},
           spent' \in [Event -> Nat],
           running' \in {running, startup}, startup' \in {running, startup},
           op' \in {"none", "save", "resave"}, todo' = <<>>,
           op' # "none" => verdict' = "none",
           (op' = "save" \/ verdict' = "applied") /\ want' # Absent =>
               /\ want' = want /\ running' = running /\ Configured(running)
    PROVE  WInv'
<1>1. kind' \in Kinds /\ Shapes
  BY DEF WInv
<1>2. Shapes'
  BY <1>1 DEF Shapes
<1>3. Applied'
  BY DEF Applied, Configured
<1> QED
  BY <1>1, <1>2, <1>3
  DEF WInv, Resting, Reporting, Asked, RowByRow, InOneLine, Removing, Writing

LEMMA SendWInv ==
    ASSUME Kinds \subseteq Kind, WInv, SendCommand
    PROVE  WInv'
<1>1. /\ todo # <<>> /\ running' = Exec(kind, running, Head(todo)) /\ todo' = Tail(todo)
      /\ UNCHANGED <<kind, want, startup, op, verdict, spent>>
  BY DEF SendCommand, fileVars, stateVars
<1>2. /\ kind \in Kinds /\ kind \in Kind /\ want \in Models(kind) \cup {Absent}
      /\ spent \in [Event -> Nat] /\ op \in {"none", "create", "update", "delete", "save", "resave"}
      /\ Resting /\ Reporting /\ Asked
      /\ Shapes /\ RowByRow /\ InOneLine /\ Removing
  BY DEF WInv
<1>3. op \notin {"none", "save", "resave"} /\ verdict \notin {"no changes", "applied", "saved"}
  BY <1>1, <1>2 DEF Resting, Reporting
<1>4. ASSUME Writing, kind \in Stepwise
      PROVE  /\ Shaped(kind, running') /\ Sendable(todo') /\ Opens(running', todo')
             /\ \A i \in DOMAIN Rows(kind) :
                   Needs(kind, Rows(kind)[i], op, want) =>
                       Delivered(running', todo', Rows(kind)[i], want[Rows(kind)[i].attr])
  <2>1. /\ Shaped(kind, running) /\ Sendable(todo) /\ Opens(running, todo)
        /\ \A i \in DOMAIN Rows(kind) :
              Needs(kind, Rows(kind)[i], op, want) =>
                  Delivered(running, todo, Rows(kind)[i], want[Rows(kind)[i].attr])
    BY <1>2, <1>4 DEF Shapes, RowByRow
  <2>2. Shaped(kind, running') /\ Sendable(todo') /\ Opens(running', todo')
    BY <1>1, <2>1, SendOne
  <2>3. ASSUME NEW i \in DOMAIN Rows(kind), Needs(kind, Rows(kind)[i], op, want)
        PROVE  Delivered(running', todo', Rows(kind)[i], want[Rows(kind)[i].attr])
    <3> DEFINE row == Rows(kind)[i]
               new == want[row.attr]
    <3>1. row.attr \in Attr(kind) /\ row.verb \in {"set", "add"}
      BY <1>4, RowAttr
    <3>2. Delivered(running, todo, row, new)
      BY <2>1, <2>3
    <3> HIDE DEF row, new
    <3>3. Delivered(Exec(kind, running, Head(todo)), Tail(todo), row, new)
      BY <1>1, <2>1, <3>1, <3>2, DeliveredStill
    <3> QED
      BY <1>1, <3>3 DEF row, new
  <2> QED
    BY <2>2, <2>3
<1>5. ASSUME Writing, kind \in Whole
      PROVE  todo' = <<>> /\ running' = [exists |-> TRUE, val |-> want]
  <2>1. todo = <<Command("line", "all", want)>>
    BY <1>1, <1>2, <1>5 DEF InOneLine
  <2>2. Head(todo) = Command("line", "all", want) /\ Tail(todo) = <<>>
    BY <2>1
  <2>3. Exec(kind, running, Command("line", "all", want)) = [exists |-> TRUE, val |-> want]
    BY DEF Exec, Command
  <2> QED
    BY <1>1, <2>2, <2>3
<1>6. ASSUME op = "delete"
      PROVE  todo' = <<>> /\ running' = Missing(kind)
  <2>1. todo = <<Command("destroy", "all", {})>>
    BY <1>1, <1>2, <1>6 DEF Removing
  <2>2. Head(todo) = Command("destroy", "all", {}) /\ Tail(todo) = <<>>
    BY <2>1
  <2>3. Exec(kind, running, Command("destroy", "all", {})) = Missing(kind)
    BY DEF Exec, Command
  <2> QED
    BY <1>1, <2>2, <2>3
<1>7. op \in {"create", "update", "delete"}
  BY <1>2, <1>3
<1>8. Shapes'
  BY <1>1, <1>2, <1>4, <1>6, <1>7, MissingIsShaped DEF Shapes, Writing, Stepwise
<1>9. RowByRow'
  BY <1>1, <1>4 DEF RowByRow, Writing
<1>10. InOneLine' /\ Removing'
  BY <1>1, <1>5, <1>6 DEF InOneLine, Removing, Writing
<1>11. Applied' /\ Resting' /\ Reporting' /\ Asked'
  BY <1>1, <1>2, <1>3 DEF Applied, Resting, Reporting, Asked
<1> QED
  BY <1>1, <1>2, <1>8, <1>9, <1>10, <1>11 DEF WInv

LEMMA StepWInv ==
    ASSUME IsFiniteSet(Text), Budget["drift"] = 0, WInv, [Next]_vars
    PROVE  WInv'
<1>1. /\ kind \in Kinds /\ Kinds \subseteq Kind /\ kind \in Kind
      /\ want \in Models(kind) \cup {Absent}
      /\ spent \in [Event -> Nat] /\ Resting /\ Reporting /\ Asked /\ Applied
  BY KindAssumption DEF WInv
<1>2. \A e \in Event : Happens(e) => spent' \in [Event -> Nat]
  BY <1>1, Counted
<1>3. /\ "edit" \in Event /\ "fail" \in Event /\ "redo" \in Event /\ "reboot" \in Event
       /\ "import" \in Event
  BY DEF Event
<1> USE DEF fileVars, stateVars, switchVars, runVars
<1>4. CASE Refresh
  <2>1. /\ op = "none" /\ todo = <<>> /\ UNCHANGED <<kind, want, running, startup, spent>>
    BY <1>1, <1>4 DEF Refresh, Resting
  <2>2. \/ op' = "none" /\ todo' = <<>> /\ verdict' = "no changes"
        \/ op' = "resave" /\ todo' = <<>> /\ verdict' = "none"
        \/ /\ op' = "create" /\ want # Absent /\ verdict' = "none"
           /\ todo' = BuildCommands(kind, "create", NoModel(kind), want)
        \/ op' = "delete" /\ todo' = DeleteCommands(kind) /\ verdict' = "none"
        \/ /\ op' = "update" /\ want # Absent /\ verdict' = "none"
           /\ todo' = BuildCommands(kind, "update", Read, want)
    BY <1>4 DEF Refresh, Plan, Clean, Stop, BeginCreate
  <2>3. CASE /\ op' \in {"none", "resave"} /\ todo' = <<>>
             /\ verdict' = IF op' = "none" THEN "no changes" ELSE "none"
    BY <1>1, <2>1, <2>3, RestWInv
  <2>4. CASE op' \notin {"none", "resave"}
    <3>1. /\ \/ /\ op' \in {"create", "update"} /\ want # Absent
                /\ \E old : todo' = BuildCommands(kind, op', old, want)
             \/ op' = "delete" /\ todo' = DeleteCommands(kind)
          /\ verdict' = "none"
      BY <2>2, <2>4
    <3> QED
      BY <1>1, <2>1, <3>1, StartWInv
  <2> QED
    BY <2>2, <2>3, <2>4
<1>5. CASE RefreshRefused \/ NotFoundAfterWrite \/ OperationFails
  <2>1. /\ op' = "none" /\ todo' = <<>> /\ verdict' = "failed"
        /\ UNCHANGED <<kind, want, running, startup>> /\ spent' \in [Event -> Nat]
    BY <1>1, <1>2, <1>3, <1>5 DEF RefreshRefused, NotFoundAfterWrite, OperationFails, Stop
  <2> QED
    BY <1>1, <2>1, RestWInv
<1>6. CASE SendCommand
  BY <1>1, <1>6, SendWInv
<1>7. CASE Written
  <2>1. /\ UNCHANGED <<kind, want, running, startup, spent>>
        /\ \/ op' = "none" /\ todo' = <<>> /\ verdict' = "failed"
           \/ op' = "none" /\ todo' = <<>> /\ verdict' = "applied" /\ ReadBack = want
           \/ op' = "save" /\ todo' = <<>> /\ verdict' = "none" /\ ReadBack = want
    BY <1>7 DEF Written, Succeed, Stop
  <2>2. ReadBack = want => Configured(running)
    BY <1>1, <1>7, WrittenInFull
  <2> QED
    BY <1>1, <2>1, <2>2, RestWInv
<1>8. CASE Deleted
  <2>1. UNCHANGED <<kind, want, running, startup, spent>>
    BY <1>8 DEF Deleted
  <2>2. CASE want = Absent
    <3>1. /\ op' \in {"none", "save"} /\ todo' = <<>> /\ (op' = "save" => verdict' = "none")
      BY <1>8, <2>2 DEF Deleted, Succeed, Stop
    <3> QED
      BY <1>1, <2>1, <2>2, <3>1, RestWInv
  <2>3. CASE want # Absent
    <3>1. /\ op' = "create" /\ verdict' = "none"
          /\ todo' = BuildCommands(kind, "create", NoModel(kind), want)
      BY <1>8, <2>3 DEF Deleted, BeginCreate
    <3> QED
      BY <1>1, <2>1, <2>3, <3>1, StartWInv
  <2> QED
    BY <2>2, <2>3
<1>9. CASE Save
  <2>1. /\ op \in {"save", "resave"} /\ op' = "none" /\ todo' = <<>> /\ startup' = running
        /\ verdict' = IF op = "save" THEN "applied" ELSE "saved"
        /\ UNCHANGED <<kind, want, running, spent>>
    BY <1>9 DEF Save, Stop
  <2>2. want # Absent /\ op = "save" => Configured(running)
    BY <1>1, <2>1 DEF Applied
  <2> QED
    BY <1>1, <2>1, <2>2, RestWInv
<1>10. CASE \E w \in Models(kind) \cup {Absent} : Edit(w)
  <2>1. /\ op = "none" /\ want' \in Models(kind) \cup {Absent} /\ verdict' = "none"
        /\ UNCHANGED <<kind, running, startup, op, todo>> /\ spent' \in [Event -> Nat]
    BY <1>2, <1>3, <1>10 DEF Edit
  <2> QED
    BY <1>1, <2>1, RestWInv DEF Resting
<1>11. CASE ImportState \/ Reboot
  <2>1. /\ op = "none" /\ running' \in {running, startup} /\ verdict' = "none"
        /\ UNCHANGED <<kind, want, startup, op, todo>> /\ spent' \in [Event -> Nat]
    BY <1>2, <1>3, <1>11 DEF ImportState, Reboot
  <2> QED
    BY <1>1, <2>1, RestWInv DEF Resting
<1>12. CASE EditTriggers
  <2>1. /\ op = "none" /\ UNCHANGED <<kind, want, running, startup, op, todo, verdict>>
        /\ spent' \in [Event -> Nat]
    BY <1>2, <1>3, <1>12 DEF EditTriggers
  <2>2. verdict = "applied" /\ want # Absent => Configured(running)
    BY <1>1 DEF Applied
  <2> QED
    BY <1>1, <2>1, <2>2, RestWInv DEF Resting
<1>13. CASE Drift
  <2>1. spent["drift"] < Budget["drift"] /\ spent["drift"] \in Nat
    BY <1>1, <1>13 DEF Drift, Happens, Event
  <2> QED
    BY <2>1
<1>14. CASE Redo
  <2>1. /\ op \in {"create", "update", "delete"}
        /\ UNCHANGED <<kind, want, running, startup, op, verdict>>
        /\ op = "create" => todo' = BuildCommands(kind, "create", NoModel(kind), want)
        /\ op = "update" => todo' = BuildCommands(kind, "update", state, want)
        /\ op = "delete" => todo' = DeleteCommands(kind)
        /\ spent' \in [Event -> Nat]
    BY <1>2, <1>3, <1>14 DEF Redo
  <2>2. /\ verdict' \notin {"no changes", "applied", "saved"}
        /\ op' \in {"create", "update"} => want # Absent
    BY <1>1, <2>1 DEF Reporting, Asked
  <2>3. \/ /\ op' \in {"create", "update"} /\ want # Absent
           /\ \E old : todo' = BuildCommands(kind, op', old, want)
        \/ op' = "delete" /\ todo' = DeleteCommands(kind)
    BY <2>1, <2>2
  <2> QED
    BY <1>1, <2>1, <2>2, <2>3, StartWInv
<1>15. CASE UNCHANGED vars
  BY <1>15
  DEF vars, WInv, Resting, Reporting, Asked, Shapes, RowByRow, InOneLine, Removing, Applied,
      Writing, Configured
<1> QED
  BY <1>4, <1>5, <1>6, <1>7, <1>8, <1>9, <1>10, <1>11, <1>12, <1>13, <1>14, <1>15
  DEF Next, Terraform, Environment

(***************************************************************************)
(* A successful apply leaves the switch with exactly what the file asks    *)
(* for, over any history of edits, of batches that stopped half way or     *)
(* were sent again, of restarts, imports and tainted objects, while nobody *)
(* changes the switch by hand.                                             *)
(***************************************************************************)
THEOREM AppliedIsConfigured ==
    ASSUME IsFiniteSet(Text), Budget["drift"] = 0
    PROVE  Spec => []AppliedMeansConfigured
<1>1. WInv /\ [Next]_vars => WInv'
  BY StepWInv
<1>2. WInv => AppliedMeansConfigured
  BY Flags DEF WInv, Applied, AppliedMeansConfigured
<1> QED
  BY <1>1, <1>2, InitWInv, PTL DEF Spec

-----------------------------------------------------------------------------
(***************************************************************************)
(* The types.  Every table is Sane; so what the user may write, and what a *)
(* batch or a read makes of it, is made of finitely many values.           *)
(***************************************************************************)
LEMMA WholeTables ==
    ASSUME NEW k \in Whole
    PROVE  \E n \in 0..4 : Apart(Rows(k), n) /\ \A i \in 1..n : Sane(Rows(k)[i])
<1> DEFINE r1 == Required("access", {"ro", "rw"})
           r2 == Optional("acl", Text)
           r3 == [Required("admin_distance", {"1"} \cup Text) EXCEPT
                     !.initial = {"1"}, !.empty = {"1"}]
           r4 == [Required("enabled", {"up", "down"}) EXCEPT !.initial = {"down"}]
<1>1. /\ k = "snmp_community" => Rows(k) = <<r1, r2>>
      /\ k = "static_route" => Rows(k) = <<r3>>
      /\ k = "ip_routing" => Rows(k) = <<r4>>
      /\ k = "dhcp_excluded_range" => Rows(k) = <<>>
  <2> HIDE DEF r1, r2, r3, r4
  <2>1. /\ Rows("snmp_community") = SnmpCommunity.rows /\ Rows("static_route") = StaticRoute.rows
        /\ Rows("ip_routing") = IpRouting.rows
        /\ Rows("dhcp_excluded_range") = DhcpExcludedRange.rows
    BY DEF Rows, Resources
  <2> QED
    BY <2>1 DEF SnmpCommunity, StaticRoute, IpRouting, DhcpExcludedRange, Resource, r1, r2, r3, r4
<1>2. r1.attr = "access" /\ Sane(r1)
  BY DEF Required, Sane, Constants
<1>3. r2.attr = "acl" /\ Sane(r2)
  BY DEF Optional, Required, Sane
<1>4. Sane(r3)
  BY DEF Required, Sane, Constants
<1>5. Sane(r4)
  BY DEF Required, Sane, Constants
<1> HIDE DEF r1, r2, r3, r4
<1>6. CASE k = "snmp_community"
  <2>1. Apart(Rows(k), 2) /\ \A i \in 1..2 : Sane(Rows(k)[i])
    BY <1>1, <1>2, <1>3, <1>6 DEF Apart
  <2> QED
    BY <2>1
<1>7. CASE k \in {"static_route", "ip_routing"}
  <2>1. Apart(Rows(k), 1) /\ \A i \in 1..1 : Sane(Rows(k)[i])
    BY <1>1, <1>4, <1>5, <1>7 DEF Apart
  <2> QED
    BY <2>1
<1>8. CASE k = "dhcp_excluded_range"
  <2>1. Apart(Rows(k), 0) /\ \A i \in 1..0 : Sane(Rows(k)[i])
    BY <1>1, <1>8 DEF Apart
  <2> QED
    BY <2>1
<1> QED
  BY <1>6, <1>7, <1>8 DEF Whole

LEMMA Tables ==
    ASSUME NEW k \in Kind
    PROVE  \E n \in 0..4 : /\ Apart(Rows(k), n) /\ \A i \in 1..n : Sane(Rows(k)[i])
                           /\ k \notin Whole => n \in 1..4
<1>1. CASE k \in Stepwise
  <2>1. PICK n \in 1..4 : Apart(Rows(k), n) /\ \A i \in 1..n : Sound(k, Rows(k)[i])
    BY <1>1, StepwiseTables
  <2> QED
    BY <2>1 DEF Sound
<1>2. CASE k \in Whole
  BY <1>2, WholeTables
<1> QED
  BY <1>1, <1>2, Flags

LEMMA SaneRow ==
    ASSUME NEW k \in Kind, NEW a \in Attr(k)
    PROVE  Sane(Row(k, a)) /\ \E i \in DOMAIN Rows(k) : Rows(k)[i] = Row(k, a) /\ Rows(k)[i].attr = a
<1>1. PICK i \in DOMAIN Rows(k) : Rows(k)[i] = Row(k, a) /\ Row(k, a).attr = a
  BY RowOfAttr DEF Range
<1> QED
  BY <1>1, Tables DEF Apart

LEMMA ValuesOfRow ==
    ASSUME NEW k \in Kind, NEW a \in Attr(k)
    PROVE  /\ Row(k, a).initial \subseteq Values(k) /\ Row(k, a).empty \subseteq Values(k)
           /\ \A w \in Row(k, a).wants : w \subseteq Values(k)
           /\ {"other"} \subseteq Values(k)
<1>1. Row(k, a).initial \subseteq Values(k) /\ {"0", "other"} \subseteq Values(k)
  BY DEF Values
<1>2. \A w \in Row(k, a).wants : w \subseteq Values(k)
  BY RowOfAttr DEF Values, Value
<1>3. Row(k, a).empty \subseteq {"0"} \cup Row(k, a).initial
  BY SaneRow DEF Sane
<1> QED
  BY <1>1, <1>2, <1>3

LEMMA ValuesAreFinite ==
    ASSUME IsFiniteSet(Text), NEW k \in Kind
    PROVE  IsFiniteSet(Values(k))
<1> DEFINE All == Text \cup Constants \cup {"0", "other"}
<1>1. IsFiniteSet(All)
  <2>1. \A x, y : IsFiniteSet({x, y})
    <3> SUFFICES ASSUME NEW x, NEW y PROVE IsFiniteSet({x} \cup {y})
      OBVIOUS
    <3> QED
      BY FS_Singleton, FS_AddElement
  <2>2. \A x, y, z, u : IsFiniteSet({x, y, z, u})
    <3> TAKE x, y, z, u
    <3>1. IsFiniteSet({x, y} \cup {z, u})
      BY <2>1, FS_Union
    <3>2. {x, y} \cup {z, u} = {x, y, z, u}
      OBVIOUS
    <3> QED
      BY <3>1, <3>2
  <2>3. Constants = {"active", "suspend", "access", "trunk"} \cup {"1", "9", "dhcp", "ro"}
                        \cup {"ro", "rw", "up", "down"}
    BY DEF Constants
  <2>4. IsFiniteSet(Constants) /\ IsFiniteSet({"0", "other"})
    BY <2>1, <2>2, <2>3, FS_Union
  <2> QED
    BY <2>4, FS_Union
<1>2. ASSUME NEW row \in Range(Rows(k)) PROVE Sane(row)
  BY <1>2, Tables DEF Apart, Range
<1>3. Values(k) \subseteq All
  <2>1. Value(k) \subseteq Text \cup Constants
    BY <1>2 DEF Value, Sane
  <2>2. \A a \in Attr(k) : Row(k, a).initial \subseteq Constants
    BY SaneRow DEF Sane
  <2> HIDE DEF All
  <2> QED
    BY <2>1, <2>2 DEF Values, All
<1> QED
  BY <1>1, <1>3, FS_Subset

\* A model gives each attribute some of the values.
Model(k)  == [Attr(k) -> SUBSET Values(k)]
Object(k) == [exists : BOOLEAN, val : Model(k)]

LEMMA ModelsTyped ==
    ASSUME NEW k \in Kind, NEW m \in Models(k)
    PROVE  m \in Model(k)
<1>1. PICK n \in 0..4 : Apart(Rows(k), n)
  BY Tables
<1>2. m = [a \in Attr(k) |-> m[a]] /\ \A i \in 1..n : m[Rows(k)[i].attr] \in Rows(k)[i].wants
  BY <1>1, ModelsOf
<1>3. ASSUME NEW a \in Attr(k) PROVE m[a] \subseteq Values(k)
  <2>1. PICK i \in DOMAIN Rows(k) : Rows(k)[i] = Row(k, a) /\ Rows(k)[i].attr = a
    BY <1>3, SaneRow
  <2>2. m[a] \in Row(k, a).wants
    BY <1>1, <1>2, <2>1 DEF Apart
  <2> QED
    BY <1>3, <2>2, ValuesOfRow
<1> QED
  BY <1>2, <1>3 DEF Model

LEMMA MissingTyped ==
    ASSUME NEW k \in Kind
    PROVE  Missing(k) \in Object(k) /\ NoModel(k) \in Model(k)
<1>1. Initial(k) \in Model(k)
  BY ValuesOfRow DEF Initial, Model
<1> QED
  BY <1>1 DEF Missing, Object, NoModel, Model

\* What a read leaves in the state has the form of a model.
LEMMA ReadTyped ==
    ASSUME NEW k \in Kind, NEW r \in Object(k), NEW data \in Model(k)
    PROVE  UpdateModelFromInfo(k, r, data) \in Model(k)
<1> DEFINE new(a) == LET row == Row(k, a)
                     IN  IF Present(k, r) /\ ~InUse(k, row, r.val) THEN data[a]
                         ELSE ReadValue(row, IF Present(k, r) THEN r.val[a] ELSE {}, data[a])
<1>1. ASSUME NEW a \in Attr(k) PROVE new(a) \subseteq Values(k)
  <2>1. data[a] \subseteq Values(k) /\ r.val[a] \subseteq Values(k)
    BY <1>1 DEF Object, Model
  <2>2. \A found, had \in SUBSET Values(k) :
           ReadValue(Row(k, a), found, had) \subseteq Values(k)
    BY <1>1, ValuesOfRow DEF ReadValue
  <2> QED
    BY <2>1, <2>2
<1>2. UpdateModelFromInfo(k, r, data) = [a \in Attr(k) |-> new(a)]
  BY DEF UpdateModelFromInfo
<1> HIDE DEF new
<1> QED
  BY <1>1, <1>2 DEF Model

-----------------------------------------------------------------------------
(***************************************************************************)
(* The commands of a table, and that every batch is made of them.          *)
(***************************************************************************)
Commands(k) ==
    [do : {"open", "destroy"}, attr : {"all"}, val : {{}}]
    \cup [do : {"line"}, attr : {"all"}, val : Model(k)]
    \cup [do : {"set", "add"}, attr : Attr(k), val : SUBSET Values(k)]

\* SetToSeq gives every element of a finite set a place.
LEMMA Listed ==
    ASSUME NEW S, IsFiniteSet(S)
    PROVE  /\ Cardinality(S) \in Nat
           /\ SetToSeq(S) \in [1..Cardinality(S) -> S]
           /\ \A v \in S : \E i \in 1..Cardinality(S) : SetToSeq(S)[i] = v
<1> DEFINE n == Cardinality(S)
<1>1. n \in Nat /\ ExistsBijection(1..n, S)
  BY FS_CardinalityType
<1>2. \E f \in [1..n -> S] : IsInjective(f)
  <2>1. PICK f : f \in Bijection(1..n, S)
    BY <1>1 DEF ExistsBijection
  <2> QED
    BY <2>1 DEF Bijection, Injection, Surjection, IsInjective
<1>3. SetToSeq(S) \in [1..n -> S] /\ IsInjective(SetToSeq(S))
  BY <1>2 DEF SetToSeq
<1>4. SetToSeq(S) \in Injection(1..n, S)
  BY <1>3 DEF Injection, IsInjective
<1>5. IsFiniteSet(1..n) /\ Cardinality(1..n) = n
  BY <1>1, FS_Interval
<1>6. SetToSeq(S) \in Surjection(1..n, S)
  BY <1>4, <1>5, FS_Injection
<1> QED
  BY <1>1, <1>3, <1>6 DEF Surjection

\* The commands for the elements of a list, one by one.
OneByOne(do, attr, S) == [i \in 1..Cardinality(S) |-> Command(do, attr, {SetToSeq(S)[i]})]
Singly(do, attr, S)   == { Command(do, attr, {v}) : v \in S }

LEMMA EachElement ==
    ASSUME NEW do, NEW attr, NEW S, IsFiniteSet(S)
    PROVE  /\ IsBatch(OneByOne(do, attr, S))
           /\ Range(OneByOne(do, attr, S)) = Singly(do, attr, S)
<1> DEFINE s == OneByOne(do, attr, S)
<1>1. /\ Cardinality(S) \in Nat /\ SetToSeq(S) \in [1..Cardinality(S) -> S]
      /\ \A v \in S : \E i \in 1..Cardinality(S) : SetToSeq(S)[i] = v
  BY Listed
<1>2. /\ DOMAIN s = 1..Cardinality(S)
      /\ \A i \in 1..Cardinality(S) : s[i] = Command(do, attr, {SetToSeq(S)[i]})
      /\ s = [i \in 1..Cardinality(S) |-> s[i]]
  BY DEF OneByOne
<1> HIDE DEF s
<1>3. s \in [1..Cardinality(S) -> Range(s)]
  BY <1>2 DEF Range
<1>4. IsBatch(s)
  BY <1>1, <1>3 DEF IsBatch
<1>5. ASSUME NEW c \in Range(s) PROVE \E v \in S : c = Command(do, attr, {v})
  <2>1. PICK i \in 1..Cardinality(S) : c = s[i]
    BY <1>2 DEF Range
  <2>2. SetToSeq(S)[i] \in S /\ c = Command(do, attr, {SetToSeq(S)[i]})
    BY <1>1, <1>2, <2>1
  <2> QED
    BY <2>2
<1>6. ASSUME NEW v \in S PROVE Command(do, attr, {v}) \in Range(s)
  <2>1. PICK i \in 1..Cardinality(S) : SetToSeq(S)[i] = v
    BY <1>1
  <2> QED
    BY <1>2, <2>1 DEF Range
<1>7. Range(s) = Singly(do, attr, S)
  BY <1>5, <1>6 DEF Singly
<1> QED
  BY <1>4, <1>7 DEF s

LEMMA CleanupTyped ==
    ASSUME NEW k \in Kind, NEW row, Sane(row), row.attr \in Attr(k), NEW old, NEW new
    PROVE  LET s == Cleanup(row, old, new)
           IN  IsBatch(s) /\ Range(s) \subseteq Commands(k)
<1> DEFINE s     == Cleanup(row, old, new)
           clear == Command("set", row.attr, {})
<1>1. s \in {<<>>, <<clear>>}
  BY DEF Cleanup
<1>2. clear \in Commands(k)
  BY DEF Command, Commands
<1> HIDE DEF s, clear
<1>3. IsBatch(<<>>) /\ Range(<<>>) = {} /\ IsBatch(<<clear>>) /\ Range(<<clear>>) = {clear}
  BY ShortBatches
<1> QED
  BY <1>1, <1>2, <1>3 DEF s

LEMMA WriteTyped ==
    ASSUME IsFiniteSet(Text), NEW k \in Kind, NEW row, Sane(row), row.attr \in Attr(k),
           NEW how, NEW plan \in Model(k)
    PROVE  LET s == Write(k, row, how, plan)
           IN  IsBatch(s) /\ Range(s) \subseteq Commands(k)
<1> DEFINE s   == Write(k, row, how, plan)
           new == plan[row.attr]
           put == Command("set", row.attr, new)
<1>1. s \in {<<>>, <<put>>} \/ s = OneByOne("add", row.attr, new)
  BY DEF Write, OneByOne
<1>2. new \subseteq Values(k)
  BY DEF Model
<1>3. put \in Commands(k)
  BY <1>2 DEF Command, Commands
<1> HIDE DEF s, put, new
<1>4. CASE s \in {<<>>, <<put>>}
  <2>1. IsBatch(<<>>) /\ Range(<<>>) = {} /\ IsBatch(<<put>>) /\ Range(<<put>>) = {put}
    BY ShortBatches
  <2> QED
    BY <1>3, <1>4, <2>1 DEF s
<1>5. CASE s = OneByOne("add", row.attr, new)
  <2>1. IsFiniteSet(new)
    BY <1>2, ValuesAreFinite, FS_Subset
  <2> DEFINE do   == "add"
             attr == row.attr
  <2>2. s = OneByOne(do, attr, new)
    BY <1>5
  <2>3. Singly(do, attr, new) \subseteq Commands(k)
    BY <1>2 DEF Command, Commands, Singly
  <2> HIDE DEF do, attr
  <2>4. IsBatch(s) /\ Range(s) = Singly(do, attr, new)
    BY <2>1, <2>2, EachElement
  <2> QED
    BY <2>3, <2>4 DEF s
<1> QED
  BY <1>1, <1>4, <1>5

\* The batches of the rows, strung together.
LEMMA RowsTyped ==
    ASSUME NEW k \in Kind \ Whole, NEW ss, DOMAIN ss = DOMAIN Rows(k), Len(ss) = Len(Rows(k)),
           \A i \in DOMAIN Rows(k) : IsBatch(ss[i]) /\ Range(ss[i]) \subseteq Commands(k)
    PROVE  IsBatch(FlattenSeq(ss)) /\ Range(FlattenSeq(ss)) \subseteq Commands(k)
<1>1. PICK n \in 1..4 : DOMAIN ss = 1..n /\ Len(ss) = n
  BY Tables DEF Apart
<1> QED
  BY <1>1, AllFlattened

LEMMA BuildTyped ==
    ASSUME IsFiniteSet(Text), NEW k \in Kind, NEW how, NEW old, NEW plan \in Model(k)
    PROVE  BuildCommands(k, how, old, plan) \in Seq(Commands(k))
<1> DEFINE rows     == Rows(k)
           cleanups == [i \in DOMAIN rows |-> Cleanup(rows[i], old[rows[i].attr], plan[rows[i].attr])]
           writes   == [i \in DOMAIN rows |-> Write(k, rows[i], how, plan)]
           both     == [i \in DOMAIN rows |-> cleanups[i] \o writes[i]]
           open     == Command("open", "all", {})
           line     == Command("line", "all", plan)
<1>1. /\ k \in Whole => BuildCommands(k, how, old, plan) = <<line>>
      /\ k \in Stepwise => BuildCommands(k, how, old, plan) = <<open>> \o FlattenSeq(both)
  <2>1. BuildCommands(k, how, old, plan) =
           IF Resources[k].oneLine THEN <<line>> ELSE <<open>> \o FlattenSeq(both)
    BY DEF BuildCommands
  <2> HIDE DEF both, open, line
  <2> QED
    BY <2>1, Flags
<1>2. open \in Commands(k) /\ line \in Commands(k)
  BY DEF Command, Commands
<1>3. ASSUME NEW i \in DOMAIN rows
      PROVE  IsBatch(both[i]) /\ Range(both[i]) \subseteq Commands(k)
  <2>1. rows[i].attr \in Attr(k) /\ Sane(rows[i])
    BY <1>3, Tables DEF Attr, Range, Apart
  <2>2. IsBatch(cleanups[i]) /\ Range(cleanups[i]) \subseteq Commands(k)
    BY <2>1, CleanupTyped
  <2>3. IsBatch(writes[i]) /\ Range(writes[i]) \subseteq Commands(k)
    BY <2>1, WriteTyped
  <2>4. both[i] = cleanups[i] \o writes[i]
    BY <1>3
  <2> HIDE DEF cleanups, writes, both
  <2> QED
    BY <2>2, <2>3, <2>4, Joined
<1>4. DOMAIN both = DOMAIN rows /\ Len(both) = Len(rows)
  BY Tables DEF Apart
<1>5. IsBatch(<<open>>) /\ Range(<<open>>) = {open} /\ IsBatch(<<line>>) /\ Range(<<line>>) = {line}
  BY ShortBatches
<1> HIDE DEF cleanups, writes, both, open, line
<1>6. /\ IsBatch(BuildCommands(k, how, old, plan))
      /\ Range(BuildCommands(k, how, old, plan)) \subseteq Commands(k)
  <2>1. CASE k \in Whole
    BY <1>1, <1>2, <1>5, <2>1
  <2>2. CASE k \in Stepwise
    <3>1. k \notin Whole
      BY <2>2 DEF Stepwise, Whole
    <3> DEFINE p == <<open>>
               q == FlattenSeq(both)
    <3>2. IsBatch(p) /\ IsBatch(q) /\ Range(p) \subseteq Commands(k) /\ Range(q) \subseteq Commands(k)
      BY <1>2, <1>3, <1>4, <1>5, <3>1, RowsTyped
    <3>3. BuildCommands(k, how, old, plan) = p \o q
      BY <1>1, <2>2
    <3> HIDE DEF p, q
    <3> QED
      BY <3>2, <3>3, Joined
  <2> QED
    BY <2>1, <2>2, Flags
<1> QED
  BY <1>6, SeqMonotonic DEF IsBatch

LEMMA DeleteTyped ==
    ASSUME NEW k
    PROVE  DeleteCommands(k) \in Seq(Commands(k))
<1> DEFINE destroy == Command("destroy", "all", {})
<1>1. destroy \in Commands(k)
  BY DEF Command, Commands
<1> HIDE DEF destroy
<1>2. <<destroy>> \in Seq(Commands(k))
  BY <1>1
<1> QED
  BY <1>2 DEF DeleteCommands, destroy

-----------------------------------------------------------------------------
(***************************************************************************)
(* TypeOK says of a command only what it does and to which attribute; to   *)
(* carry the values of the switch along, TypesInv gives each command a     *)
(* value of its attribute.  An Update and a Delete have a state, and a     *)
(* Create and an Update a file, to build their batch from once again.      *)
(***************************************************************************)
Known == op \in {"update", "delete"} => state # Absent

TypesInv ==
    /\ kind \in Kinds /\ want \in Models(kind) \cup {Absent} /\ state \in Model(kind) \cup {Absent}
    /\ tainted \in BOOLEAN /\ saved \in BOOLEAN
    /\ running \in Object(kind) /\ startup \in Object(kind)
    /\ op \in {"none", "create", "update", "delete", "save", "resave"}
    /\ todo \in Seq(Commands(kind))
    /\ verdict \in {"none", "no changes", "applied", "saved", "failed"}
    /\ spent \in [Event -> Nat] /\ \A e \in Event : spent[e] \in 0..Budget[e]
    /\ Asked /\ Known

LEMMA TypesInvTypes == TypesInv => TypeOK
<1> SUFFICES ASSUME TypesInv PROVE TypeOK
  OBVIOUS
<1>1. \A r \in {running, startup} : r.exists \in BOOLEAN
                                    /\ r.val \in [Attr(kind) -> SUBSET Values(kind)]
  BY DEF TypesInv, Object, Model
<1>2. ASSUME NEW i \in DOMAIN todo
      PROVE  /\ todo[i].do \in {"open", "line", "set", "add", "destroy"}
             /\ todo[i].attr \in Attr(kind) \cup {"all"}
  <2>1. todo[i] \in Commands(kind)
    BY <1>2, ElementOfSeq, LenProperties DEF TypesInv
  <2> QED
    BY <2>1 DEF Commands
<1>3. state = Absent \/ state \in [Attr(kind) -> SUBSET Values(kind)]
  BY DEF TypesInv, Model
<1> QED
  BY <1>1, <1>2, <1>3 DEF TypesInv, TypeOK

LEMMA ExecTyped ==
    ASSUME NEW k, NEW r \in Object(k), NEW c \in Commands(k), k \in Kind
    PROVE  Exec(k, r, c) \in Object(k)
<1>1. DOMAIN r = {"exists", "val"} /\ r.exists \in BOOLEAN /\ r.val \in Model(k)
  BY DEF Object
<1>2. CASE c.do \in {"open", "destroy"}
  <2>1. c.do = "destroy" => Exec(k, r, c) = Missing(k)
    BY DEF Exec
  <2>2. c.do = "open" => Exec(k, r, c) = [r EXCEPT !.exists = TRUE]
    BY DEF Exec
  <2> QED
    BY <1>2, <2>1, <2>2, MissingTyped DEF Object
<1>3. CASE c.do = "line"
  <2>1. Exec(k, r, c) = [exists |-> TRUE, val |-> c.val] /\ c.val \in Model(k)
    BY <1>3 DEF Exec, Commands
  <2> QED
    BY <2>1 DEF Object
<1>4. CASE c.do \in {"set", "add"}
  <2>1. c.attr \in Attr(k) /\ c.val \in SUBSET Values(k) /\ r.val[c.attr] \in SUBSET Values(k)
    BY <1>1, <1>4 DEF Commands, Model
  <2>2. PICK v \in SUBSET Values(k) : Exec(k, r, c) = [r EXCEPT !.val[c.attr] = v]
    <3>1. c.do = "set" => Exec(k, r, c) = [r EXCEPT !.val[c.attr] = c.val]
      BY DEF Exec
    <3>2. c.do = "add" => Exec(k, r, c) = [r EXCEPT !.val[c.attr] = r.val[c.attr] \cup c.val]
      BY <1>1 DEF Exec
    <3>3. r.val[c.attr] \cup c.val \in SUBSET Values(k)
      BY <2>1
    <3> QED
      BY <1>4, <2>1, <3>1, <3>2, <3>3
  <2>3. [r.val EXCEPT ![c.attr] = v] \in Model(k)
    BY <1>1, <2>1 DEF Model
  <2> QED
    BY <1>1, <2>2, <2>3 DEF Object
<1> QED
  BY <1>2, <1>3, <1>4 DEF Commands

LEMMA InitTypes == Init => TypesInv
<1> SUFFICES ASSUME Init PROVE TypesInv
  OBVIOUS
<1>1. kind \in Kinds /\ kind \in Kind
  BY KindAssumption DEF Init
<1>2. running \in Object(kind) /\ startup \in Object(kind)
  BY <1>1, MissingTyped DEF Init
<1>3. <<>> \in Seq(Commands(kind))
  OBVIOUS
<1>4. spent \in [Event -> Nat] /\ \A e \in Event : spent[e] \in 0..Budget[e]
  BY BudgetAssumption DEF Init
<1> QED
  BY <1>1, <1>2, <1>3, <1>4 DEF Init, TypesInv, Asked, Known

LEMMA SpentTyped ==
    ASSUME NEW e \in Event, TypesInv, Happens(e)
    PROVE  spent' \in [Event -> Nat] /\ \A f \in Event : spent'[f] \in 0..Budget[f]
<1>1. /\ spent \in [Event -> Nat] /\ Budget \in [Event -> Nat] /\ spent[e] < Budget[e]
      /\ spent' = [spent EXCEPT ![e] = spent[e] + 1]
      /\ \A f \in Event : spent[f] \in 0..Budget[f]
  BY BudgetAssumption DEF TypesInv, Happens
<1>2. spent[e] + 1 \in 0..Budget[e] /\ spent[e] + 1 \in Nat
  BY <1>1
<1> QED
  BY <1>1, <1>2

LEMMA TerraformTypes ==
    ASSUME IsFiniteSet(Text), TypesInv, Terraform
    PROVE  TypesInv'
<1>1. /\ kind \in Kinds /\ kind \in Kind /\ want \in Models(kind) \cup {Absent}
      /\ state \in Model(kind) \cup {Absent} /\ tainted \in BOOLEAN /\ saved \in BOOLEAN
      /\ running \in Object(kind) /\ startup \in Object(kind)
      /\ todo \in Seq(Commands(kind)) /\ Asked /\ Known
  BY KindAssumption DEF TypesInv
<1>2. want # Absent => want \in Model(kind)
  BY <1>1, ModelsTyped
<1>3. <<>> \in Seq(Commands(kind)) /\ NoModel(kind) \in Model(kind)
  BY <1>1, MissingTyped
<1>4. \A how, old : want # Absent /\ old \in Model(kind) =>
         BuildCommands(kind, how, old, want) \in Seq(Commands(kind))
  BY <1>1, <1>2, BuildTyped
<1> USE DEF fileVars, stateVars, switchVars, runVars
<1>5. CASE Refresh
  <2>1. UNCHANGED <<kind, want, saved, running, startup, spent>> /\ state' = Read
        /\ tainted' = (tainted /\ Read # Absent)
    BY <1>5 DEF Refresh
  <2>2. Read \in Model(kind) \cup {Absent}
    BY <1>1, ReadTyped DEF Read
  <2>3. \/ op' = "none" /\ todo' = <<>> /\ verdict' = "no changes"
        \/ op' = "resave" /\ todo' = <<>> /\ verdict' = "none"
        \/ /\ op' = "create" /\ want # Absent /\ verdict' = "none"
           /\ todo' = BuildCommands(kind, "create", NoModel(kind), want)
        \/ /\ op' = "delete" /\ todo' = DeleteCommands(kind) /\ verdict' = "none"
           /\ Read # Absent
        \/ /\ op' = "update" /\ want # Absent /\ verdict' = "none" /\ Read # Absent
           /\ todo' = BuildCommands(kind, "update", Read, want)
    BY <1>5 DEF Refresh, Plan, Clean, Stop, BeginCreate
  <2>4. todo' \in Seq(Commands(kind))
    BY <1>1, <1>3, <1>4, <2>2, <2>3, DeleteTyped
  <2>5. tainted' \in BOOLEAN
    BY <2>1
  <2>6. Asked' /\ Known'
    BY <2>1, <2>3 DEF Asked, Known
  <2> QED
    BY <2>1, <2>2, <2>3, <2>4, <2>5, <2>6 DEF TypesInv
<1>6. CASE RefreshRefused \/ NotFoundAfterWrite
  <2>1. /\ op' = "none" /\ todo' = <<>> /\ verdict' = "failed"
        /\ UNCHANGED <<kind, want, state, tainted, saved, running, startup, spent>>
    BY <1>6 DEF RefreshRefused, NotFoundAfterWrite, Stop
  <2> QED
    BY <1>1, <1>3, <2>1 DEF TypesInv, Asked, Known
<1>7. CASE SendCommand
  <2>1. /\ todo # <<>> /\ running' = Exec(kind, running, Head(todo)) /\ todo' = Tail(todo)
        /\ UNCHANGED <<kind, want, state, tainted, saved, startup, op, verdict, spent>>
    BY <1>7 DEF SendCommand
  <2>2. Head(todo) \in Commands(kind) /\ todo' \in Seq(Commands(kind))
    BY <1>1, <2>1, HeadTailProperties
  <2>3. running' \in Object(kind)
    BY <1>1, <2>1, <2>2, ExecTyped
  <2> QED
    BY <1>1, <2>1, <2>2, <2>3 DEF TypesInv, Asked, Known
<1>8. CASE Written
  <2>1. /\ UNCHANGED <<kind, want, saved, running, startup, spent>> /\ state' = ReadBack
        /\ want # Absent /\ tainted' = (op = "create" /\ ReadBack # want)
        /\ op' \in {"none", "save"} /\ todo' = <<>>
        /\ verdict' \in {"none", "applied", "failed"}
    BY <1>1, <1>8 DEF Written, Succeed, Stop, Asked
  <2>2. ReadBack \in Model(kind)
    BY <1>1, <1>2, <2>1, ReadTyped DEF ReadBack
  <2>3. tainted' \in BOOLEAN
    BY <2>1
  <2> QED
    BY <1>1, <1>3, <2>1, <2>2, <2>3 DEF TypesInv, Asked, Known
<1>9. CASE Deleted
  <2>1. /\ UNCHANGED <<kind, want, saved, running, startup, spent>>
        /\ state' = Absent /\ tainted' = FALSE
        /\ \/ op' \in {"none", "save"} /\ todo' = <<>> /\ verdict' \in {"none", "applied"}
           \/ /\ op' = "create" /\ want # Absent /\ verdict' = "none"
              /\ todo' = BuildCommands(kind, "create", NoModel(kind), want)
    BY <1>9 DEF Deleted, Succeed, Stop, BeginCreate
  <2>2. todo' \in Seq(Commands(kind))
    BY <1>3, <1>4, <2>1
  <2> QED
    BY <1>1, <2>1, <2>2 DEF TypesInv, Asked, Known
<1>10. CASE Save
  <2>1. /\ op' = "none" /\ todo' = <<>> /\ verdict' \in {"applied", "saved"} /\ startup' = running
        /\ saved' = TRUE /\ UNCHANGED <<kind, want, state, tainted, running, spent>>
    BY <1>10 DEF Save, Stop
  <2> QED
    BY <1>1, <1>3, <2>1 DEF TypesInv, Asked, Known
<1> QED
  BY <1>5, <1>6, <1>7, <1>8, <1>9, <1>10 DEF Terraform

LEMMA EnvironmentTypes ==
    ASSUME IsFiniteSet(Text), TypesInv, Environment
    PROVE  TypesInv'
<1>1. /\ kind \in Kinds /\ kind \in Kind /\ want \in Models(kind) \cup {Absent}
      /\ state \in Model(kind) \cup {Absent} /\ tainted \in BOOLEAN /\ saved \in BOOLEAN
      /\ running \in Object(kind) /\ startup \in Object(kind)
      /\ todo \in Seq(Commands(kind)) /\ Asked /\ Known
  BY KindAssumption DEF TypesInv
<1>2. want # Absent => want \in Model(kind)
  BY <1>1, ModelsTyped
<1>3. <<>> \in Seq(Commands(kind)) /\ NoModel(kind) \in Model(kind)
  BY <1>1, MissingTyped
<1>4. (\E e \in Event : Happens(e)) =>
         spent' \in [Event -> Nat] /\ \A f \in Event : spent'[f] \in 0..Budget[f]
  BY SpentTyped
<1>5. {"edit", "drift", "fail", "redo", "reboot", "import"} \subseteq Event
  BY DEF Event
<1> USE DEF fileVars, stateVars, switchVars, runVars
<1>6. CASE \E w \in Models(kind) \cup {Absent} : Edit(w)
  <2>1. /\ op = "none" /\ want' \in Models(kind) \cup {Absent} /\ verdict' = "none"
        /\ UNCHANGED <<kind, state, tainted, saved, running, startup, op, todo>>
        /\ Happens("edit")
    BY <1>6 DEF Edit
  <2> QED
    BY <1>1, <1>4, <1>5, <2>1 DEF TypesInv, Asked, Known
<1>7. CASE EditTriggers
  <2>1. /\ saved' = FALSE /\ Happens("edit")
        /\ UNCHANGED <<kind, want, state, tainted, running, startup, op, todo, verdict>>
    BY <1>7 DEF EditTriggers
  <2> QED
    BY <1>1, <1>4, <1>5, <2>1 DEF TypesInv, Asked, Known
<1>8. CASE ImportState
  <2>1. /\ state' = UpdateModelFromInfo(kind, running, NoModel(kind))
        /\ op = "none" /\ verdict' = "none" /\ Happens("import")
        /\ UNCHANGED <<kind, want, tainted, saved, running, startup, op, todo>>
    BY <1>8 DEF ImportState
  <2>2. state' \in Model(kind)
    BY <1>1, <1>3, <2>1, ReadTyped
  <2> QED
    BY <1>1, <1>4, <1>5, <2>1, <2>2 DEF TypesInv, Asked, Known
<1>9. CASE Drift
  <2>1. /\ verdict' = "none" /\ Happens("drift")
        /\ UNCHANGED <<kind, want, state, tainted, saved, startup, op, todo>>
        /\ \/ running' = Missing(kind)
           \/ \E a \in Attr(kind) : \E v \in Row(kind, a).wants \cup {Row(kind, a).initial} :
                 running' = [exists |-> TRUE, val |-> [running.val EXCEPT ![a] = v]]
    BY <1>9 DEF Drift
  <2>2. running' \in Object(kind)
    <3>1. CASE running' = Missing(kind)
      BY <1>1, <3>1, MissingTyped
    <3>2. ASSUME NEW a \in Attr(kind), NEW v \in Row(kind, a).wants \cup {Row(kind, a).initial},
                 running' = [exists |-> TRUE, val |-> [running.val EXCEPT ![a] = v]]
          PROVE  running' \in Object(kind)
      <4>1. v \in SUBSET Values(kind)
        BY <1>1, ValuesOfRow
      <4>2. [running.val EXCEPT ![a] = v] \in Model(kind)
        BY <1>1, <4>1 DEF Object, Model
      <4> QED
        BY <3>2, <4>2 DEF Object
    <3> QED
      BY <2>1, <3>1, <3>2
  <2> QED
    BY <1>1, <1>4, <1>5, <2>1, <2>2 DEF TypesInv, Asked, Known
<1>10. CASE Reboot
  <2>1. /\ running' = startup /\ verdict' = "none" /\ Happens("reboot")
        /\ UNCHANGED <<kind, want, state, tainted, saved, startup, op, todo>>
    BY <1>10 DEF Reboot
  <2> QED
    BY <1>1, <1>4, <1>5, <2>1 DEF TypesInv, Asked, Known
<1>11. CASE Redo
  <2>1. /\ op \in {"create", "update", "delete"} /\ Happens("redo")
        /\ UNCHANGED <<kind, want, state, tainted, saved, running, startup, op, verdict>>
        /\ op = "create" => todo' = BuildCommands(kind, "create", NoModel(kind), want)
        /\ op = "update" => todo' = BuildCommands(kind, "update", state, want)
        /\ op = "delete" => todo' = DeleteCommands(kind)
    BY <1>11 DEF Redo
  <2>2. /\ op \in {"create", "update"} => want \in Model(kind)
        /\ op \in {"update", "delete"} => state \in Model(kind)
    BY <1>1, <1>2 DEF Asked, Known
  <2>3. todo' \in Seq(Commands(kind))
    BY <1>1, <1>3, <2>1, <2>2, BuildTyped, DeleteTyped
  <2> QED
    BY <1>1, <1>4, <1>5, <2>1, <2>3 DEF TypesInv, Asked, Known
<1>12. CASE OperationFails
  <2>1. /\ op' = "none" /\ todo' = <<>> /\ verdict' = "failed" /\ Happens("fail")
        /\ UNCHANGED <<kind, want, state, tainted, saved, running, startup>>
    BY <1>12 DEF OperationFails, Stop
  <2> QED
    BY <1>1, <1>3, <1>4, <1>5, <2>1 DEF TypesInv, Asked, Known
<1> QED
  BY <1>6, <1>7, <1>8, <1>9, <1>10, <1>11, <1>12 DEF Environment

LEMMA StepTypes ==
    ASSUME IsFiniteSet(Text), TypesInv, [Next]_vars
    PROVE  TypesInv'
<1>1. CASE UNCHANGED vars
  BY <1>1 DEF vars, fileVars, stateVars, switchVars, runVars, TypesInv, Asked, Known
<1> QED
  BY <1>1, TerraformTypes, EnvironmentTypes DEF Next

(***************************************************************************)
(* The types: whatever the user, the operator and the network do, what a   *)
(* Read leaves in the state has the form of a model, and the switch has    *)
(* only values that the file, a default or a change by hand has given it.  *)
(***************************************************************************)
THEOREM StateIsTyped ==
    ASSUME IsFiniteSet(Text)
    PROVE  Spec => []TypeOK
<1>1. TypesInv /\ [Next]_vars => TypesInv'
  BY StepTypes
<1> QED
  BY <1>1, InitTypes, TypesInvTypes, PTL DEF Spec

=============================================================================
