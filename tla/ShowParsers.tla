---------------------------- MODULE ShowParsers ----------------------------
(***************************************************************************)
(* internal/provider/client/parser.go: the functions that turn the output  *)
(* of a show command into a record.  ParseACLRule, which nothing calls, is *)
(* left out.                                                               *)
(*                                                                         *)
(* A line is what the parsers tell apart: the keyword it begins with, its  *)
(* arguments, and the words its free text mentions.  HasPrefix looks at    *)
(* the first only, containsString and an unanchored expression at both.    *)
(* A name is a sequence of parts, so that one name may begin another.      *)
(***************************************************************************)
EXTENDS Integers, Sequences, SequencesExt

\* ends, cut: the line as a whole, or a part of it at the end of a chunk,
\* looks like a prompt.
Line(key, args) == [key |-> key, args |-> args, says |-> {}, ends |-> FALSE, cut |-> FALSE]

\* A line that ends with a text a user has chosen.
Free(key, text) == [key |-> key, args |-> <<text.t>>, says |-> text.says,
                    ends |-> text.ends, cut |-> text.cut]

Says(l, word)         == l.key = word \/ word \in l.says
Mentions(lines, word) == \E i \in DOMAIN lines : Says(lines[i], word)

\* An else-if chain: the key of the first test that holds for the line.
Starts(key) == [key |-> key, anywhere |-> FALSE]
Within(key) == [key |-> key, anywhere |-> TRUE]
Keyword(l, tests) ==
    LET hit == SelectSeq(tests, LAMBDA t : IF t.anywhere THEN Says(l, t.key) ELSE l.key = t.key)
    IN  IF hit = <<>> THEN "other" ELSE hit[1].key

Absent == [exists |-> FALSE]

-----------------------------------------------------------------------------
\* mutant: the search does not stop at the row it has found
ParseLastVlan(lines, id) ==
    LET rows == SelectSeq(lines, LAMBDA l : l.key = "row" /\ l.args[1] = id)
    IN  IF rows = <<>> THEN Absent
        ELSE [exists |-> TRUE, name |-> rows[Len(rows)].args[2],
              state |-> rows[Len(rows)].args[3]]

\* The first row that begins with the number, unless it looks like a heading
\* or a rule.  The ports, which no resource uses, are left out.
ParseShowVlan(lines, id) ==
    LET rows == SelectSeq(lines, LAMBDA l :
                    /\ l.key = "row" /\ l.args[1] = id
                    /\ ~(Says(l, "VLAN") /\ Says(l, "Name")) /\ ~Says(l, "----"))
    IN  IF Mentions(lines, "not found") \/ rows = <<>> THEN Absent
        ELSE [exists |-> TRUE, name |-> rows[1].args[2], state |-> rows[1].args[3]]

-----------------------------------------------------------------------------
\* The items are ranges lo-hi, or single numbers with lo = hi.
ParseVLANList(items) ==
    FlattenSeq([i \in DOMAIN items |->
        [j \in 1..(items[i][2] - items[i][1] + 1) |-> items[i][1] + j - 1]])

\* mutant: the description is not tested first
ModeBeforeText ==
    <<Within("switchport mode access"), Within("switchport mode trunk"),
      Starts("description"), Starts("switchport access vlan"),
      Starts("switchport trunk native vlan"), Starts("switchport trunk allowed vlan"),
      Starts("shutdown"), Starts("no shutdown")>>

InterfaceTests ==
    <<Starts("description"),
      Within("switchport mode access"), Within("switchport mode trunk"),
      Starts("switchport access vlan"),
      Starts("switchport trunk native vlan"), Starts("switchport trunk allowed vlan"),
      Starts("shutdown"), Starts("no shutdown")>>

InterfaceLine(info, l) ==
    LET k == Keyword(l, InterfaceTests) IN
    CASE k = "description"                   -> [info EXCEPT !.description = l.args[1]]
      [] k = "switchport mode access"        -> [info EXCEPT !.mode = "access"]
      [] k = "switchport mode trunk"         -> [info EXCEPT !.mode = "trunk"]
      [] k = "switchport access vlan"        -> [info EXCEPT !.access = l.args[1]]
      [] k = "switchport trunk native vlan"  -> [info EXCEPT !.native = l.args[1]]
      [] k = "switchport trunk allowed vlan" -> [info EXCEPT !.trunk = ParseVLANList(l.args)]
      [] k \in {"shutdown", "no shutdown"}   -> [info EXCEPT !.up = (k = "no shutdown")]
      [] k = "other"                         -> info

\* The defaults; the code fills in the last one at the end.
NoInterface == [exists |-> TRUE, description |-> "", mode |-> "access", access |-> 0,
                native |-> 0, trunk |-> <<>>, up |-> TRUE]

Missing(lines) == \/ Mentions(lines, "does not exist") \/ Mentions(lines, "Invalid input")
                  \/ ~Mentions(lines, "interface")

ParseInterfaceConfig(lines) ==
    IF Missing(lines) THEN Absent
    ELSE FoldLeft(InterfaceLine, NoInterface, lines)

\* InterfaceIPResource.Read: the first line with "ip address " in it.
ReadInterfaceIP(lines) ==
    LET hits == SelectSeq(lines, LAMBDA l : Says(l, "ip address"))
    IN  IF hits = <<>> THEN Absent
        ELSE [exists |-> TRUE, dhcp |-> hits[1].args = <<"dhcp">>]

-----------------------------------------------------------------------------
SVITests ==
    <<Starts("description"), Within("ip address"), Within("ip helper-address"),
      Within("ip access-group"), Starts("shutdown"), Starts("no shutdown")>>

\* mutant: a second helper replaces the first
SVILineReplaces(info, l) ==
    LET k == Keyword(l, SVITests) IN
    CASE k = "description"       -> [info EXCEPT !.description = l.args[1]]
      [] k = "ip address"        -> [info EXCEPT !.address = l.args]
      [] k = "ip helper-address" -> [info EXCEPT !.helpers = l.args]
      [] k = "ip access-group"   -> IF l.args[2] = "in"
                                    THEN [info EXCEPT !.in = l.args[1]]
                                    ELSE [info EXCEPT !.out = l.args[1]]
      [] k \in {"shutdown", "no shutdown"} -> [info EXCEPT !.up = (k = "no shutdown")]
      [] k = "other"             -> info

SVILine(info, l) ==
    LET k == Keyword(l, SVITests) IN
    CASE k = "description"       -> [info EXCEPT !.description = l.args[1]]
      [] k = "ip address"        -> [info EXCEPT !.address = l.args]
      [] k = "ip helper-address" -> [info EXCEPT !.helpers = @ \o l.args]
      [] k = "ip access-group"   -> IF l.args[2] = "in"
                                    THEN [info EXCEPT !.in = l.args[1]]
                                    ELSE [info EXCEPT !.out = l.args[1]]
      [] k \in {"shutdown", "no shutdown"} -> [info EXCEPT !.up = (k = "no shutdown")]
      [] k = "other"             -> info

NoSVI == [exists |-> TRUE, description |-> "", address |-> <<>>, helpers |-> <<>>,
          in |-> "", out |-> "", up |-> TRUE]

ParseSVIConfig(lines) ==
    IF Missing(lines) THEN Absent
    ELSE FoldLeft(SVILine, NoSVI, lines)

-----------------------------------------------------------------------------
(***************************************************************************)
(* "| section ip dhcp pool NAME" also prints the pools whose names begin   *)
(* with NAME; the parser follows the headers.                              *)
(***************************************************************************)
PoolHeader(l) == l.key = "ip dhcp pool"

\* mutant: the header is compared by prefix
InPoolByPrefix(lines, i, name) ==
    \E h \in 1..i : /\ PoolHeader(lines[h]) /\ IsPrefix(name, lines[h].args[1])
                    /\ \A j \in (h + 1)..i : ~PoolHeader(lines[j])

\* The last header up to line i is that of the pool.
InPool(lines, i, name) ==
    \E h \in 1..i : /\ PoolHeader(lines[h]) /\ lines[h].args[1] = name
                    /\ \A j \in (h + 1)..i : ~PoolHeader(lines[j])

Section(lines, name) ==
    LET in == SelectSeq([i \in DOMAIN lines |-> i], LAMBDA i : InPool(lines, i, name))
    IN  [j \in DOMAIN in |-> lines[in[j]]]

PoolLine(pool, l) ==
    CASE l.key = "network"        -> [pool EXCEPT !.network = l.args]
      [] l.key = "default-router" -> [pool EXCEPT !.router = l.args[1]]
      [] l.key = "dns-server"     -> [pool EXCEPT !.dns = l.args]
      [] l.key = "lease"          -> [pool EXCEPT !.lease = [i \in 1..3 |->
                                        IF i \in DOMAIN l.args THEN l.args[i] ELSE @[i]]]
      [] l.key = "domain-name"    -> [pool EXCEPT !.domain = l.args[1]]
      [] OTHER                    -> pool

ParseDHCPPool(lines, name) ==
    IF Section(lines, name) = <<>> THEN Absent
    ELSE FoldLeft(PoolLine, [exists |-> TRUE, network |-> <<>>, router |-> "", dns |-> <<>>,
                             lease |-> <<0, 0, 0>>, domain |-> ""], Section(lines, name))

\* Twelve hexadecimal digits in any notation become the colon form.
NormalizeMAC(mac) == [mac EXCEPT !.form = IF mac.digits = 12 THEN "colon" ELSE @]

HostLine(host, l) ==
    CASE l.key = "host"             -> [host EXCEPT !.address = l.args]
      [] l.key = "hardware-address" -> [host EXCEPT !.mac = NormalizeMAC(l.args[1])]
      [] l.key = "client-name"      -> [host EXCEPT !.client = l.args[1]]
      [] l.key = "default-router"   -> [host EXCEPT !.router = l.args[1]]
      [] OTHER                      -> host

ParseDHCPHostPool(lines, name) ==
    IF Section(lines, name) = <<>> THEN Absent
    ELSE FoldLeft(HostLine, [exists |-> TRUE, address |-> <<>>, mac |-> <<>>,
                             client |-> "", router |-> ""], Section(lines, name))

-----------------------------------------------------------------------------
\* The lines of a given kind; a read takes the first that suits it.
OfKind(lines, key) == SelectSeq(lines, LAMBDA l : l.key = key)
Arg(args, i, default) == IF i \in DOMAIN args THEN args[i] ELSE default

ParseSNMPCommunity(lines, name) ==
    LET hits == SelectSeq(OfKind(lines, "snmp-server community"),
                          LAMBDA l : l.args[1] = name)
    IN  IF hits = <<>> THEN Absent
        ELSE [exists |-> TRUE, access |-> hits[1].args[2], acl |-> Arg(hits[1].args, 3, "")]

\* A host line is <<address, version or "", community>>.
SNMPLine(info, l) ==
    CASE l.key = "snmp-server location" ->
           [info EXCEPT !.exists = TRUE, !.location = l.args[1]]
      [] l.key = "snmp-server contact"  ->
           [info EXCEPT !.exists = TRUE, !.contact = l.args[1]]
      [] l.key = "snmp-server host"     ->
           [info EXCEPT !.exists = TRUE, !.hosts = Append(@, l.args[1]),
                        !.version = IF l.args[2] = "" THEN @ ELSE l.args[2],
                        !.community = l.args[3]]
      [] OTHER -> info

ParseSNMP(lines) ==
    FoldLeft(SNMPLine, [exists |-> FALSE, location |-> "", contact |-> "", hosts |-> <<>>,
                        version |-> "2c", community |-> ""], lines)

\* mutant: the next hop is not compared
ParseRouteAnyHop(lines, id) ==
    LET hits == SelectSeq(OfKind(lines, "ip route"),
                          LAMBDA l : SubSeq(l.args, 1, 2) = SubSeq(id, 1, 2))
    IN  IF hits = <<>> THEN Absent
        ELSE [exists |-> TRUE, distance |-> Arg(hits[1].args, 4, 1)]

\* The distance 1 is not printed.
ParseStaticRoute(lines, id) ==
    LET hits == SelectSeq(OfKind(lines, "ip route"), LAMBDA l : SubSeq(l.args, 1, 3) = id)
    IN  IF hits = <<>> THEN Absent
        ELSE [exists |-> TRUE, distance |-> Arg(hits[1].args, 4, 1)]

\* Neither is the high address of an exclusion of one address.
ParseDHCPExcludedRange(lines, low, high) ==
    LET hits == SelectSeq(OfKind(lines, "ip dhcp excluded-address"),
                          LAMBDA l : l.args[1] = low /\ Arg(l.args, 2, l.args[1]) = high)
    IN  [exists |-> hits # <<>>]

\* readIPRouting: the whole line, so that "no ip routing" is another one.
ReadIPRouting(lines) == [exists |-> \E i \in DOMAIN lines : lines[i].key = "ip routing"]

-----------------------------------------------------------------------------
(***************************************************************************)
(* A header matches by prefix: an access list whose name begins with the   *)
(* one looked for is taken for it.                                         *)
(***************************************************************************)
ListHeader(l, name) ==
    /\ l.key \in {"ip access-list extended", "ip access-list standard"}
    /\ IsPrefix(name, l.args[1])

ParseACL(lines, name) ==
    LET hits == SelectSeq(lines, LAMBDA l : ListHeader(l, name))
    IN  IF hits = <<>> THEN Absent
        ELSE [exists |-> TRUE,
              type |-> IF hits[1].key = "ip access-list extended" THEN "extended"
                                                                  ELSE "standard"]

-----------------------------------------------------------------------------
(***************************************************************************)
(* "show interfaces status" is cut at the columns of its heading.  A row   *)
(* is a sequence of words [text, at, len].                                 *)
(***************************************************************************)
Upto(words) == IF words = <<>> THEN 0 ELSE Last(words).at + Last(words).len
Column(words, title) == SelectSeq(words, LAMBDA w : w.text = title)[1].at

\* The words, or the parts of words, between two columns.
Extract(words, from, to) ==
    LET in == SelectSeq(words, LAMBDA w : w.at < to /\ w.at + w.len > from)
    IN  [i \in DOMAIN in |->
            IF in[i].at >= from /\ in[i].at + in[i].len <= to THEN in[i].text ELSE "part"]

Abbreviations == [Te |-> "TenGigabitEthernet", Gi |-> "GigabitEthernet",
                  Fa |-> "FastEthernet", Po |-> "Port-channel", Lo |-> "Loopback",
                  Vl |-> "Vlan"]

\* <<type, number>>.  The long names come first in the code's table and stay
\* as they are.
ExpandInterfaceName(short) ==
    <<IF short[1] \in DOMAIN Abbreviations THEN Abbreviations[short[1]] ELSE short[1],
      short[2]>>

Titles == <<"Port", "Name", "Status", "Vlan", "Duplex", "Speed", "Type">>


StatusRow(words, heading) ==
    [i \in 1..Len(Titles) |->
        Extract(words, Column(heading, Titles[i]),
                IF i < Len(Titles) THEN Column(heading, Titles[i + 1]) ELSE Upto(words))]

ParseShowInterfacesStatus(lines) ==
    LET heading == SelectSeq(lines, LAMBDA l : l.key = "Port")[1].args
        rows    == SelectSeq(lines, LAMBDA l :
                       /\ l.key = "port row"
                       /\ Upto(l.args) >= Column(heading, "Status")
                       /\ StatusRow(l.args, heading)[1] # <<>>)
    IN  [interfaces |->
            IF ~Mentions(lines, "Port") THEN <<>>
            ELSE [i \in DOMAIN rows |->
                    LET row == StatusRow(rows[i].args, heading)
                    IN  [name |-> ExpandInterfaceName(row[1][1]), columns |-> row]]]

=============================================================================
