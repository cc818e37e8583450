------------------------------ MODULE ShowPath ------------------------------
(***************************************************************************)
(* One show command from its first byte of output to the record a resource *)
(* gets: readUntilPrompt (ssh.go), which sees the answer in pieces of any  *)
(* size and takes a last line that looks like a prompt for its end;        *)
(* cleanOutput (session.go); IsErrorOutput; and the parsers.  The pieces   *)
(* end in the middle of a line or at its end.  Paging is switched off when *)
(* a session is set up, but a refusal of that goes unnoticed.              *)
(***************************************************************************)
EXTENDS SwitchOutput

CONSTANTS
    Scenes,      \* what is on the switch, and which object is asked for
    PageLengths  \* lines to a page; 0: paging is off

VARIABLES
    scene, page,     \* chosen at the start
    rest,            \* the lines the switch has not printed
    waiting,         \* it has printed --More-- and waits for a space
    out,             \* printed and not read
    got,             \* readUntilPrompt's output
    phase,           \* reading, read, done
    info             \* what the read function returns

vars == <<scene, page, rest, waiting, out, got, phase, info>>

\* A line arrives in two parts; the second completes it.
Cells(lines) == FlattenSeq([i \in DOMAIN lines |->
    <<[line |-> lines[i], whole |-> FALSE], [line |-> lines[i], whole |-> TRUE]>>])

Echo   == Line("echo", <<>>)
Prompt == [Line("prompt", <<>>) EXCEPT !.ends = TRUE]
More   == Line("--More--", <<>>)

NoInfo == [pending |-> TRUE]

Init ==
    /\ scene \in Scenes /\ page \in PageLengths
    /\ rest = <<Echo>> \o Output(scene) \o <<Prompt>>
    /\ waiting = FALSE /\ out = <<>> /\ got = <<>>
    /\ phase = "reading" /\ info = NoInfo

SwitchPrints ==
    /\ rest # <<>> /\ ~waiting
    /\ LET n == IF page = 0 \/ Len(rest) <= page THEN Len(rest) ELSE page
       IN  /\ rest' = SubSeq(rest, n + 1, Len(rest))
           /\ waiting' = (n < Len(rest))
           /\ out' = out \o Cells(SubSeq(rest, 1, n) \o Optional(n < Len(rest), More))
    /\ UNCHANGED <<scene, page, got, phase, info>>

-----------------------------------------------------------------------------
\* splitLines: the last line may be incomplete.
SplitLines(cells) ==
    LET ends == SelectSeq([i \in DOMAIN cells |-> i],
                          LAMBDA i : cells[i].whole \/ i = Len(cells))
    IN  [j \in DOMAIN ends |-> cells[ends[j]].line]

\* hasPrompt: the last line only.
HasPrompt(cells) ==
    cells # <<>> /\ IF Last(cells).whole THEN Last(cells).line.ends ELSE Last(cells).line.cut

HasMore(cells)    == \E i \in DOMAIN cells : cells[i].whole /\ Says(cells[i].line, "--More--")
RemoveMore(cells) == SelectSeq(cells, LAMBDA c : ~Says(c.line, "--More--"))

Read(n) ==
    /\ phase = "reading"
    /\ out' = SubSeq(out, n + 1, Len(out))
    /\ UNCHANGED <<scene, page, rest, info>>

ReadPrompt(n) ==
    LET all == got \o SubSeq(out, 1, n) IN
    /\ HasPrompt(all) /\ Read(n)
    /\ got' = all /\ phase' = "read"
    /\ UNCHANGED waiting

\* mutant: only the newest piece is searched for --More--
ReadPageInPiece(n) ==
    LET all == got \o SubSeq(out, 1, n)
        new == SubSeq(out, 1, n) IN
    /\ ~HasPrompt(all) /\ Len(new) > 1 /\ HasMore(all) /\ Read(n)
    /\ waiting' = FALSE /\ got' = RemoveMore(all)
    /\ UNCHANGED phase

\* A space is sent for the next page.
ReadPage(n) ==
    LET all == got \o SubSeq(out, 1, n) IN
    /\ ~HasPrompt(all) /\ HasMore(all) /\ Read(n)
    /\ waiting' = FALSE /\ got' = RemoveMore(all)
    /\ UNCHANGED phase

ReadPart(n) ==
    LET all == got \o SubSeq(out, 1, n) IN
    /\ ~HasPrompt(all) /\ ~HasMore(all) /\ Read(n)
    /\ got' = all
    /\ UNCHANGED <<waiting, phase>>

-----------------------------------------------------------------------------
\* cleanOutput: without the echo, the prompt and the empty lines.
CleanOutput(cells) ==
    LET lines == SplitLines(cells)
        body  == IF HasPrompt(cells) THEN Front(lines) ELSE lines
    IN  SelectSeq(body, LAMBDA l : l # Blank /\ l # Echo)

ErrorPatterns == {"Invalid input detected", "Command rejected"}
IsErrorOutput(lines) == \E pattern \in ErrorPatterns : Mentions(lines, pattern)

Refused == [refused |-> TRUE]

\* ExecuteCommand and the read function of each resource.
ReadObject(s, lines) ==
    IF IsErrorOutput(lines) THEN Refused ELSE
    CASE s.show = "vlan"           -> ParseShowVlan(lines, s.id)
      [] s.show = "interface"      -> ParseInterfaceConfig(lines)
      [] s.show = "interface_ip"   -> ReadInterfaceIP(lines)
      [] s.show = "svi"            -> ParseSVIConfig(lines)
      [] s.show = "dhcp_pool"      -> ParseDHCPPool(lines, s.id)
      [] s.show = "dhcp_host"      -> ParseDHCPHostPool(lines, s.id)
      [] s.show = "snmp_community" -> ParseSNMPCommunity(lines, s.id)
      [] s.show = "snmp"           -> ParseSNMP(lines)
      [] s.show = "route"          -> ParseStaticRoute(lines, s.id)
      [] s.show = "excluded"       -> ParseDHCPExcludedRange(lines, s.id[1], s.id[2])
      [] s.show = "ip_routing"     -> ReadIPRouting(lines)
      [] s.show = "acl"            -> ParseACL(lines, s.id)
      [] s.show = "status"         -> ParseShowInterfacesStatus(lines)

Parse ==
    /\ phase = "read" /\ phase' = "done"
    /\ \E lines \in {CleanOutput(got)} : info' = ReadObject(scene, lines)
    /\ UNCHANGED <<scene, page, rest, waiting, out, got>>

ClientReads == \E n \in 1..Len(out) : ReadPrompt(n) \/ ReadPage(n) \/ ReadPart(n)

\* Nothing follows the answer.
Next == SwitchPrints \/ ClientReads \/ Parse

\* The switch prints what it has; the client reads on and parses.
Spec == Init /\ [][Next]_vars /\ WF_vars(SwitchPrints) /\ WF_vars(ClientReads) /\ WF_vars(Parse)

-----------------------------------------------------------------------------
Truth(s) == IF Known(s) THEN Expected(s) ELSE Refused


(***************************************************************************)
(* A paged answer is read to its end: the client and the switch never wait *)
(* for each other.                                                         *)
(***************************************************************************)
AnswerArrives == <>(phase = "done")

(***************************************************************************)
(* What the comments of the client say of every read.                      *)
(*                                                                         *)
(* hasPrompt "checks if the output ends with a CLI prompt": nothing of an  *)
(* answer is left for the next command to take for its own.                *)
(***************************************************************************)
WholeAnswer == phase # "reading" => out = <<>> /\ rest = <<>>

(***************************************************************************)
(* IsErrorOutput "checks if the command output contains an error": only a  *)
(* show command that the switch refuses fails.                             *)
(***************************************************************************)
OnlyErrorsFail == phase = "done" /\ Known(scene) => info # Refused

(***************************************************************************)
(* parseVLANList handles the "add" prefix of a list that goes on: all the  *)
(* VLANs of a trunk are read.                                              *)
(***************************************************************************)
TrunkIsWhole ==
    phase = "done" /\ scene.show = "interface" => info.trunk = Expected(scene).trunk

(***************************************************************************)
(* ParseACL reads its output "to check ACL existence and type": a list     *)
(* that is on the switch is found.                                         *)
(***************************************************************************)
ListIsFound ==
    phase = "done" /\ scene.show = "acl" => info.exists = Expected(scene).exists

=============================================================================
