---------------------------- MODULE SnmpResource ----------------------------
(***************************************************************************)
(* cisco_snmp, the one resource for the global "snmp-server" lines: the    *)
(* file, Terraform's state and the switch, over edits, changes by hand,    *)
(* batches that stop half way and batches that are executed again.         *)
(*                                                                         *)
(* The contact is treated line for line as the location, and community     *)
(* stands for trap_community together with trap_version: the code compares *)
(* neither.  The switch keeps a line for every pair of host and community  *)
(* it was given; "no snmp-server host H" removes all lines of H.           *)
(***************************************************************************)
EXTENDS Integers, Sequences, SequencesExt

CONSTANTS
    Location, Host, Community,   \* the values in files and on the switch
    Unset,                       \* an attribute the file leaves out
    Absent,                      \* no resource in the file, or none in the state
    Budget                       \* Event -> how often each event may happen

Event == {"edit", "drift", "fail", "redo"}

ASSUME SnmpBudget == Budget \in [Event -> Nat]

VARIABLES
    want,      \* what the .tf file asks for
    state,     \* what Terraform's state holds
    location,  \* the switch: "snmp-server location",
    lines,     \* the "snmp-server host" lines, in the order they were entered,
    traps,     \* and whether "snmp-server enable traps" is there
    op,        \* none, create, update, delete
    todo,      \* the commands still to be sent
    verdict,   \* what the last terraform run reported, while nothing changed since
    spent      \* Event -> how often it has happened

switchVars == <<location, lines, traps>>
vars == <<want, state, switchVars, op, todo, verdict, spent>>

Hosts(s) == Range(s.hosts)

\* trap_hosts is a list; the files list no host twice.
Model == { m \in [location  : Location \cup {Unset},
                  hosts     : UNION { [1..n -> Host] : n \in 0..2 },
                  community : Community \cup {Unset}] : IsInjective(m.hosts) }

Init ==
    /\ want \in Model /\ state = Absent
    /\ location = Unset /\ lines = <<>> /\ traps = FALSE
    /\ op = "none" /\ todo = <<>> /\ verdict = "none"
    /\ spent = [e \in Event |-> 0]

Happens(e) == spent[e] < Budget[e] /\ spent' = [spent EXCEPT ![e] = @ + 1]

-----------------------------------------------------------------------------
(***************************************************************************)
(* The batches.                                                            *)
(***************************************************************************)
Command(do, arg) == [do |-> do, arg |-> arg]
Cleared(cond)    == IF cond THEN <<Command("location", Unset)>> ELSE <<>>
NoHosts(hosts)   == [i \in DOMAIN hosts |-> Command("no host", hosts[i])]

\* trap_community is required when trap_hosts is set: an error before anything
\* is sent.
Buildable(m) == m.hosts = <<>> \/ m.community # Unset

BuildApplyCommands(m) ==
    (IF m.location = Unset THEN <<>> ELSE <<Command("location", m.location)>>)
    \o (IF m.hosts = <<>> THEN <<>>
        ELSE Append([i \in DOMAIN m.hosts |-> Command("host", <<m.hosts[i], m.community>>)],
                    Command("enable traps", Unset)))

\* mutant: a host that is no longer in the plan is forgotten
CleanupForgetsHosts(plan, s) == Cleared(s.location # Unset /\ plan.location = Unset)

\* The hosts are compared by their addresses only.
BuildCleanupCommands(plan, s) ==
    Cleared(s.location # Unset /\ plan.location = Unset)
    \o NoHosts(SelectSeq(s.hosts, LAMBDA h : h \notin Hosts(plan)))

DeleteCommands(s) == Cleared(s.location # Unset) \o NoHosts(s.hosts)

Batch(how, s) ==
    CASE how = "create" -> BuildApplyCommands(want)
      [] how = "update" -> BuildCleanupCommands(want, s) \o BuildApplyCommands(want)
      [] how = "delete" -> DeleteCommands(s)

-----------------------------------------------------------------------------
(***************************************************************************)
(* terraform plan.  ParseSNMP lists a host once for each of its lines and  *)
(* takes the community of the last; what the switch does not have keeps    *)
(* the state's value, unless it has no line at all.                        *)
(***************************************************************************)
\* mutant: types.StringValue("") where types.StringNull() is meant
ReadEmptyCommunity(s) ==
    IF location = Unset /\ lines = <<>> THEN Absent
    ELSE [s EXCEPT !.community = IF lines = <<>> THEN "" ELSE Last(lines)[2]]

\* mutant: a list that is already in the state is not read
ReadKeepsHosts(s) ==
    IF location = Unset /\ lines = <<>> THEN Absent
    ELSE [s EXCEPT !.location = IF location = Unset THEN @ ELSE location]

UpdateModelFromInfo(s) ==
    IF location = Unset /\ lines = <<>> THEN Absent
    ELSE [location  |-> IF location = Unset THEN s.location ELSE location,
          hosts     |-> IF lines = <<>> THEN s.hosts ELSE [i \in DOMAIN lines |-> lines[i][1]],
          community |-> IF lines = <<>> THEN s.community ELSE Last(lines)[2]]

Read == IF state = Absent THEN Absent ELSE UpdateModelFromInfo(state)

Stop(v) == op' = "none" /\ todo' = <<>> /\ verdict' = v
Begin(how, s) == op' = how /\ todo' = Batch(how, s) /\ verdict' = "none"

Plan(s) ==
    \/ s = want /\ Stop("no changes")
    \/ s # Absent /\ want = Absent /\ Begin("delete", s)
    \/ /\ s # want /\ want # Absent
       /\ IF ~Buildable(want) THEN Stop("failed")
          ELSE Begin(IF s = Absent THEN "create" ELSE "update", s)

Refresh ==
    /\ op = "none" /\ state' = Read /\ Plan(Read)
    /\ UNCHANGED <<want, switchVars, spent>>

-----------------------------------------------------------------------------
(***************************************************************************)
(* terraform apply; nothing is read back.                                  *)
(***************************************************************************)
Exec(c) ==
    /\ location' = IF c.do = "location" THEN c.arg ELSE location
    /\ lines' = CASE c.do = "host" /\ c.arg \notin Range(lines) -> Append(lines, c.arg)
                  [] c.do = "no host" -> SelectSeq(lines, LAMBDA l : l[1] # c.arg)
                  [] OTHER -> lines
    /\ traps' = (traps \/ c.do = "enable traps")

SendCommand ==
    /\ todo # <<>>
    /\ Exec(Head(todo)) /\ todo' = Tail(todo)
    /\ UNCHANGED <<want, state, op, verdict, spent>>

Finish ==
    /\ op # "none" /\ todo = <<>>
    /\ state' = IF op = "delete" THEN Absent ELSE want
    /\ Stop("applied")
    /\ UNCHANGED <<want, switchVars, spent>>

OperationFails ==
    /\ op # "none" /\ Happens("fail") /\ Stop("failed")
    /\ UNCHANGED <<want, state, switchVars>>

\* The session drops and the client executes the batch again from its start.
Redo ==
    /\ op # "none" /\ Happens("redo") /\ todo' = Batch(op, state)
    /\ UNCHANGED <<want, state, switchVars, op, verdict>>

-----------------------------------------------------------------------------
Edit(m) ==
    /\ op = "none" /\ m # want /\ Happens("edit")
    /\ want' = m /\ verdict' = "none"
    /\ UNCHANGED <<state, switchVars, op, todo>>

\* By hand, between two runs: one command.
Drift ==
    /\ op = "none" /\ Happens("drift")
    /\ \/ \E l \in Location \cup {Unset} : Exec(Command("location", l))
       \/ \E h \in Host, c \in Community : Exec(Command("host", <<h, c>>))
       \/ \E h \in Host : Exec(Command("no host", h))
    /\ verdict' = "none"
    /\ UNCHANGED <<want, state, op, todo>>

Next == Refresh \/ SendCommand \/ Finish \/ OperationFails \/ Redo \/ Drift
        \/ \E m \in Model \cup {Absent} : Edit(m)

Spec == Init /\ [][Next]_vars

-----------------------------------------------------------------------------
TypeOK ==
    /\ want \in Model \cup {Absent}
    /\ \/ state = Absent
       \/ /\ state.location \in Location \cup {Unset} /\ state.hosts \in Seq(Host)
          /\ state.community \in Community \cup {Unset}
    /\ location \in Location \cup {Unset} /\ traps \in BOOLEAN
    /\ lines \in Seq(Host \X Community) /\ IsInjective(lines)
    /\ op \in {"none", "create", "update", "delete"}
    /\ \A i \in DOMAIN todo : todo[i].do \in {"location", "host", "no host", "enable traps"}
    /\ verdict \in {"none", "no changes", "applied", "failed"}
    /\ \A e \in Event : spent[e] \in 0..Budget[e]

LineHosts == { line[1] : line \in Range(lines) }

(***************************************************************************)
(* A successful Update leaves the location of the file or none, traps for  *)
(* exactly the hosts of the file, and for each the line with the file's    *)
(* community: whatever Creates and Updates that stopped half way, batches  *)
(* executed again and changes by hand left on the switch before.           *)
(***************************************************************************)
UpdateIsComplete ==
    [][Finish /\ op = "update" =>
         /\ location = want.location /\ LineHosts = Hosts(want)
         /\ Hosts(want) \X {want.community} \subseteq Range(lines)
         /\ lines # <<>> => traps]_vars

(***************************************************************************)
(* A successful Delete leaves no location and no trap host, those that     *)
(* failed operations or somebody else configured included.                 *)
(***************************************************************************)
DeleteIsComplete ==
    [][Finish /\ op = "delete" => location = Unset /\ lines = <<>>]_vars

(***************************************************************************)
(* resource_snmp.go: buildCleanupCommands removes "settings that are being *)
(* cleared or changed": after a successful apply to a switch nobody        *)
(* changes by hand, no line is left with another community than the        *)
(* file's.                                                                 *)
(***************************************************************************)
ChangedIsRemoved ==
    verdict = "applied" /\ want # Absent /\ spent["drift"] + spent["fail"] = 0 =>
        \A line \in Range(lines) : line[2] = want.community

=============================================================================
