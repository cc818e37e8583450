------------------------------ MODULE AclPolicy ------------------------------
(***************************************************************************)
(* cisco_acl_policy (internal/provider/resources/resource_acl.go): a named *)
(* access list whose rules are numbered 10, 20, ... by their position.     *)
(* Create writes the list; Update removes it in one batch, ignoring an     *)
(* error, and writes it again in a second.  Read would trust the rules of  *)
(* the state if it found the list, but it does not find it: it shows       *)
(* "section ip access-list NAME", and the switch's line is "ip access-list *)
(* extended NAME".  So every refresh takes the policy out of the state,    *)
(* "terraform import" fails with "ACL Not Found" and has no action here,   *)
(* and Update and Delete run only in an apply without a refresh.  The      *)
(* rules themselves (cisco_acl_rule) are local: one rule is a value here.  *)
(***************************************************************************)
EXTENDS Integers, Sequences, SequencesExt

CONSTANTS
    Rule,        \* the ACE strings
    MaxRules,    \* the longest list of rules
    Absent,      \* no policy in the file, or none in the state
    NoList,      \* the switch has no list of that name
    Budget       \* Event -> how often each event may happen

Event == {"edit", "fail", "refuse", "redo", "drift"}

ASSUME RulesAssumption  == MaxRules \in Nat
ASSUME BudgetAssumption == Budget \in [Event -> Nat]
ASSUME NamesAssumption  ==
    /\ \A s \in SeqOf(Rule, MaxRules) : s # Absent
    /\ \A l \in SUBSET ({ 10 * i : i \in 1..MaxRules } \X Rule) : l # NoList

VARIABLES
    want,      \* the rules of the .tf file
    state,     \* the rules in Terraform's state
    list,      \* the list on the switch: a set of <<number, rule>>
    op,        \* none, create, remove, rewrite (the batches of Update), delete
    todo,      \* the commands of the batch still to be sent
    verdict,   \* what the last terraform run reported
    spent      \* Event -> how often it has happened

vars == <<want, state, list, op, todo, verdict, spent>>

\* The lists a user may write; a rule listed twice is left out: IOS keeps one
\* of two equal rules.
RuleLists == { s \in SeqOf(Rule, MaxRules) : IsInjective(s) }

Init ==
    /\ want \in RuleLists
    /\ state = Absent /\ list = NoList
    /\ op = "none" /\ todo = <<>> /\ verdict = "none"
    /\ spent = [e \in Event |-> 0]

Happens(e) == spent[e] < Budget[e] /\ spent' = [spent EXCEPT ![e] = @ + 1]

-----------------------------------------------------------------------------
\* mutant: rule i has the number i * 10
LineFromZero(i, s) == [do |-> "rule", number |-> (i - 1) * 10, rule |-> s[i]]

\* applyACL: the list, then rule i (from 0) with the number (i + 1) * 10.
EnterList  == [do |-> "enter"]
RemoveList == [do |-> "remove"]
Line(i, s) == [do |-> "rule", number |-> i * 10, rule |-> s[i]]
ApplyACL(s) == <<EnterList>> \o [i \in DOMAIN s |-> Line(i, s)]

\* The switch: a number that is taken is refused ("% Duplicate sequence
\* number"), which is none of the client's error patterns; of two equal rules
\* it keeps the first; removing a list that is not there is accepted.
Exec(l, c) ==
    CASE c.do = "enter"  -> IF l = NoList THEN {} ELSE l
      [] c.do = "remove" -> NoList
      [] c.do = "rule"   -> IF \E e \in l : e[1] = c.number \/ e[2] = c.rule THEN l
                            ELSE l \cup {<<c.number, c.rule>>}

Start(o, commands) == op' = o /\ todo' = commands /\ verdict' = "none"
Stop(v)            == op' = "none" /\ todo' = <<>> /\ verdict' = v

-----------------------------------------------------------------------------
Edit(w) ==
    /\ op = "none" /\ w # want /\ Happens("edit")
    /\ want' = w /\ verdict' = "none"
    /\ UNCHANGED <<state, list, op, todo>>

\* By hand: a rule or the whole list is removed.
Drift ==
    /\ op = "none" /\ list # NoList /\ Happens("drift")
    /\ \/ list' = NoList
       \/ \E e \in list : list' = list \ {e}
    /\ verdict' = "none"
    /\ UNCHANGED <<want, state, op, todo>>

-----------------------------------------------------------------------------
StartRewrite == Start("rewrite", ApplyACL(want))

\* mutant: Update writes the new rules over the old ones
UpdateInPlace == StartRewrite
StartUpdate   == Start("remove", <<RemoveList>>)

\* The comparison of the state s with the file.
Plan(s) ==
    \/ s = want /\ Stop("no changes")
    \/ s = Absent /\ want # Absent /\ Start("create", ApplyACL(want))
    \/ s # Absent /\ want = Absent /\ Start("delete", <<RemoveList>>)
    \/ s # want /\ Absent \notin {s, want} /\ StartUpdate

\* terraform apply: readACL finds no such list, whatever the switch has.
Read == Absent

Refresh ==
    /\ op = "none" /\ state' = Read /\ Plan(Read)
    /\ UNCHANGED <<want, list, spent>>

\* terraform apply -refresh=false.
PlanWithoutRefresh ==
    /\ op = "none" /\ Plan(state)
    /\ UNCHANGED <<want, state, list, spent>>

SendCommand ==
    /\ todo # <<>>
    /\ list' = Exec(list, Head(todo)) /\ todo' = Tail(todo)
    /\ UNCHANGED <<want, state, op, verdict, spent>>

\* The session drops: the client executes the batch again from its start.
Redo ==
    /\ op # "none" /\ Happens("redo")
    /\ todo' = IF op \in {"create", "rewrite"} THEN ApplyACL(want) ELSE <<RemoveList>>
    /\ UNCHANGED <<want, state, list, op, verdict>>

\* Update: the batch that removes the list has been executed, or its error is
\* ignored.
Removed ==
    /\ op = "remove"
    /\ \/ todo = <<>> /\ UNCHANGED spent
       \/ Happens("refuse")
    /\ StartRewrite
    /\ UNCHANGED <<want, state, list>>

BatchFails ==
    /\ op \in {"create", "rewrite", "delete"} /\ Happens("fail")
    /\ Stop("failed")
    /\ UNCHANGED <<want, state, list>>

Written ==
    /\ op \in {"create", "rewrite"} /\ todo = <<>>
    /\ state' = want /\ Stop("applied")
    /\ UNCHANGED <<want, list, spent>>

\* mutant: Delete ignores an error as Update does
DeletedAnyway ==
    /\ op = "delete"
    /\ state' = Absent /\ Stop("applied")
    /\ UNCHANGED <<want, list, spent>>

\* Delete also succeeds when the switch says that the list does not exist.
Deleted ==
    /\ op = "delete" /\ (todo = <<>> \/ list = NoList)
    /\ state' = Absent /\ Stop("applied")
    /\ UNCHANGED <<want, list, spent>>

Next ==
    \/ \E w \in RuleLists \cup {Absent} : Edit(w)
    \/ Drift \/ Refresh \/ PlanWithoutRefresh \/ SendCommand \/ Redo
    \/ Removed \/ BatchFails \/ Written \/ Deleted

Spec == Init /\ [][Next]_vars

-----------------------------------------------------------------------------
\* The list README.md promises for the rules s.
Exact(s) == { <<10 * i, s[i]>> : i \in DOMAIN s }

\* The types; the numbers on the switch are those of positions.
TypeOK ==
    /\ want \in RuleLists \cup {Absent} /\ state \in RuleLists \cup {Absent}
    /\ list = NoList \/ list \subseteq { 10 * i : i \in 1..MaxRules } \X Rule
    /\ op \in {"none", "create", "remove", "rewrite", "delete"}
    /\ verdict \in {"none", "no changes", "applied", "failed"}
    /\ \A e \in Event : spent[e] \in 0..Budget[e]

(***************************************************************************)
(* README.md: "list position determines IOS sequence number".  While       *)
(* nothing has failed and nobody has changed the list by hand, a           *)
(* successful apply leaves exactly the rules of the file, numbered by      *)
(* their position.                                                         *)
(***************************************************************************)
AppliedInOrder ==
    verdict = "applied" /\ want # Absent
      /\ spent["fail"] + spent["refuse"] + spent["drift"] = 0 => list = Exact(want)

(***************************************************************************)
(* An Update leaves exactly the new rules even on a list that failed       *)
(* batches, Creates over a list that was there or changes by hand have     *)
(* left in any order, provided no removal was ever refused.                *)
(***************************************************************************)
UpdateRestoresOrder ==
    [][op = "rewrite" /\ Written /\ spent["refuse"] = 0 => list = Exact(want)]_vars

(***************************************************************************)
(* A Delete that succeeds leaves no list, whatever was refused before.     *)
(***************************************************************************)
DeletedMeansGone == verdict = "applied" /\ want = Absent => list = NoList

(***************************************************************************)
(* Comment of Update: "This guarantees no stale rules remain and sequence  *)
(* numbers are always correct".                                            *)
(***************************************************************************)
NoStaleRules == [][op = "rewrite" /\ Written => list = Exact(want)]_vars

(***************************************************************************)
(* "Any change to the list atomically recreates the ACL": while Update     *)
(* replaces an exact list the switch has the old rules or the new ones.    *)
(***************************************************************************)
AtomicallyRecreated ==
    [][state # Absent /\ want # Absent /\ list = Exact(state) /\ op # "none"
         => list' \in {Exact(state), Exact(want)}]_vars

=============================================================================
