-------------------------- MODULE ResourceLifecycle --------------------------
(***************************************************************************)
(* One managed resource, from the user's .tf file to the switch: Terraform *)
(* refreshes its state with Read, compares it with the file, and runs      *)
(* Create, Update or Delete; each sends a batch of commands that may stop  *)
(* half way, and most read back what they wrote.  Meanwhile the user edits *)
(* the file, an operator changes the switch by hand, and it may reboot.    *)
(* The lock of CiscoClient makes an operation the only writer of the       *)
(* provider, so one resource is enough here.                               *)
(***************************************************************************)
EXTENDS ResourceKinds

CONSTANTS
    Kinds,          \* the resources of this instance
    Refused,        \* those whose show command the switch refuses for a missing object
    Absent,         \* no resource in the file, or none in the state
    Budget          \* Event -> how often each event may happen

Event == {"edit", "drift", "fail", "redo", "reboot", "import"}

ASSUME KindAssumption   == Kinds \subseteq Kind /\ Refused \subseteq Kind
ASSUME BudgetAssumption == Budget \in [Event -> Nat]

VARIABLES
    kind,      \* the resource
    want,      \* what the .tf file asks for
    state,     \* what Terraform's state holds
    tainted,   \* the object in the state was created with an error
    running,   \* the object in the switch's running configuration
    startup,   \* and in its startup configuration
    saved,     \* cisco_write_memory is in the state: its Create has run
    op,        \* none, create, update, delete, save, resave (nothing but a save)
    todo,      \* the commands still to be sent
    verdict,   \* what the last terraform run reported, while nothing changed since
    spent      \* Event -> how often it has happened

fileVars   == <<kind, want>>
stateVars  == <<state, tainted, saved>>
switchVars == <<running, startup>>
runVars    == <<op, todo>>
vars == <<fileVars, stateVars, switchVars, runVars, verdict, spent>>

Init ==
    /\ kind \in Kinds
    /\ want \in Models(kind)
    /\ state = Absent /\ tainted = FALSE /\ saved = FALSE
    /\ running = Missing(kind) /\ startup = Missing(kind)
    /\ op = "none" /\ todo = <<>>
    /\ verdict = "none"
    /\ spent = [e \in Event |-> 0]

Happens(e) == spent[e] < Budget[e] /\ spent' = [spent EXCEPT ![e] = @ + 1]

-----------------------------------------------------------------------------
(***************************************************************************)
(* The user and the operator.                                              *)
(***************************************************************************)
Edit(w) ==
    /\ op = "none" /\ w # want /\ Happens("edit")
    /\ want' = w /\ verdict' = "none"
    /\ UNCHANGED <<kind, stateVars, switchVars, runVars>>

\* A change of cisco_write_memory's triggers replaces it: the next run creates
\* it again.
EditTriggers ==
    /\ op = "none" /\ saved /\ Happens("edit")
    /\ saved' = FALSE
    /\ UNCHANGED <<fileVars, state, tainted, switchVars, runVars, verdict>>

\* terraform import: the identifying attributes are set and the object is read.
\* cisco_ip_routing has no ImportState.
Importable == Kind \ {"ip_routing"}

ImportState ==
    /\ op = "none" /\ want # Absent /\ state = Absent
    /\ kind \in Importable /\ Present(kind, running) /\ Happens("import")
    /\ state' = UpdateModelFromInfo(kind, running, NoModel(kind))
    /\ verdict' = "none"
    /\ UNCHANGED <<fileVars, tainted, saved, switchVars, runVars>>

\* By hand, at any time: one attribute is set or removed, or the whole object.
Drift ==
    /\ Happens("drift")
    /\ \/ running' = Missing(kind)
       \/ \E a \in Attr(kind) : \E v \in Row(kind, a).wants \cup {Row(kind, a).initial} :
             running' = [exists |-> TRUE, val |-> [running.val EXCEPT ![a] = v]]
    /\ running' # running
    /\ verdict' = "none"
    /\ UNCHANGED <<fileVars, stateVars, startup, runVars>>

Reboot ==
    /\ op = "none" /\ Happens("reboot")
    /\ running' = startup /\ verdict' = "none"
    /\ UNCHANGED <<fileVars, stateVars, startup, runVars>>

-----------------------------------------------------------------------------
(***************************************************************************)
(* terraform plan: Read, then the comparison with the file.  A Read that   *)
(* finds no object removes the resource from the state.                    *)
(***************************************************************************)
\* mutant: Read returns what the state already holds
ReadTrustsState == IF state = Absent \/ ~Present(kind, running) THEN Absent ELSE state

Read ==
    IF state = Absent \/ ~Present(kind, running) THEN Absent
    ELSE UpdateModelFromInfo(kind, running, state)

\* The run ends: an operation that fails leaves the state as it was.
Stop(v) == op' = "none" /\ todo' = <<>> /\ verdict' = v

BeginCreate == op' = "create" /\ todo' = BuildCommands(kind, "create", NoModel(kind), want)

Clean(s) == s = want /\ (tainted => s = Absent)

Plan(s) ==
    \/ Clean(s) /\ saved /\ Stop("no changes")
    \/ Clean(s) /\ ~saved /\ op' = "resave" /\ todo' = <<>> /\ verdict' = "none"
    \/ ~Clean(s) /\ s = Absent /\ BeginCreate /\ verdict' = "none"
    \/ /\ ~Clean(s) /\ s # Absent /\ (want = Absent \/ tainted)
       /\ op' = "delete" /\ todo' = DeleteCommands(kind) /\ verdict' = "none"
    \/ /\ ~Clean(s) /\ s # Absent /\ want # Absent /\ ~tainted
       /\ op' = "update" /\ todo' = BuildCommands(kind, "update", s, want)
       /\ verdict' = "none"

Refresh ==
    /\ op = "none"
    /\ ~(state # Absent /\ ~Present(kind, running) /\ kind \in Refused)
    /\ state' = Read
    /\ tainted' = (tainted /\ Read # Absent)
    /\ Plan(Read)
    /\ UNCHANGED <<fileVars, saved, switchVars, spent>>

\* The switch refuses the show command: "Invalid input detected" is an error
\* of ExecuteCommand, the parser that knows it is never called.
RefreshRefused ==
    /\ op = "none" /\ state # Absent /\ ~Present(kind, running) /\ kind \in Refused
    /\ Stop("failed")
    /\ UNCHANGED <<fileVars, stateVars, switchVars, spent>>

-----------------------------------------------------------------------------
(***************************************************************************)
(* terraform apply: the batch of one operation.                            *)
(***************************************************************************)
SendCommand ==
    /\ todo # <<>>
    /\ running' = Exec(kind, running, Head(todo)) /\ todo' = Tail(todo)
    /\ UNCHANGED <<fileVars, stateVars, startup, op, verdict, spent>>

\* The session drops and the client executes the batch again from its start.
Redo ==
    /\ op \in {"create", "update", "delete"} /\ Happens("redo")
    /\ todo' = CASE op = "create" -> BuildCommands(kind, "create", NoModel(kind), want)
                 [] op = "update" -> BuildCommands(kind, "update", state, want)
                 [] op = "delete" -> DeleteCommands(kind)
    /\ UNCHANGED <<fileVars, stateVars, switchVars, op, verdict>>

\* A refused command, a lost session, or a read-back that fails.
OperationFails ==
    /\ op # "none" /\ Happens("fail")
    /\ Stop("failed")
    /\ UNCHANGED <<fileVars, stateVars, switchVars>>

\* Terraform goes on with cisco_write_memory unless it is in the state.
Succeed == IF saved THEN Stop("applied")
                    ELSE op' = "save" /\ todo' = <<>> /\ verdict' = "none"

(***************************************************************************)
(* The end of Create and Update.  Terraform accepts the model they return  *)
(* only if it is the planned one ("inconsistent result after apply"        *)
(* otherwise), and a Create it does not accept leaves the object tainted.  *)
(* Create wants the object to exist; Update does not look.                 *)
(***************************************************************************)
\* mutant: the plan is stored without a read-back
StorePlan == want
ReadBack == IF Resources[kind].verified THEN UpdateModelFromInfo(kind, running, want) ELSE want

Written ==
    /\ op \in {"create", "update"} /\ todo = <<>>
    /\ ~(op = "create" /\ Resources[kind].verified /\ ~Present(kind, running))
    /\ ~(Resources[kind].verified /\ ~Present(kind, running) /\ kind \in Refused)
    /\ state' = ReadBack
    /\ tainted' = (op = "create" /\ ReadBack # want)
    /\ IF ReadBack = want THEN Succeed ELSE Stop("failed")
    /\ UNCHANGED <<fileVars, saved, switchVars, spent>>

NotFoundAfterWrite ==
    /\ op \in {"create", "update"} /\ todo = <<>>
    /\ Resources[kind].verified /\ ~Present(kind, running)
    /\ op = "create" \/ kind \in Refused
    /\ Stop("failed")
    /\ UNCHANGED <<fileVars, stateVars, switchVars, spent>>

\* Delete returns; a tainted object is created again in the same run.
Deleted ==
    /\ op = "delete" /\ todo = <<>>
    /\ state' = Absent /\ tainted' = FALSE
    /\ IF want = Absent THEN Succeed ELSE BeginCreate /\ verdict' = "none"
    /\ UNCHANGED <<fileVars, saved, switchVars, spent>>

\* cisco_write_memory: Create runs "write memory"; Read, Update and Delete do
\* nothing.
Save ==
    /\ op \in {"save", "resave"}
    /\ startup' = running /\ saved' = TRUE
    /\ Stop(IF op = "save" THEN "applied" ELSE "saved")
    /\ UNCHANGED <<fileVars, state, tainted, running, spent>>

Terraform == Refresh \/ RefreshRefused \/ SendCommand \/ Written \/ NotFoundAfterWrite
             \/ Deleted \/ Save

Environment ==
    \/ \E w \in Models(kind) \cup {Absent} : Edit(w)
    \/ EditTriggers \/ ImportState \/ Drift \/ Reboot \/ Redo \/ OperationFails

Next == Terraform \/ Environment

Spec == Init /\ [][Next]_vars

\* The user keeps running terraform apply; the events are finitely many.
FairSpec == Spec /\ WF_vars(Terraform)

-----------------------------------------------------------------------------
Values(k) == Value(k) \cup {"0", "other"} \cup UNION { Row(k, a).initial : a \in Attr(k) }

\* The types: what a read leaves in the state has the form of a model.
TypeOK ==
    /\ kind \in Kinds
    /\ want \in Models(kind) \cup {Absent}
    /\ state = Absent \/ state \in [Attr(kind) -> SUBSET Values(kind)]
    /\ tainted \in BOOLEAN /\ saved \in BOOLEAN
    /\ \A r \in {running, startup} : r.exists \in BOOLEAN
                                     /\ r.val \in [Attr(kind) -> SUBSET Values(kind)]
    /\ op \in {"none", "create", "update", "delete", "save", "resave"}
    /\ \A i \in DOMAIN todo :
          /\ todo[i].do \in {"open", "line", "set", "add", "destroy"}
          /\ todo[i].attr \in Attr(kind) \cup {"all"}
    /\ verdict \in {"none", "no changes", "applied", "saved", "failed"}
    /\ \A e \in Event : spent[e] \in 0..Budget[e]

\* The switch has what the file asks for; attributes of the other port mode
\* do not count.  Without the resource in the file it is as it came: without
\* the object, or with the port or the routing at its defaults.
Configured(r) ==
    IF want = Absent THEN r = Missing(kind)
    ELSE /\ Present(kind, r)
         /\ \A a \in Attr(kind) : InUse(kind, Row(kind, a), want) => r.val[a] = want[a]

(***************************************************************************)
(* IMPLEMENTATION_SUMMARY.md, "Drift Detection": when terraform plan       *)
(* reports no changes, and until something changes again, the switch has   *)
(* what the file asks for.  Not so for every resource (updateModelFromInfo *)
(* of cisco_svi keeps what it does not find).                              *)
(***************************************************************************)
CleanPlanMeansConfigured ==
    verdict = "no changes" /\ want # Absent => Configured(running)

\* Those whose Read takes every attribute from the switch.
ReadInFull == {"vlan", "dhcp_host", "static_route", "dhcp_excluded_range", "ip_routing"}

(***************************************************************************)
(* Drift detection where nothing is kept, unseen or invented by a Read:    *)
(* whatever was edited, changed by hand, lost in a reboot or left by an    *)
(* operation that failed, a plan without changes is the truth.             *)
(***************************************************************************)
DriftIsDetected == kind \in ReadInFull => CleanPlanMeansConfigured

(***************************************************************************)
(* The read-back: a Create or Update that reads the object back and is     *)
(* accepted by Terraform has found the switch as planned, whatever was     *)
(* done to it by hand between its commands.                                *)
(***************************************************************************)
AcceptedMeansConfigured ==
    [][(Written /\ verdict' # "failed" /\ Resources[kind].verified /\ Present(kind, running))
         => Configured(running)]_vars

(***************************************************************************)
(* A successful apply leaves the switch with exactly what the file asks    *)
(* for, over any history of edits, of batches that stopped half way, of    *)
(* restarts and of tainted objects.                                        *)
(***************************************************************************)
AppliedMeansConfigured ==
    verdict = "applied" /\ want # Absent => Configured(running)

(***************************************************************************)
(* A successful destroy leaves the switch as it was before there was such  *)
(* a resource, the parts written by operations that failed included: the   *)
(* object is gone, and a port or the routing, which a switch always has,   *)
(* is back at its defaults in every attribute.                             *)
(***************************************************************************)
DestroyedMeansGone ==
    verdict = "applied" /\ want = Absent => Configured(running)

(***************************************************************************)
(* Applying again and again comes to an end: from some time on terraform   *)
(* plan reports no changes.                                                *)
(***************************************************************************)
Converges == <>[](verdict = "no changes")

(***************************************************************************)
(* README.md: "Every apply runs write memory automatically": what a        *)
(* successful apply has configured is in the startup configuration.        *)
(***************************************************************************)
AppliedMeansSaved == verdict = "applied" => Configured(startup)

(***************************************************************************)
(* "Graceful handling of missing resources": a run in which nothing failed *)
(* does not fail because the object is missing.                            *)
(***************************************************************************)
MissingIsHandled ==
    verdict = "failed" /\ spent["fail"] = 0 => state = Absent \/ Present(kind, running)

=============================================================================
