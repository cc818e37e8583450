--------------------------- MODULE LifecycleProofs ---------------------------
(***************************************************************************)
(* Proofs about ResourceLifecycle, for the resources whose Read takes      *)
(* every attribute from the switch, and for any values, any edits, changes *)
(* by hand, failures, re-executed batches, reboots and imports.            *)
(***************************************************************************)
EXTENDS ResourceLifecycle, SequenceTheorems, TLAPS

-----------------------------------------------------------------------------
(***************************************************************************)
(* The tables.                                                             *)
(***************************************************************************)
LEMMA RowOfAttr ==
    ASSUME NEW k, NEW a \in Attr(k)
    PROVE  Row(k, a) \in Range(Rows(k)) /\ Row(k, a).attr = a
  BY DEF Row, Attr

LEMMA KindsRead == ReadInFull \subseteq Kind
  BY DEF ReadInFull, Kind, Resources

\* A table of one or two rows.
LEMMA Rows1 == \A x : Range(<<x>>) = {x}
  BY DEF Range
LEMMA Rows2 == \A x, y : Range(<<x, y>>) = {x, y}
  <1> SUFFICES ASSUME NEW x, NEW y PROVE Range(<<x, y>>) = {x, y}
    OBVIOUS
  <1>1. DOMAIN <<x, y>> = {1, 2} /\ <<x, y>>[1] = x /\ <<x, y>>[2] = y
    OBVIOUS
  <1> HIDE <1>1
  <1> QED
    BY <1>1 DEF Range
LEMMA Rows0 == Range(<<>>) = {}
  BY DEF Range

\* The fields of a required and of an optional attribute.
LEMMA RequiredRow ==
    ASSUME NEW attr, NEW values
    PROVE  LET row == Required(attr, values)
           IN  /\ row.keep = FALSE /\ row.blind = {} /\ row.only = {} /\ row.empty = {}
               /\ DOMAIN row = {"attr", "wants", "verb", "cleared", "unsent", "initial",
                                "keep", "empty", "blind", "only"}
  BY DEF Required
LEMMA OptionalRow ==
    ASSUME NEW attr, NEW values
    PROVE  LET row == Optional(attr, values)
           IN  /\ row.blind = {} /\ row.only = {} /\ row.empty = {}
               /\ DOMAIN row = {"attr", "wants", "verb", "cleared", "unsent", "initial",
                                "keep", "empty", "blind", "only"}
  BY RequiredRow DEF Optional

\* The state's value never stands in for what the switch does not show.
Plain(row) == row.keep = FALSE /\ row.blind = {} /\ row.only = {}

LEMMA PlainRows ==
    ASSUME NEW attr, NEW values, NEW v
    PROVE  /\ Plain(Required(attr, values)) /\ Required(attr, values).empty = {}
           /\ LET row == [Required(attr, values) EXCEPT !.initial = v]
              IN  Plain(row) /\ row.empty = {}
           /\ LET row == [Required(attr, values) EXCEPT !.unsent.create = v, !.initial = v]
              IN  Plain(row) /\ row.empty = {}
           /\ LET row == [Required(attr, values) EXCEPT !.initial = v, !.empty = v]
              IN  Plain(row)
           /\ LET row == [Optional(attr, values) EXCEPT !.cleared = "emptied", !.keep = FALSE]
              IN  Plain(row) /\ row.empty = {}
<1>1. Plain(Required(attr, values)) /\ Required(attr, values).empty = {}
  BY RequiredRow DEF Plain
<1>2. LET row == [Required(attr, values) EXCEPT !.initial = v]
      IN  Plain(row) /\ row.empty = {}
  BY RequiredRow DEF Plain
<1>3. LET row == [Required(attr, values) EXCEPT !.unsent.create = v, !.initial = v]
      IN  Plain(row) /\ row.empty = {}
  BY RequiredRow DEF Plain
<1>4. LET row == [Required(attr, values) EXCEPT !.initial = v, !.empty = v]
      IN  Plain(row)
  BY RequiredRow DEF Plain
<1>5. LET row == [Optional(attr, values) EXCEPT !.cleared = "emptied", !.keep = FALSE]
      IN  Plain(row) /\ row.empty = {}
  BY OptionalRow DEF Plain
<1> QED
  BY <1>1, <1>2, <1>3, <1>4, <1>5

LEMMA RowsReadInFull ==
    ASSUME NEW k \in ReadInFull, NEW row \in Range(Rows(k))
    PROVE  /\ Plain(row)
           /\ k # "static_route" => row.empty = {}
<1>1. CASE k = "vlan"
  <2> DEFINE name  == Required("name", Text)
             state_ == [Required("state", {"active", "suspend"}) EXCEPT
                           !.unsent.create = {"active"}, !.initial = {"active"}]
  <2>1. Rows(k) = << name, state_ >>
    BY <1>1 DEF Rows, Resources, Vlan, Resource
  <2>2. Plain(name) /\ name.empty = {} /\ Plain(state_) /\ state_.empty = {}
    BY PlainRows
  <2> HIDE DEF name, state_
  <2>3. row = name \/ row = state_
    BY <2>1, Rows2
  <2> QED
    BY <2>2, <2>3
<1>2. CASE k = "dhcp_host"
  <2> DEFINE ip   == Required("ip_address", Text)
             name == [Optional("client_name", Text) EXCEPT
                         !.cleared = "emptied", !.keep = FALSE]
  <2>1. Rows(k) = << ip, name >>
    BY <1>2 DEF Rows, Resources, DhcpHost, Resource
  <2>2. Plain(ip) /\ ip.empty = {} /\ Plain(name) /\ name.empty = {}
    BY PlainRows
  <2> HIDE DEF ip, name
  <2>3. row = ip \/ row = name
    BY <2>1, Rows2
  <2> QED
    BY <2>2, <2>3
<1>3. CASE k = "static_route"
  <2> DEFINE distance == [Required("admin_distance", {"1"} \cup Text) EXCEPT
                             !.initial = {"1"}, !.empty = {"1"}]
  <2>1. Rows(k) = << distance >>
    BY <1>3 DEF Rows, Resources, StaticRoute, Resource
  <2>2. Plain(distance)
    BY PlainRows
  <2> HIDE DEF distance
  <2>3. row = distance
    BY <2>1, Rows1
  <2> QED
    BY <1>3, <2>2, <2>3
<1>4. CASE k = "dhcp_excluded_range"
  <2>1. Rows(k) = <<>>
    BY <1>4 DEF Rows, Resources, DhcpExcludedRange, Resource
  <2> QED
    BY <2>1, Rows0
<1>5. CASE k = "ip_routing"
  <2> DEFINE enabled == [Required("enabled", {"up", "down"}) EXCEPT !.initial = {"down"}]
  <2>1. Rows(k) = << enabled >>
    BY <1>5 DEF Rows, Resources, IpRouting, Resource
  <2>2. Plain(enabled) /\ enabled.empty = {}
    BY PlainRows
  <2> HIDE DEF enabled
  <2>3. row = enabled
    BY <2>1, Rows1
  <2> QED
    BY <2>2, <2>3
<1> QED
  BY <1>1, <1>2, <1>3, <1>4, <1>5 DEF ReadInFull

-----------------------------------------------------------------------------
(***************************************************************************)
(* cisco_static_route is the one whose Read puts a default, distance 1,    *)
(* for what the switch does not show; its distance is never empty.         *)
(***************************************************************************)
Distances == { m \in [{"admin_distance"} -> SUBSET ({"1"} \cup Text)] :
                  m["admin_distance"] # {} }

LEMMA StaticRouteTable ==
    /\ Attr("static_route") = {"admin_distance"}
    /\ Row("static_route", "admin_distance").wants = { {v} : v \in {"1"} \cup Text }
    /\ Row("static_route", "admin_distance").initial = {"1"}
    /\ Resources["static_route"].oneLine = TRUE
    /\ Resources["static_route"].presence = "object"
<1> DEFINE k == "static_route"
           distance == [Required("admin_distance", {"1"} \cup Text) EXCEPT
                           !.initial = {"1"}, !.empty = {"1"}]
<1>1. Rows(k) = << distance >>
  BY DEF Rows, Resources, StaticRoute, Resource
<1>2. /\ distance.attr = "admin_distance" /\ distance.initial = {"1"}
      /\ distance.wants = { {v} : v \in {"1"} \cup Text }
  BY DEF Required
<1>3. /\ Resources[k].oneLine = TRUE
      /\ Resources[k].presence = "object"
  <2> HIDE DEF distance
  <2> QED
    BY DEF Resources, StaticRoute, Resource
<1> HIDE DEF distance, k
<1>4. Range(Rows(k)) = {distance}
  BY <1>1, Rows1
<1>5. Attr(k) = {"admin_distance"}
  BY <1>2, <1>4 DEF Attr
<1>6. Row(k, "admin_distance") = distance
  BY <1>4, <1>5, RowOfAttr
<1> QED
  BY <1>2, <1>3, <1>5, <1>6 DEF k

\* The models of a resource with one row.
LEMMA OneRowModels ==
    ASSUME NEW k, Len(Rows(k)) = 1
    PROVE  Models(k) \subseteq { [NoModel(k) EXCEPT ![Rows(k)[1].attr] = w] : w \in Rows(k)[1].wants }
<1> DEFINE rows == Rows(k)
           more(s, i) == { [m EXCEPT ![rows[i].attr] = w] : m \in s, w \in rows[i].wants }
           upTo[i \in 0..Len(rows)] ==
             IF i = 0 THEN {NoModel(k)}
             ELSE { [m EXCEPT ![rows[i].attr] = w] : m \in upTo[i - 1], w \in rows[i].wants }
           is(f) == f = [i \in 0..Len(rows) |->
                           IF i = 0 THEN {NoModel(k)}
                           ELSE { [m EXCEPT ![rows[i].attr] = w] : m \in f[i - 1], w \in rows[i].wants }]
<1>1. Models(k) \subseteq upTo[Len(rows)]
  BY DEF Models
<1>2. \E f : is(f)
  <2> DEFINE g == [i \in 0..Len(rows) |-> IF i = 0 THEN {NoModel(k)} ELSE more({NoModel(k)}, i)]
  <2>1. \A i \in 0..Len(rows) : i # 0 => i = 1 /\ g[i - 1] = {NoModel(k)}
    OBVIOUS
  <2>2. is(g)
    <3> HIDE DEF g, more
    <3>1. \A i \in 0..Len(rows) :
             (IF i = 0 THEN {NoModel(k)} ELSE more({NoModel(k)}, i)) =
             (IF i = 0 THEN {NoModel(k)} ELSE more(g[i - 1], i))
      BY <2>1
    <3> QED
      BY <3>1 DEF g, more
  <2> HIDE DEF is
  <2> QED
    BY <2>2
<1>3. upTo = CHOOSE f : is(f)
  OBVIOUS
<1> HIDE DEF is, upTo
<1>4. is(upTo)
  BY <1>2, <1>3, Zenon
<1>5. upTo[0] = {NoModel(k)} /\ upTo[1] = more(upTo[0], 1)
  <2>1. 0 \in 0..Len(rows) /\ 1 \in 0..Len(rows) /\ 1 # 0 /\ 1 - 1 = 0
    OBVIOUS
  <2>2. upTo[1] = IF 1 = 0 THEN {NoModel(k)} ELSE more(upTo[1 - 1], 1)
    BY <1>4, <2>1 DEF is
  <2>3. upTo[0] = {NoModel(k)}
    BY <1>4, <2>1 DEF is
  <2> QED
    BY <2>1, <2>2, <2>3
<1> QED
  BY <1>1, <1>5

LEMMA StaticRouteModels == Models("static_route") \subseteq Distances
<1> DEFINE k == "static_route"
           distance == [Required("admin_distance", {"1"} \cup Text) EXCEPT
                           !.initial = {"1"}, !.empty = {"1"}]
<1>1. Rows(k) = << distance >> /\ Len(Rows(k)) = 1 /\ Rows(k)[1] = distance
  BY DEF Rows, Resources, StaticRoute, Resource
<1>2. /\ distance.attr = "admin_distance"
      /\ distance.wants = { {v} : v \in {"1"} \cup Text }
  BY DEF Required
<1> HIDE DEF distance
<1>3. Models(k) \subseteq { [NoModel(k) EXCEPT !["admin_distance"] = w] :
                                w \in { {v} : v \in {"1"} \cup Text } }
  <2> HIDE DEF k
  <2>1. Models(k) \subseteq { [NoModel(k) EXCEPT ![Rows(k)[1].attr] = w] : w \in Rows(k)[1].wants }
    BY <1>1, OneRowModels
  <2>2. Rows(k)[1].attr = "admin_distance" /\ Rows(k)[1].wants = { {v} : v \in {"1"} \cup Text }
    BY <1>1, <1>2
  <2> QED
    BY <2>1, <2>2
<1>4. NoModel(k) = [a \in {"admin_distance"} |-> {}]
  BY StaticRouteTable DEF NoModel
<1>5. \A v \in {"1"} \cup Text : [NoModel(k) EXCEPT !["admin_distance"] = {v}] \in Distances
  BY <1>4 DEF Distances
<1> QED
  BY <1>3, <1>5

-----------------------------------------------------------------------------
(***************************************************************************)
(* A read that gives exactly the wanted model has seen the wanted values.  *)
(***************************************************************************)
Filled(r) == DOMAIN r.val = {"admin_distance"} /\ r.val["admin_distance"] # {}

LEMMA ReadShowsAll ==
    ASSUME NEW had, kind \in ReadInFull, want # Absent, Present(kind, running),
           UpdateModelFromInfo(kind, running, had) = want,
           kind = "static_route" => Filled(running)
    PROVE  Configured(running)
<1> SUFFICES ASSUME NEW a \in Attr(kind) PROVE running.val[a] = want[a]
  BY DEF Configured
<1> DEFINE row == Row(kind, a)
<1>1. /\ Plain(row)
      /\ kind # "static_route" => row.empty = {}
  BY RowOfAttr, RowsReadInFull
<1>2. InUse(kind, row, running.val)
  BY <1>1 DEF Plain, InUse
<1>3. want[a] = ReadValue(row, running.val[a], had[a])
  <2>1. want[a] = IF Present(kind, running) /\ ~InUse(kind, row, running.val) THEN had[a]
                  ELSE ReadValue(row, IF Present(kind, running) THEN running.val[a] ELSE {}, had[a])
    BY DEF UpdateModelFromInfo
  <2> QED
    BY <1>2, <2>1
<1> HIDE DEF row
<1>4. want[a] = IF running.val[a] = {} THEN row.empty ELSE running.val[a]
  BY <1>1, <1>3 DEF ReadValue, Plain
<1>5. CASE kind = "static_route"
  <2>1. a = "admin_distance"
    BY <1>5, StaticRouteTable
  <2> QED
    BY <1>4, <1>5, <2>1 DEF Filled
<1>6. CASE kind # "static_route"
  BY <1>1, <1>4, <1>6
<1> QED
  BY <1>5, <1>6

-----------------------------------------------------------------------------
(***************************************************************************)
(* The inductive invariant: between runs there is nothing to send, a       *)
(* report is never older than the last step of a run, and Create and       *)
(* Update have something to write; a static route has a distance wherever  *)
(* there is one, because each of its commands writes one.                  *)
(***************************************************************************)
Resting   == op \in {"none", "save", "resave"} => todo = <<>>
Reporting == verdict \in {"no changes", "applied", "saved"} => op = "none"
Asked     == op \in {"create", "update"} => want # Absent

Distanced ==
    kind = "static_route" =>
        /\ Filled(running) /\ Filled(startup)
        /\ want # Absent => want \in Distances
        /\ \/ todo \in {<<>>, <<Command("destroy", "all", {})>>}
           \/ want # Absent /\ todo = <<Command("line", "all", want)>>

LInv == /\ kind \in ReadInFull /\ Resting /\ Reporting /\ Asked /\ Distanced
        /\ CleanPlanMeansConfigured

\* The batches of a static route are one command each.
LEMMA StaticRouteBatches ==
    /\ \A how, old, plan : BuildCommands("static_route", how, old, plan)
                             = <<Command("line", "all", plan)>>
    /\ DeleteCommands("static_route") = <<Command("destroy", "all", {})>>
  BY StaticRouteTable DEF BuildCommands, DeleteCommands

\* Each of its commands leaves a distance, and so does a change by hand.
LEMMA DistanceWritten ==
    /\ \A r, m : m \in Distances => Filled(Exec("static_route", r, Command("line", "all", m)))
    /\ \A r : Filled(Exec("static_route", r, Command("destroy", "all", {})))
    /\ Filled(Missing("static_route"))
<1> DEFINE k == "static_route"
<1>1. Initial(k) = [a \in {"admin_distance"} |-> {"1"}]
  BY StaticRouteTable DEF Initial
<1>2. Missing(k).val = Initial(k)
  BY DEF Missing
<1>3. Filled(Missing(k))
  BY <1>1, <1>2 DEF Filled
<1>4. \A r : Exec(k, r, Command("destroy", "all", {})) = Missing(k)
  BY DEF Exec, Command
<1>5. ASSUME NEW r, NEW m \in Distances
      PROVE  Filled(Exec(k, r, Command("line", "all", m)))
  <2>1. Exec(k, r, Command("line", "all", m)) = [exists |-> TRUE, val |-> m]
    BY DEF Exec, Command
  <2>2. DOMAIN m = {"admin_distance"} /\ m["admin_distance"] # {}
    BY DEF Distances
  <2> QED
    BY <2>1, <2>2 DEF Filled
<1> QED
  BY <1>3, <1>4, <1>5

LEMMA InitLInv == Init /\ kind \in ReadInFull => LInv
<1> SUFFICES ASSUME Init, kind \in ReadInFull PROVE LInv
  OBVIOUS
<1>1. kind = "static_route" => Filled(running) /\ Filled(startup) /\ want \in Distances
  BY DistanceWritten, StaticRouteModels DEF Init
<1> QED
  BY <1>1 DEF Init, LInv, Resting, Reporting, Asked, Distanced, CleanPlanMeansConfigured

\* A run starts: Read, then the plan.
LEMMA StepRefresh ==
    ASSUME LInv, Refresh
    PROVE  LInv'
<1>1. /\ op = "none" /\ kind' = kind /\ want' = want /\ running' = running
      /\ startup' = startup /\ kind \in ReadInFull /\ todo = <<>>
      /\ state' = Read /\ Plan(Read)
  BY DEF Refresh, LInv, fileVars, switchVars, Resting
<1>2. Configured(running)' <=> Configured(running)
  BY <1>1 DEF Configured
<1>3. Distanced /\ (kind = "static_route" => Filled(running) /\ Filled(startup))
  BY DEF LInv, Distanced
<1>4. \/ /\ Read = want /\ op' = "none" /\ todo' = <<>> /\ verdict' = "no changes"
      \/ op' = "resave" /\ todo' = <<>> /\ verdict' = "none"
      \/ /\ want # Absent /\ op' = "create" /\ verdict' = "none"
         /\ todo' = BuildCommands(kind, "create", NoModel(kind), want)
      \/ /\ op' = "delete" /\ verdict' = "none" /\ todo' = DeleteCommands(kind)
      \/ /\ want # Absent /\ op' = "update" /\ verdict' = "none"
         /\ todo' = BuildCommands(kind, "update", Read, want)
  BY <1>1 DEF Plan, Clean, Stop, BeginCreate
<1>5. Resting' /\ Reporting' /\ Asked' /\ kind' \in ReadInFull
  BY <1>1, <1>4 DEF LInv, Resting, Reporting, Asked
<1>6. Distanced'
  <2> SUFFICES ASSUME kind = "static_route"
               PROVE  \/ todo' \in {<<>>, <<Command("destroy", "all", {})>>}
                      \/ want # Absent /\ todo' = <<Command("line", "all", want)>>
    BY <1>1, <1>3 DEF Distanced, Filled
  <2> QED
    BY <1>4, StaticRouteBatches
<1>7. CleanPlanMeansConfigured'
  <2> SUFFICES ASSUME Read = want, want # Absent PROVE Configured(running)
    BY <1>1, <1>2, <1>4 DEF CleanPlanMeansConfigured
  <2>1. Present(kind, running) /\ UpdateModelFromInfo(kind, running, state) = want
    BY DEF Read
  <2> QED
    BY <1>1, <1>3, <2>1, ReadShowsAll
<1> QED
  BY <1>5, <1>6, <1>7 DEF LInv

LEMMA StepLInv == LInv /\ [Next]_vars => LInv'
<1> SUFFICES ASSUME LInv, [Next]_vars PROVE LInv'
  OBVIOUS
<1>1. kind \in ReadInFull /\ Resting /\ Reporting /\ Asked /\ Distanced /\ CleanPlanMeansConfigured
  BY DEF LInv
<1> USE DEF fileVars, stateVars, switchVars, runVars
<1>2. CASE Refresh
  BY <1>2, StepRefresh
<1>3. CASE RefreshRefused \/ OperationFails
  <2>1. /\ op' = "none" /\ todo' = <<>> /\ verdict' = "failed"
        /\ UNCHANGED <<kind, want, running, startup>>
    BY <1>3 DEF RefreshRefused, OperationFails, Stop
  <2> QED
    BY <1>1, <2>1
    DEF LInv, Resting, Reporting, Asked, Distanced, Filled, CleanPlanMeansConfigured
<1>4. CASE SendCommand
  <2>1. /\ todo # <<>> /\ running' = Exec(kind, running, Head(todo)) /\ todo' = Tail(todo)
        /\ UNCHANGED <<kind, want, startup, op, verdict>>
    BY <1>4 DEF SendCommand
  <2>2. op # "none" /\ verdict \notin {"no changes", "applied", "saved"}
    BY <1>1, <2>1 DEF Resting, Reporting
  <2>3. Distanced'
    <3> SUFFICES ASSUME kind = "static_route" PROVE Filled(running)' /\ todo' = <<>>
      BY <1>1, <2>1 DEF Distanced, Filled
    <3>1. \A c : Head(<<c>>) = c /\ Tail(<<c>>) = <<>>
      OBVIOUS
    <3>2. CASE todo = <<Command("destroy", "all", {})>>
      <4>1. running' = Exec("static_route", running, Command("destroy", "all", {}))
        BY <2>1, <3>1, <3>2
      <4> QED
        BY <2>1, <3>1, <3>2, <4>1, DistanceWritten DEF Filled
    <3>3. CASE want # Absent /\ todo = <<Command("line", "all", want)>>
      <4>1. running' = Exec("static_route", running, Command("line", "all", want))
        BY <2>1, <3>1, <3>3
      <4>2. want \in Distances
        BY <1>1, <3>3 DEF Distanced
      <4> QED
        BY <2>1, <3>1, <3>3, <4>1, <4>2, DistanceWritten DEF Filled
    <3> QED
      BY <1>1, <2>1, <3>2, <3>3 DEF Distanced
  <2> QED
    BY <1>1, <2>1, <2>2, <2>3
    DEF LInv, Resting, Reporting, Asked, CleanPlanMeansConfigured
<1>5. CASE Written
  <2>1. /\ op \in {"create", "update"} /\ want # Absent
        /\ \/ op' = "none" /\ todo' = <<>> /\ verdict' \in {"applied", "failed"}
           \/ op' = "save" /\ todo' = <<>> /\ verdict' = "none"
        /\ UNCHANGED <<kind, want, running, startup>>
    BY <1>1, <1>5 DEF Written, Succeed, Stop, Asked
  <2> QED
    BY <1>1, <2>1
    DEF LInv, Resting, Reporting, Asked, Distanced, Filled, CleanPlanMeansConfigured
<1>6. CASE NotFoundAfterWrite
  <2>1. /\ op' = "none" /\ todo' = <<>> /\ verdict' = "failed"
        /\ UNCHANGED <<kind, want, running, startup>>
    BY <1>6 DEF NotFoundAfterWrite, Stop
  <2> QED
    BY <1>1, <2>1
    DEF LInv, Resting, Reporting, Asked, Distanced, Filled, CleanPlanMeansConfigured
<1>7. CASE Deleted
  <2>1. /\ \/ op' = "none" /\ todo' = <<>> /\ verdict' = "applied"
           \/ op' = "save" /\ todo' = <<>> /\ verdict' = "none"
           \/ /\ want # Absent /\ op' = "create" /\ verdict' = "none"
              /\ todo' = BuildCommands(kind, "create", NoModel(kind), want)
        /\ UNCHANGED <<kind, want, running, startup>>
    BY <1>7 DEF Deleted, Succeed, Stop, BeginCreate
  <2>2. Distanced'
    <3> SUFFICES ASSUME kind = "static_route"
                 PROVE  \/ todo' = <<>>
                        \/ want # Absent /\ todo' = <<Command("line", "all", want)>>
      BY <1>1, <2>1 DEF Distanced, Filled
    <3> QED
      BY <2>1, StaticRouteBatches
  <2> QED
    BY <1>1, <2>1, <2>2
    DEF LInv, Resting, Reporting, Asked, CleanPlanMeansConfigured
<1>8. CASE Save
  <2>1. /\ op' = "none" /\ todo' = <<>> /\ verdict' \in {"applied", "saved"} /\ startup' = running
        /\ UNCHANGED <<kind, want, running>>
    BY <1>8 DEF Save, Stop
  <2> QED
    BY <1>1, <2>1
    DEF LInv, Resting, Reporting, Asked, Distanced, Filled, CleanPlanMeansConfigured
<1>9. CASE \E w \in Models(kind) \cup {Absent} : Edit(w)
  <2>1. PICK w \in Models(kind) \cup {Absent} : Edit(w)
    BY <1>9
  <2>2. /\ op = "none" /\ want' = w /\ verdict' = "none"
        /\ UNCHANGED <<kind, running, startup, op, todo>>
    BY <2>1 DEF Edit
  <2>3. kind = "static_route" /\ w # Absent => w \in Distances
    BY <2>1, StaticRouteModels
  <2> QED
    BY <1>1, <2>2, <2>3
    DEF LInv, Resting, Reporting, Asked, Distanced, Filled, CleanPlanMeansConfigured
<1>10. CASE EditTriggers
  <2>1. UNCHANGED <<kind, want, running, startup, op, todo, verdict>>
    BY <1>10 DEF EditTriggers
  <2> QED
    BY <1>1, <2>1
    DEF LInv, Resting, Reporting, Asked, Distanced, Filled, CleanPlanMeansConfigured, Configured
<1>11. CASE ImportState
  <2>1. verdict' = "none" /\ UNCHANGED <<kind, want, running, startup, op, todo>>
    BY <1>11 DEF ImportState
  <2> QED
    BY <1>1, <2>1
    DEF LInv, Resting, Reporting, Asked, Distanced, Filled, CleanPlanMeansConfigured
<1>12. CASE Drift
  <2>1. verdict' = "none" /\ UNCHANGED <<kind, want, startup, op, todo>>
    BY <1>12 DEF Drift
  <2>2. kind = "static_route" => Filled(running)'
    <3> SUFFICES ASSUME kind = "static_route" PROVE Filled(running)'
      OBVIOUS
    <3>1. CASE running' = Missing(kind)
      BY <3>1, DistanceWritten DEF Filled
    <3>2. CASE \E a \in Attr(kind) : \E v \in Row(kind, a).wants \cup {Row(kind, a).initial} :
                  running' = [exists |-> TRUE, val |-> [running.val EXCEPT ![a] = v]]
      <4>1. PICK v \in { {u} : u \in {"1"} \cup Text } \cup {{"1"}} :
               running' = [exists |-> TRUE, val |-> [running.val EXCEPT !["admin_distance"] = v]]
        BY <3>2, StaticRouteTable
      <4>2. v # {} /\ DOMAIN running.val = {"admin_distance"}
        BY <1>1 DEF Distanced, Filled
      <4> QED
        BY <4>1, <4>2 DEF Filled
    <3> QED
      BY <1>12, <3>1, <3>2 DEF Drift
  <2> QED
    BY <1>1, <2>1, <2>2
    DEF LInv, Resting, Reporting, Asked, Distanced, Filled, CleanPlanMeansConfigured
<1>13. CASE Reboot
  <2>1. verdict' = "none" /\ running' = startup /\ UNCHANGED <<kind, want, startup, op, todo>>
    BY <1>13 DEF Reboot
  <2> QED
    BY <1>1, <2>1
    DEF LInv, Resting, Reporting, Asked, Distanced, Filled, CleanPlanMeansConfigured
<1>14. CASE Redo
  <2>1. /\ op \in {"create", "update", "delete"}
        /\ UNCHANGED <<kind, want, running, startup, op, verdict>>
        /\ op = "create" => todo' = BuildCommands(kind, "create", NoModel(kind), want)
        /\ op = "update" => todo' = BuildCommands(kind, "update", state, want)
        /\ op = "delete" => todo' = DeleteCommands(kind)
    BY <1>14 DEF Redo
  <2>2. verdict \notin {"no changes", "applied", "saved"}
    BY <1>1, <2>1 DEF Reporting
  <2>3. Distanced'
    <3> SUFFICES ASSUME kind = "static_route"
                 PROVE  \/ todo' = <<Command("destroy", "all", {})>>
                        \/ want # Absent /\ todo' = <<Command("line", "all", want)>>
      BY <1>1, <2>1 DEF Distanced, Filled
    <3> QED
      BY <1>1, <2>1, StaticRouteBatches DEF Asked
  <2> QED
    BY <1>1, <2>1, <2>2, <2>3
    DEF LInv, Resting, Reporting, Asked, CleanPlanMeansConfigured
<1>15. CASE UNCHANGED vars
  <2>1. UNCHANGED <<kind, want, running, startup, op, todo, verdict>>
    BY <1>15 DEF vars
  <2> QED
    BY <1>1, <2>1
    DEF LInv, Resting, Reporting, Asked, Distanced, Filled, CleanPlanMeansConfigured, Configured
<1> QED
  BY <1>2, <1>3, <1>4, <1>5, <1>6, <1>7, <1>8, <1>9, <1>10, <1>11, <1>12, <1>13, <1>14, <1>15
  DEF Next, Terraform, Environment

(***************************************************************************)
(* Drift detection, for every history of the resources whose Read takes    *)
(* each attribute from the switch: a plan without changes is the truth.    *)
(***************************************************************************)
THEOREM CleanPlanIsTrue == Spec => []DriftIsDetected
<1> DEFINE Inv == kind \in ReadInFull => LInv
<1>1. Init => Inv
  BY InitLInv
<1>2. Inv /\ [Next]_vars => Inv'
  <2>1. ASSUME [Next]_vars PROVE kind' = kind
    BY <2>1 DEF Next, Terraform, Environment, Refresh, RefreshRefused, SendCommand, Written,
       NotFoundAfterWrite, Deleted, Save, Edit, EditTriggers, ImportState, Drift, Reboot, Redo,
       OperationFails, vars, fileVars
  <2> QED
    BY <2>1, StepLInv
<1>3. Inv => DriftIsDetected
  BY DEF LInv, DriftIsDetected
<1> QED
  BY <1>1, <1>2, <1>3, PTL DEF Spec

(***************************************************************************)
(* The read-back: what Terraform accepts after a Create or Update is what  *)
(* the switch has, however it was changed while the batch was running.     *)
(***************************************************************************)
THEOREM AcceptedIsTrue ==
    ASSUME Kinds \subseteq ReadInFull
    PROVE  Spec => AcceptedMeansConfigured
<1>0. Init => LInv
  BY InitLInv DEF Init
<1>1. LInv /\ [Next]_vars => LInv'
  BY StepLInv
<1>2. LInv /\ [Next]_vars =>
        [(Written /\ verdict' # "failed" /\ Resources[kind].verified /\ Present(kind, running))
           => Configured(running)]_vars
  <2> SUFFICES ASSUME LInv, Written, verdict' # "failed", Resources[kind].verified,
                      Present(kind, running)
               PROVE  Configured(running)
    OBVIOUS
  <2>1. ReadBack = want /\ op \in {"create", "update"}
    BY DEF Written, Stop
  <2>2. want # Absent /\ kind \in ReadInFull
    BY <2>1 DEF LInv, Asked
  <2>3. UpdateModelFromInfo(kind, running, want) = want
    BY <2>1 DEF ReadBack
  <2> QED
    BY <2>2, <2>3, ReadShowsAll DEF LInv, Distanced
<1> QED
  BY <1>0, <1>1, <1>2, PTL DEF Spec, AcceptedMeansConfigured

-----------------------------------------------------------------------------
(***************************************************************************)
(* The inductive invariant for a destroy: the batch is the one "no" or     *)
(* "default" command, and once it has been sent the switch is as it came   *)
(* until the run has ended.                                                *)
(***************************************************************************)
Erasing ==
    op = "delete" => \/ todo = <<Command("destroy", "all", {})>>
                     \/ todo = <<>> /\ running = Missing(kind)
Erased == (op = "save" \/ verdict = "applied") /\ want = Absent => running = Missing(kind)

EInv == /\ kind \in Kinds /\ spent \in [Event -> Nat]
        /\ Resting /\ Reporting /\ Asked /\ Erasing /\ Erased

LEMMA InitEInv == Init => EInv
  BY DEF Init, EInv, Resting, Reporting, Asked, Erasing, Erased

\* One event more.
LEMMA Counted ==
    ASSUME NEW e \in Event, spent \in [Event -> Nat], Happens(e)
    PROVE  spent' \in [Event -> Nat]
  BY DEF Happens

LEMMA StepEInv ==
    ASSUME Budget["drift"] = 0, EInv, [Next]_vars
    PROVE  EInv'
<1>1. /\ kind \in Kinds /\ spent \in [Event -> Nat]
      /\ Resting /\ Reporting /\ Asked /\ Erasing /\ Erased
  BY DEF EInv
<1>2. \A e \in Event : Happens(e) => spent' \in [Event -> Nat]
  BY <1>1, Counted
<1>3. /\ "edit" \in Event /\ "fail" \in Event /\ "redo" \in Event /\ "reboot" \in Event
       /\ "import" \in Event
  BY DEF Event
<1> USE DEF fileVars, stateVars, switchVars, runVars
<1>4. CASE Refresh
  <2>1. /\ kind' = kind /\ want' = want /\ running' = running /\ spent' = spent
        /\ \/ op' = "none" /\ todo' = <<>> /\ verdict' = "no changes"
           \/ op' = "resave" /\ todo' = <<>> /\ verdict' = "none"
           \/ want # Absent /\ op' = "create" /\ verdict' = "none"
           \/ op' = "delete" /\ verdict' = "none" /\ todo' = DeleteCommands(kind)
           \/ want # Absent /\ op' = "update" /\ verdict' = "none"
    BY <1>4 DEF Refresh, Plan, Clean, Stop, BeginCreate
  <2>2. op' = "delete" => todo' = <<Command("destroy", "all", {})>>
    BY <1>1, <2>1 DEF DeleteCommands
  <2> QED
    BY <1>1, <2>1, <2>2 DEF EInv, Resting, Reporting, Asked, Erasing, Erased
<1>5. CASE RefreshRefused \/ NotFoundAfterWrite
  <2>1. /\ op' = "none" /\ todo' = <<>> /\ verdict' = "failed"
        /\ kind' = kind /\ spent' = spent
    BY <1>5 DEF RefreshRefused, NotFoundAfterWrite, Stop
  <2> QED
    BY <1>1, <2>1 DEF EInv, Resting, Reporting, Asked, Erasing, Erased
<1>6. CASE OperationFails
  <2>1. /\ op' = "none" /\ todo' = <<>> /\ verdict' = "failed"
        /\ kind' = kind /\ spent' \in [Event -> Nat]
    BY <1>6, <1>2, <1>3 DEF OperationFails, Stop
  <2> QED
    BY <1>1, <2>1 DEF EInv, Resting, Reporting, Asked, Erasing, Erased
<1>7. CASE SendCommand
  <2>1. /\ todo # <<>> /\ running' = Exec(kind, running, Head(todo)) /\ todo' = Tail(todo)
        /\ UNCHANGED <<kind, want, op, verdict, spent>>
    BY <1>7 DEF SendCommand
  <2>2. op # "none" /\ verdict # "applied"
    BY <1>1, <2>1 DEF Resting, Reporting
  <2>3. op \notin {"save", "resave"}
    BY <1>1, <2>1 DEF Resting
  <2>4. ASSUME op = "delete" PROVE todo' = <<>> /\ running' = Missing(kind)
    <3>1. todo = <<Command("destroy", "all", {})>>
      BY <1>1, <2>1, <2>4 DEF Erasing
    <3>2. Head(todo) = Command("destroy", "all", {}) /\ Tail(todo) = <<>>
      BY <3>1
    <3>3. Exec(kind, running, Command("destroy", "all", {})) = Missing(kind)
      BY DEF Exec, Command
    <3> QED
      BY <2>1, <3>2, <3>3
  <2>5. Erasing' /\ Erased'
    BY <2>1, <2>2, <2>3, <2>4 DEF Erasing, Erased
  <2> QED
    BY <1>1, <2>1, <2>2, <2>5 DEF EInv, Resting, Reporting, Asked
<1>8. CASE Written
  <2>1. /\ want # Absent /\ kind' = kind /\ want' = want /\ spent' = spent
        /\ \/ op' = "none" /\ todo' = <<>>
           \/ op' = "save" /\ todo' = <<>> /\ verdict' = "none"
    BY <1>1, <1>8 DEF Written, Succeed, Stop, Asked
  <2> QED
    BY <1>1, <2>1 DEF EInv, Resting, Reporting, Asked, Erasing, Erased
<1>9. CASE Deleted
  <2>1. /\ op = "delete" /\ todo = <<>> /\ kind' = kind /\ want' = want /\ spent' = spent
        /\ running' = running
        /\ \/ op' = "none" /\ todo' = <<>>
           \/ op' = "save" /\ todo' = <<>> /\ verdict' = "none"
           \/ want # Absent /\ op' = "create" /\ verdict' = "none"
    BY <1>9 DEF Deleted, Succeed, Stop, BeginCreate
  <2>2. running = Missing(kind)
    BY <1>1, <2>1 DEF Erasing
  <2>4. Erased'
    BY <2>1, <2>2 DEF Erased
  <2> QED
    BY <1>1, <2>1, <2>4 DEF EInv, Resting, Reporting, Asked, Erasing
<1>10. CASE Save
  <2>1. /\ op' = "none" /\ todo' = <<>> /\ (verdict' = "applied" => op = "save")
        /\ UNCHANGED <<kind, want, running, spent>>
    BY <1>10 DEF Save, Stop
  <2>2. Erased'
    BY <1>1, <2>1 DEF Erased
  <2> QED
    BY <1>1, <2>1, <2>2 DEF EInv, Resting, Reporting, Asked, Erasing
<1>11. CASE (\E w \in Models(kind) \cup {Absent} : Edit(w)) \/ ImportState \/ Reboot
  <2>1. /\ op = "none" /\ verdict' = "none" /\ UNCHANGED <<kind, op, todo>>
        /\ spent' \in [Event -> Nat]
    BY <1>11, <1>2, <1>3 DEF Edit, ImportState, Reboot
  <2> QED
    BY <1>1, <2>1 DEF EInv, Resting, Reporting, Asked, Erasing, Erased
<1>12. CASE EditTriggers
  <2>1. /\ UNCHANGED <<kind, want, running, op, todo, verdict>>
        /\ spent' \in [Event -> Nat]
    BY <1>12, <1>2, <1>3 DEF EditTriggers
  <2> QED
    BY <1>1, <2>1 DEF EInv, Resting, Reporting, Asked, Erasing, Erased
<1>13. CASE Drift
  <2>1. spent["drift"] < Budget["drift"] /\ spent["drift"] \in Nat
    BY <1>1, <1>13 DEF Drift, Happens, Event
  <2> QED
    BY <2>1
<1>14. CASE Redo
  <2>1. /\ op \in {"create", "update", "delete"}
        /\ UNCHANGED <<kind, want, running, op, verdict>>
        /\ op = "delete" => todo' = DeleteCommands(kind)
        /\ spent' \in [Event -> Nat]
    BY <1>14, <1>2, <1>3 DEF Redo
  <2>2. op = "delete" => todo' = <<Command("destroy", "all", {})>>
    BY <1>1, <2>1 DEF DeleteCommands
  <2>3. verdict \notin {"no changes", "applied", "saved"}
    BY <1>1, <2>1 DEF Reporting
  <2> QED
    BY <1>1, <2>1, <2>2, <2>3 DEF EInv, Resting, Reporting, Asked, Erasing, Erased
<1>15. CASE UNCHANGED vars
  <2>1. UNCHANGED <<kind, want, running, op, todo, verdict, spent>>
    BY <1>15 DEF vars
  <2> QED
    BY <1>1, <2>1 DEF EInv, Resting, Reporting, Asked, Erasing, Erased
<1> QED
  BY <1>4, <1>5, <1>6, <1>7, <1>8, <1>9, <1>10, <1>11, <1>12, <1>13, <1>14, <1>15
  DEF Next, Terraform, Environment

(***************************************************************************)
(* A successful destroy leaves the switch as it was before there was such  *)
(* a resource, for every resource, the parts written by operations that    *)
(* failed included, while nobody changes the switch by hand.               *)
(***************************************************************************)
THEOREM DestroyLeavesNothing ==
    ASSUME Budget["drift"] = 0
    PROVE  Spec => []DestroyedMeansGone
<1>1. EInv /\ [Next]_vars => EInv'
  BY StepEInv
<1>2. EInv => DestroyedMeansGone
  BY DEF EInv, Erased, DestroyedMeansGone, Configured
<1> QED
  BY <1>1, <1>2, InitEInv, PTL DEF Spec

=============================================================================
