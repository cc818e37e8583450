------------------------------ MODULE AclProofs ------------------------------
(***************************************************************************)
(* Proofs about AclPolicy, for any rules, any lengths of their lists and   *)
(* any number of edits, failures, refusals and re-executed batches.        *)
(***************************************************************************)
EXTENDS AclPolicy, SequenceTheorems, TLAPS

(***************************************************************************)
(* The inductive invariant: a destroy is under way only while the file has *)
(* no policy, its batch is the one removal, and once that has been sent    *)
(* the switch has no list.  A re-executed batch starts again with the      *)
(* removal, so it cannot end without it.                                   *)
(***************************************************************************)
Removing ==
    op = "delete" => /\ todo \in {<<RemoveList>>, <<>>}
                     /\ todo = <<>> => list = NoList

\* A report of success is never older than the last change of the file, and
\* what is being written is a list: the file has a policy.
Reported == verdict = "applied" => op = "none"
Idle     == op = "none" => todo = <<>>
Writing  == op \in {"create", "remove", "rewrite"} => want # Absent

DInv == Removing /\ Reported /\ Idle /\ Writing /\ DeletedMeansGone

\* Removing a list leaves none.
LEMMA RemovalRemoves ==
    ASSUME NEW l PROVE Exec(l, RemoveList) = NoList
  BY DEF Exec, RemoveList

\* The batch of Delete is not empty, and removing is its only command.
LEMMA RemovalBatch ==
    /\ <<RemoveList>> # <<>>
    /\ Head(<<RemoveList>>) = RemoveList
    /\ Tail(<<RemoveList>>) = <<>>
  OBVIOUS

LEMMA InitDInv == Init => DInv
  BY DEF Init, DInv, Removing, Reported, Idle, Writing, DeletedMeansGone

LEMMA StepDInv == DInv /\ [Next]_vars => DInv'
<1> SUFFICES ASSUME DInv, [Next]_vars PROVE DInv'
  OBVIOUS
<1> USE DEF DInv, Removing, Reported, Idle, Writing, DeletedMeansGone
<1>1. CASE \E w \in RuleLists \cup {Absent} : Edit(w)
  BY <1>1 DEF Edit
<1>2. CASE Drift
  BY <1>2 DEF Drift
<1>4. CASE Refresh \/ PlanWithoutRefresh
  <2>1. PICK s : Plan(s)
    BY <1>4 DEF Refresh, PlanWithoutRefresh
  <2>2. op = "none" /\ UNCHANGED want
    BY <1>4 DEF Refresh, PlanWithoutRefresh
  <2>3. CASE Stop("no changes")
    BY <2>2, <2>3 DEF Stop
  <2>4. CASE want # Absent /\ Start("create", ApplyACL(want))
    BY <2>2, <2>4 DEF Start
  <2>5. CASE Start("delete", <<RemoveList>>)
    BY <2>2, <2>5, RemovalBatch DEF Start
  <2>6. CASE want # Absent /\ StartUpdate
    BY <2>2, <2>6 DEF StartUpdate, Start
  <2> QED
    BY <2>1, <2>3, <2>4, <2>5, <2>6 DEF Plan
<1>5. CASE SendCommand
  <2>1. todo # <<>> /\ list' = Exec(list, Head(todo)) /\ todo' = Tail(todo)
        /\ op' = op /\ verdict' = verdict /\ want' = want
    BY <1>5 DEF SendCommand
  <2>2. CASE op = "delete"
    <3>1. todo = <<RemoveList>>
      BY <2>1, <2>2
    <3>2. list' = NoList /\ todo' = <<>>
      BY <2>1, <3>1, RemovalBatch, RemovalRemoves
    <3> QED
      BY <2>1, <2>2, <3>2
  <2>3. CASE op # "delete"
    BY <2>1, <2>3
  <2> QED
    BY <2>2, <2>3
<1>6. CASE Redo
  <2>1. op # "none" /\ op' = op /\ list' = list /\ verdict' = verdict /\ want' = want
    BY <1>6 DEF Redo
  <2>2. op = "delete" => todo' = <<RemoveList>>
    BY <1>6 DEF Redo
  <2> QED
    BY <2>1, <2>2, RemovalBatch
<1>7. CASE Removed
  BY <1>7 DEF Removed, StartRewrite, Start
<1>8. CASE BatchFails
  BY <1>8 DEF BatchFails, Stop
<1>9. CASE Written
  BY <1>9 DEF Written, Stop
<1>10. CASE Deleted
  BY <1>10 DEF Deleted, Stop
<1>11. CASE UNCHANGED vars
  BY <1>11 DEF vars
<1> QED
  BY <1>1, <1>2, <1>4, <1>5, <1>6, <1>7, <1>8, <1>9, <1>10, <1>11 DEF Next

(***************************************************************************)
(* A Delete that succeeds leaves no list of that name on the switch: it    *)
(* reports success only when its removal has been executed or the switch   *)
(* has no such list.                                                       *)
(***************************************************************************)
THEOREM DestroyRemovesList == Spec => []DeletedMeansGone
<1>1. Init => DInv
  BY InitDInv
<1>2. DInv /\ [Next]_vars => DInv'
  BY StepDInv
<1>3. DInv => DeletedMeansGone
  BY DEF DInv
<1> QED
  BY <1>1, <1>2, <1>3, PTL DEF Spec

-----------------------------------------------------------------------------
(***************************************************************************)
(* The batch that writes a list.                                           *)
(***************************************************************************)
\* The lists of rules are sequences, the empty one among them.
LEMMA RuleListsType ==
    /\ \A s \in RuleLists : /\ s \in Seq(Rule) /\ Len(s) \in 0..MaxRules
                            /\ DOMAIN s = 1..Len(s)
    /\ <<>> \in RuleLists /\ Absent \notin RuleLists
  <1>1. ASSUME NEW s \in RuleLists
        PROVE  s \in Seq(Rule) /\ Len(s) \in 0..MaxRules /\ DOMAIN s = 1..Len(s)
    <2>1. PICK m \in 0..MaxRules : s \in [1..m -> Rule]
      BY DEF RuleLists, SeqOf
    <2>2. m \in Nat /\ DOMAIN s = 1..m
      BY <2>1, RulesAssumption
    <2>3. s \in Seq(Rule)
      BY <2>1, <2>2, SeqDef
    <2>4. Len(s) = m
      BY <2>2, <2>3, LenProperties
    <2> QED
      BY <2>1, <2>2, <2>3, <2>4
  <1>2. <<>> \in RuleLists
    <2>1. <<>> \in [1..0 -> Rule] /\ DOMAIN <<>> = {}
      OBVIOUS
    <2>2. 0 \in 0..MaxRules
      BY RulesAssumption
    <2>3. IsInjective(<<>>)
      BY <2>1 DEF IsInjective
    <2> QED
      BY <2>1, <2>2, <2>3 DEF RuleLists, SeqOf
  <1>3. Absent \notin RuleLists
    BY NamesAssumption DEF RuleLists
  <1> QED
    BY <1>1, <1>2, <1>3

\* applyACL enters the list and then writes rule i with the number 10 * i.
LEMMA ApplyCommands ==
    ASSUME NEW s \in RuleLists
    PROVE  /\ Len(ApplyACL(s)) = Len(s) + 1 /\ ApplyACL(s)[1] = EnterList
           /\ \A i \in 1..Len(s) : ApplyACL(s)[i + 1] = Line(i, s)
           /\ DOMAIN ApplyACL(s) = 1..(Len(s) + 1)
  <1>1. s \in Seq(Rule) /\ Len(s) \in Nat /\ DOMAIN s = 1..Len(s)
    BY RuleListsType
  <1> DEFINE C == {EnterList} \cup { Line(i, s) : i \in DOMAIN s }
             t == [i \in DOMAIN s |-> Line(i, s)]
             u == <<EnterList>>
  <1>2. t \in [1..Len(s) -> C]
    BY <1>1
  <1>3. t \in Seq(C) /\ Len(t) = Len(s)
    <2>1. t \in Seq(C)
      BY <1>1, <1>2, SeqDef
    <2>2. DOMAIN t = 1..Len(s)
      BY <1>1
    <2> QED
      BY <1>1, <2>1, <2>2, LenProperties
  <1>4. u \in Seq(C) /\ Len(u) = 1 /\ u[1] = EnterList
    OBVIOUS
  <1>5. \A i \in 1..Len(s) : t[i] = Line(i, s)
    BY <1>1
  <1>6. ApplyACL(s) = u \o t
    BY DEF ApplyACL
  <1> HIDE DEF C, t, u
  <1>7. /\ u \o t \in Seq(C) /\ Len(u \o t) = Len(u) + Len(t)
        /\ \A i \in 1..(Len(u) + Len(t)) :
              (u \o t)[i] = IF i <= Len(u) THEN u[i] ELSE t[i - Len(u)]
    <2>1. t \in Seq(C) /\ u \in Seq(C)
      BY <1>3, <1>4
    <2> HIDE <1>3, <1>4
    <2> QED
      BY <2>1, ConcatProperties
  <1>8. DOMAIN (u \o t) = 1..Len(u \o t)
    BY <1>7, LenProperties
  <1>9. \A i \in 1..Len(s) : i + 1 \in 1..(Len(u) + Len(t)) /\ ~(i + 1 <= Len(u))
                             /\ i + 1 - Len(u) = i
    BY <1>1, <1>3, <1>4
  <1>10. (u \o t)[1] = EnterList
    BY <1>1, <1>3, <1>4, <1>7
  <1> QED
    BY <1>1, <1>3, <1>4, <1>5, <1>6, <1>7, <1>8, <1>9, <1>10

(***************************************************************************)
(* The inductive invariant for what is written.  todo is the end of the    *)
(* batch that applyACL builds for want, Sent of whose commands have been   *)
(* executed since the batch was last started; a list entered is there.     *)
(***************************************************************************)
Batch == ApplyACL(want)
Sent  == Len(want) + 1 - Len(todo)

Remaining ==
    op \in {"create", "rewrite"} =>
        /\ todo \in Seq({ Batch[i] : i \in DOMAIN Batch })
        /\ Len(todo) <= Len(want) + 1
        /\ \A j \in DOMAIN todo : todo[j] = Batch[Sent + j]
        /\ Sent >= 1 => list # NoList

\* The batch started on a switch without the list: Update's removal was
\* executed.
Pure == op = "rewrite" /\ spent["refuse"] = 0

(***************************************************************************)
(* Then whatever is on the list is a line of want at its own number, and   *)
(* the lines sent are there: a line that a re-executed batch finds taken   *)
(* is refused because the same line holds the number.                      *)
(***************************************************************************)
Lines(s, k) == { <<10 * i, s[i]>> : i \in { j \in DOMAIN s : j <= k } }
Building ==
    Pure => \/ list = NoList
            \/ list \subseteq Exact(want) /\ Lines(want, Sent - 1) \subseteq list

\* The first batch of Update.
Clearing ==
    op = "remove" => /\ todo \in {<<RemoveList>>, <<>>}
                     /\ todo = <<>> => list = NoList
Destroying == op = "delete" => want = Absent

Types == TypeOK /\ spent \in [Event -> Nat]
AInv  == DInv /\ Types /\ Remaining /\ Building /\ Clearing /\ Destroying

-----------------------------------------------------------------------------
\* A batch that has just been (re)started: nothing of it has been sent.
LEMMA Started ==
    ASSUME NEW s \in RuleLists
    PROVE  /\ ApplyACL(s) \in Seq({ ApplyACL(s)[i] : i \in DOMAIN ApplyACL(s) })
           /\ Len(s) + 1 - Len(ApplyACL(s)) = 0
           /\ Lines(s, -1) = {} /\ ApplyACL(s) # <<>>
  <1> DEFINE b == ApplyACL(s)
  <1>1. Len(s) \in Nat /\ Len(b) = Len(s) + 1 /\ DOMAIN b = 1..(Len(s) + 1)
    BY RuleListsType, ApplyCommands
  <1>2. DOMAIN s = 1..Len(s)
    BY RuleListsType
  <1>3. b \in [1..(Len(s) + 1) -> { b[i] : i \in DOMAIN b }]
    <2>1. \E S : b \in Seq(S)
      <3>1. s \in Seq(Rule) /\ DOMAIN s = 1..Len(s)
        BY RuleListsType
      <3> DEFINE C == {EnterList} \cup { Line(i, s) : i \in DOMAIN s }
      <3>2. [i \in DOMAIN s |-> Line(i, s)] \in [1..Len(s) -> C]
        BY <3>1
      <3>3. [i \in DOMAIN s |-> Line(i, s)] \in Seq(C) /\ <<EnterList>> \in Seq(C)
        BY <1>1, <3>2, SeqDef
      <3>4. b \in Seq(C)
        <4> HIDE DEF C
        <4> QED
          BY <3>3, ConcatProperties DEF ApplyACL
      <3> QED
        BY <3>4
    <2>2. PICK S : b \in Seq(S)
      BY <2>1
    <2>3. b \in [1..Len(b) -> S]
      BY <2>2, LenProperties
    <2> HIDE DEF b
    <2> QED
      BY <1>1, <2>3
  <1>4. b \in Seq({ b[i] : i \in DOMAIN b })
    <2> HIDE DEF b
    <2>1. Len(s) + 1 \in Nat
      BY <1>1
    <2> QED
      BY <1>3, <2>1, SeqDef
  <1>5. Lines(s, -1) = {}
    BY <1>1, <1>2 DEF Lines
  <1>6. b # <<>>
    BY <1>1
  <1> QED
    BY <1>1, <1>4, <1>5, <1>6

(***************************************************************************)
(* One command of the batch: the rest of it is its end again, and a list   *)
(* of lines of want keeps only lines of want.                              *)
(***************************************************************************)
LEMMA OneCommand ==
    ASSUME NEW s \in RuleLists, NEW C, NEW t \in Seq(C), t # <<>>,
           Len(t) <= Len(s) + 1,
           \A j \in DOMAIN t : t[j] = ApplyACL(s)[Len(s) + 1 - Len(t) + j]
    PROVE  /\ Tail(t) \in Seq(C) /\ Len(Tail(t)) = Len(t) - 1 /\ Len(t) \in Nat \ {0}
           /\ \A j \in DOMAIN Tail(t) :
                  Tail(t)[j] = ApplyACL(s)[Len(s) + 1 - Len(Tail(t)) + j]
           /\ Len(t) = Len(s) + 1 => Head(t) = EnterList
           /\ Len(t) <= Len(s) =>
                  /\ Len(s) + 1 - Len(t) \in 1..Len(s)
                  /\ Head(t) = Line(Len(s) + 1 - Len(t), s)
  <1>1. Len(s) \in Nat
    BY RuleListsType
  <1>2. Len(t) \in Nat /\ DOMAIN t = 1..Len(t)
    BY LenProperties
  <1>3. Len(t) \in Nat \ {0}
    BY EmptySeq
  <1>4. /\ Tail(t) \in Seq(C) /\ Len(Tail(t)) = Len(t) - 1
        /\ \A i \in 1..Len(Tail(t)) : Tail(t)[i] = t[i + 1]
    BY HeadTailProperties
  <1>5. Head(t) = t[1] /\ DOMAIN Tail(t) = 1..(Len(t) - 1)
    BY <1>3, <1>4, LenProperties
  <1>6. \A j \in DOMAIN Tail(t) :
            Tail(t)[j] = ApplyACL(s)[Len(s) + 1 - Len(Tail(t)) + j]
    <2> SUFFICES ASSUME NEW j \in DOMAIN Tail(t)
                 PROVE  Tail(t)[j] = ApplyACL(s)[Len(s) + 1 - Len(Tail(t)) + j]
      OBVIOUS
    <2>1. j + 1 \in DOMAIN t /\ Tail(t)[j] = t[j + 1]
      BY <1>2, <1>3, <1>4, <1>5
    <2>2. Len(s) + 1 - Len(t) + (j + 1) = Len(s) + 1 - Len(Tail(t)) + j
      BY <1>1, <1>2, <1>4, <1>5
    <2> QED
      BY <2>1, <2>2
  <1>7. Head(t) = ApplyACL(s)[Len(s) + 1 - Len(t) + 1]
    BY <1>2, <1>3, <1>5
  <1>8. Len(t) = Len(s) + 1 => Head(t) = EnterList
    <2>1. Len(t) = Len(s) + 1 => Len(s) + 1 - Len(t) + 1 = 1
      BY <1>1
    <2> QED
      BY <1>7, <2>1, ApplyCommands
  <1>9. Len(t) <= Len(s) => /\ Len(s) + 1 - Len(t) \in 1..Len(s)
                            /\ Head(t) = Line(Len(s) + 1 - Len(t), s)
    <2>1. Len(t) <= Len(s) => Len(s) + 1 - Len(t) \in 1..Len(s)
      BY <1>1, <1>3
    <2> QED
      BY <1>7, <2>1, ApplyCommands
  <1> QED
    BY <1>3, <1>4, <1>6, <1>8, <1>9

-----------------------------------------------------------------------------
\* The values of list when there is one.
Numbered == SUBSET ({ 10 * i : i \in 1..MaxRules } \X Rule)

LEMMA NumberedIsAList == {} \in Numbered /\ NoList \notin Numbered
  BY NamesAssumption DEF Numbered

\* Entering makes the list be there and keeps what is on it.
LEMMA Entering ==
    ASSUME NEW l, l = NoList \/ l \in Numbered
    PROVE  /\ Exec(l, EnterList) \in Numbered
           /\ Exec(l, EnterList) # NoList
           /\ l # NoList => Exec(l, EnterList) = l
           /\ l = NoList => Exec(l, EnterList) = {}
  <1>1. Exec(l, EnterList) = IF l = NoList THEN {} ELSE l
    BY DEF Exec, EnterList
  <1> QED
    BY <1>1, NumberedIsAList

\* A line keeps the numbers those of positions.
LEMMA LineStays ==
    ASSUME NEW s \in RuleLists, NEW k \in 1..Len(s), NEW l \in Numbered
    PROVE  Exec(l, Line(k, s)) \in Numbered
  <1>1. s \in [1..Len(s) -> Rule] /\ Len(s) \in 0..MaxRules
    BY RuleListsType, LenProperties
  <1>2. s[k] \in Rule /\ k \in 1..MaxRules
    BY <1>1, RulesAssumption
  <1>3. Exec(l, Line(k, s)) = IF \E e \in l : e[1] = k * 10 \/ e[2] = s[k] THEN l
                              ELSE l \cup {<<k * 10, s[k]>>}
    BY DEF Exec, Line
  <1>4. k * 10 = 10 * k
    BY <1>2, RulesAssumption
  <1>5. {<<k * 10, s[k]>>} \in Numbered
    BY <1>2, <1>4 DEF Numbered
  <1> QED
    BY <1>3, <1>5 DEF Numbered

\* Line k of s on a list of lines of s that has the lines before it.
LEMMA LineWritten ==
    ASSUME NEW s \in RuleLists, NEW k \in 1..Len(s), NEW l,
           l \subseteq Exact(s), Lines(s, k - 1) \subseteq l
    PROVE  /\ Exec(l, Line(k, s)) \subseteq Exact(s)
           /\ Lines(s, k) \subseteq Exec(l, Line(k, s))
  <1>1. DOMAIN s = 1..Len(s) /\ Len(s) \in Nat /\ k \in Nat
    BY RuleListsType
  <1>2. Exec(l, Line(k, s)) = IF \E e \in l : e[1] = k * 10 \/ e[2] = s[k] THEN l
                              ELSE l \cup {<<k * 10, s[k]>>}
    BY DEF Exec, Line
  <1>3. k * 10 = 10 * k
    BY <1>1
  <1>4. <<k * 10, s[k]>> \in Exact(s)
    BY <1>1, <1>3 DEF Exact
  <1>5. \A e \in l : e[1] = k * 10 \/ e[2] = s[k] => e = <<k * 10, s[k]>>
    <2> SUFFICES ASSUME NEW e \in l, e[1] = k * 10 \/ e[2] = s[k]
                 PROVE  e = <<k * 10, s[k]>>
      OBVIOUS
    <2>1. PICK i \in DOMAIN s : e = <<10 * i, s[i]>>
      BY DEF Exact
    <2>2. i = k
      BY <1>1, <1>3, <2>1 DEF RuleLists, IsInjective
    <2> QED
      BY <1>3, <2>1, <2>2
  <1>6. <<k * 10, s[k]>> \in Exec(l, Line(k, s)) /\ l \subseteq Exec(l, Line(k, s))
    BY <1>2, <1>5
  <1>7. Lines(s, k) \subseteq Lines(s, k - 1) \cup {<<k * 10, s[k]>>}
    <2> SUFFICES ASSUME NEW i \in DOMAIN s, i <= k
                 PROVE  <<10 * i, s[i]>> \in Lines(s, k - 1) \cup {<<k * 10, s[k]>>}
      BY DEF Lines
    <2>1. CASE i = k
      BY <1>3, <2>1
    <2>2. CASE i <= k - 1
      BY <2>2 DEF Lines
    <2> QED
      BY <1>1, <2>1, <2>2
  <1>8. Exec(l, Line(k, s)) \subseteq Exact(s)
    BY <1>2, <1>4
  <1> QED
    BY <1>6, <1>7, <1>8

\* A whole batch: every line of s and nothing else.
LEMMA AllLines ==
    ASSUME NEW s \in RuleLists
    PROVE  Lines(s, Len(s)) = Exact(s)
  <1>1. \A j \in DOMAIN s : j <= Len(s)
    BY RuleListsType
  <1> QED
    BY <1>1 DEF Lines, Exact

-----------------------------------------------------------------------------
LEMMA InitAInv == Init => AInv
<1> SUFFICES ASSUME Init PROVE AInv
  OBVIOUS
<1>1. DInv
  BY InitDInv
<1>2. Types
  BY BudgetAssumption DEF Init, Types, TypeOK
<1>3. Remaining /\ Building /\ Clearing /\ Destroying
  BY DEF Init, Remaining, Building, Pure, Clearing, Destroying
<1> QED
  BY <1>1, <1>2, <1>3 DEF AInv

\* One event more.
LEMMA EventHappens ==
    ASSUME NEW e \in Event, spent \in [Event -> Nat],
           \A f \in Event : spent[f] \in 0..Budget[f], Happens(e)
    PROVE  /\ spent' \in [Event -> Nat]
           /\ \A f \in Event : spent'[f] \in 0..Budget[f]
           /\ spent'[e] # 0
           /\ \A f \in Event : f # e => spent'[f] = spent[f]
  <1>1. spent' = [spent EXCEPT ![e] = spent[e] + 1] /\ spent[e] < Budget[e]
    BY DEF Happens
  <1>2. spent[e] \in Nat /\ Budget[e] \in Nat
    BY BudgetAssumption
  <1>3. spent'[e] = spent[e] + 1 /\ \A f \in Event : f # e => spent'[f] = spent[f]
    BY <1>1
  <1>4. spent' \in [Event -> Nat]
    BY <1>1, <1>2
  <1>5. spent'[e] \in 0..Budget[e] /\ spent'[e] # 0
    BY <1>1, <1>2, <1>3
  <1> QED
    BY <1>3, <1>4, <1>5

-----------------------------------------------------------------------------
LEMMA StepTypes == AInv /\ [Next]_vars => Types'
<1> SUFFICES ASSUME AInv, [Next]_vars PROVE Types'
  OBVIOUS
<1>1. /\ TypeOK /\ spent \in [Event -> Nat]
      /\ \A e \in Event : spent[e] \in 0..Budget[e]
  BY DEF AInv, Types, TypeOK
<1>2. /\ "edit" \in Event /\ "fail" \in Event /\ "refuse" \in Event /\ "redo" \in Event
      /\ "drift" \in Event
  BY DEF Event
<1> USE DEF Types, TypeOK
<1>3. CASE \E w \in RuleLists \cup {Absent} : Edit(w)
  <2>1. Happens("edit")
    BY <1>3 DEF Edit
  <2>2. spent' \in [Event -> Nat] /\ \A f \in Event : spent'[f] \in 0..Budget[f]
    BY <1>1, <1>2, <2>1, EventHappens
  <2> QED
    BY <1>1, <1>3, <2>2 DEF Edit
<1>4. CASE Drift
  <2>1. Happens("drift")
    BY <1>4 DEF Drift
  <2>2. spent' \in [Event -> Nat] /\ \A f \in Event : spent'[f] \in 0..Budget[f]
    BY <1>1, <1>2, <2>1, EventHappens
  <2>3. list' = NoList \/ list' \subseteq { 10 * i : i \in 1..MaxRules } \X Rule
    BY <1>1, <1>4 DEF Drift
  <2> QED
    BY <1>1, <1>4, <2>2, <2>3 DEF Drift
<1>6. CASE Refresh \/ PlanWithoutRefresh
  <2>1. state' \in {Absent, state} /\ UNCHANGED <<want, list, spent>>
    BY <1>6 DEF Refresh, PlanWithoutRefresh, Read
  <2>2. PICK s : Plan(s)
    BY <1>6 DEF Refresh, PlanWithoutRefresh
  <2>3. /\ op' \in {"none", "create", "delete", "remove"}
        /\ verdict' \in {"none", "no changes"}
    BY <2>2 DEF Plan, Start, Stop, StartUpdate
  <2> QED
    BY <1>1, <2>1, <2>3
<1>7. CASE SendCommand
  <2>1. /\ todo # <<>> /\ list' = Exec(list, Head(todo))
        /\ UNCHANGED <<want, state, op, verdict, spent>>
    BY <1>7 DEF SendCommand
  <2>2. list = NoList \/ list \in Numbered
    BY <1>1 DEF Numbered
  <2>3. op # "none"
    BY <2>1 DEF AInv, DInv, Idle
  <2>4. CASE op \in {"remove", "delete"}
    <3>1. Head(todo) = RemoveList
      BY <2>1, <2>4, RemovalBatch DEF AInv, DInv, Removing, Clearing
    <3>2. list' = NoList
      BY <2>1, <3>1, RemovalRemoves
    <3> QED
      BY <1>1, <2>1, <3>2
  <2>5. CASE op \in {"create", "rewrite"}
    <3>1. want \in RuleLists
      BY <1>1, <2>5 DEF AInv, DInv, Writing
    <3> DEFINE C == { Batch[i] : i \in DOMAIN Batch }
    <3>2. /\ todo \in Seq(C) /\ Len(todo) <= Len(want) + 1
          /\ \A j \in DOMAIN todo : todo[j] = ApplyACL(want)[Len(want) + 1 - Len(todo) + j]
          /\ Sent >= 1 => list # NoList
      BY <2>5 DEF AInv, Remaining, Batch, Sent
    <3>3. /\ Len(todo) \in Nat \ {0} /\ Len(want) \in Nat
          /\ Len(todo) = Len(want) + 1 => Head(todo) = EnterList
          /\ Len(todo) <= Len(want) =>
                /\ Len(want) + 1 - Len(todo) \in 1..Len(want)
                /\ Head(todo) = Line(Len(want) + 1 - Len(todo), want)
      <4> HIDE DEF C
      <4> QED
        BY <2>1, <3>1, <3>2, OneCommand, RuleListsType
    <3>4. list' = NoList \/ list' \in Numbered
      <4>1. CASE Len(todo) = Len(want) + 1
        BY <2>1, <2>2, <3>3, <4>1, Entering
      <4>2. CASE Len(todo) <= Len(want)
        <5>1. list \in Numbered
          BY <2>2, <3>2, <3>3, <4>2 DEF Sent
        <5> QED
          BY <2>1, <3>1, <3>3, <4>2, <5>1, LineStays
      <4> QED
        BY <3>2, <3>3, <4>1, <4>2
    <3> QED
      BY <1>1, <2>1, <3>4 DEF Numbered
  <2> QED
    BY <1>1, <2>3, <2>4, <2>5
<1>8. CASE Redo
  <2>1. Happens("redo")
    BY <1>8 DEF Redo
  <2>2. spent' \in [Event -> Nat] /\ \A f \in Event : spent'[f] \in 0..Budget[f]
    BY <1>1, <1>2, <2>1, EventHappens
  <2> QED
    BY <1>1, <1>8, <2>2 DEF Redo
<1>9. CASE Removed
  <2>1. spent' \in [Event -> Nat] /\ \A f \in Event : spent'[f] \in 0..Budget[f]
    BY <1>1, <1>2, <1>9, EventHappens DEF Removed
  <2> QED
    BY <1>1, <1>9, <2>1 DEF Removed, StartRewrite, Start
<1>10. CASE BatchFails
  <2>1. Happens("fail")
    BY <1>10 DEF BatchFails
  <2>2. spent' \in [Event -> Nat] /\ \A f \in Event : spent'[f] \in 0..Budget[f]
    BY <1>1, <1>2, <2>1, EventHappens
  <2> QED
    BY <1>1, <1>10, <2>2 DEF BatchFails, Stop
<1>11. CASE Written
  BY <1>1, <1>11 DEF Written, Stop
<1>12. CASE Deleted
  BY <1>1, <1>12 DEF Deleted, Stop
<1>13. CASE UNCHANGED vars
  BY <1>1, <1>13 DEF vars
<1> QED
  BY <1>3, <1>4, <1>6, <1>7, <1>8, <1>9, <1>10, <1>11, <1>12, <1>13 DEF Next

-----------------------------------------------------------------------------
\* Create and rewrite start with a whole batch.
LEMMA StartedBatch ==
    ASSUME want' = want, want \in RuleLists, todo' = ApplyACL(want)
    PROVE  /\ todo' \in Seq({ Batch'[i] : i \in DOMAIN Batch' })
           /\ Len(todo') <= Len(want') + 1
           /\ \A j \in DOMAIN todo' : todo'[j] = Batch'[Sent' + j]
           /\ Sent' = 0 /\ Lines(want', Sent' - 1) = {}
  <1>1. Batch' = ApplyACL(want)
    BY DEF Batch
  <1>2. Len(want) \in Nat /\ Len(ApplyACL(want)) = Len(want) + 1
    BY RuleListsType, ApplyCommands
  <1>3. Sent' = 0
    BY <1>2 DEF Sent
  <1>4. Sent' - 1 = -1
    BY <1>3
  <1>5. Lines(want', Sent' - 1) = {}
    BY <1>4, Started
  <1>6. \A j \in DOMAIN todo' : Sent' + j = j
    BY <1>2, <1>3, ApplyCommands
  <1> QED
    BY <1>1, <1>2, <1>3, <1>5, <1>6, Started

\* The parts of the invariant that a step out of a batch disturbs.
LEMMA StepIdle ==
    ASSUME AInv, Types', DInv', op = "none",
           \/ \E w \in RuleLists \cup {Absent} : Edit(w)
           \/ Drift \/ Refresh \/ PlanWithoutRefresh
    PROVE  Remaining' /\ Building' /\ Clearing' /\ Destroying'
<1>1. /\ TypeOK /\ spent \in [Event -> Nat]
      /\ todo = <<>>
      /\ \A e \in Event : spent[e] \in 0..Budget[e]
  BY DEF AInv, Types, TypeOK, DInv, Idle
<1>2. CASE (\E w \in RuleLists \cup {Absent} : Edit(w)) \/ Drift
  <2>1. op' = "none"
    BY <1>2 DEF Edit, Drift
  <2> QED
    BY <2>1 DEF Remaining, Building, Pure, Clearing, Destroying
<1>3. CASE Refresh \/ PlanWithoutRefresh
  <2>1. PICK s : Plan(s)
    BY <1>3 DEF Refresh, PlanWithoutRefresh
  <2>2. want' = want
    BY <1>3 DEF Refresh, PlanWithoutRefresh
  <2>3. CASE Stop("no changes")
    BY <2>3 DEF Stop, Remaining, Building, Pure, Clearing, Destroying
  <2>4. CASE want # Absent /\ Start("create", ApplyACL(want))
    <3>1. want \in RuleLists /\ op' = "create" /\ todo' = ApplyACL(want)
      BY <1>1, <2>4 DEF TypeOK, Start
    <3>2. Remaining'
      BY <2>2, <3>1, StartedBatch DEF Remaining
    <3> QED
      BY <3>1, <3>2 DEF Building, Pure, Clearing, Destroying
  <2>5. CASE want = Absent /\ Start("delete", <<RemoveList>>)
    BY <2>2, <2>5 DEF Start, Remaining, Building, Pure, Clearing, Destroying
  <2>6. CASE StartUpdate
    BY <2>6, RemovalBatch
    DEF StartUpdate, Start, Remaining, Building, Pure, Clearing, Destroying
  <2> QED
    BY <2>1, <2>3, <2>4, <2>5, <2>6 DEF Plan
<1> QED
  BY <1>2, <1>3

\* One command reaches the switch.
LEMMA StepSend ==
    ASSUME AInv, SendCommand
    PROVE  Remaining' /\ Building' /\ Clearing' /\ Destroying'
<1>1. /\ todo # <<>> /\ list' = Exec(list, Head(todo)) /\ todo' = Tail(todo)
      /\ want' = want /\ state' = state /\ op' = op /\ verdict' = verdict /\ spent' = spent
  BY DEF SendCommand
<1>2. TypeOK /\ op # "none" /\ verdict # "applied"
  BY <1>1 DEF AInv, Types, DInv, Idle, Reported
<1>3. Destroying'
  BY <1>1, <1>2 DEF AInv, Destroying
<1>4. CASE op \notin {"create", "rewrite"}
  <2>1. Remaining' /\ Building'
    BY <1>1, <1>4 DEF Remaining, Building, Pure
  <2>2. Clearing'
    <3>1. SUFFICES ASSUME op = "remove" PROVE Clearing'
      BY <1>1 DEF Clearing
    <3>2. todo = <<RemoveList>>
      BY <1>1, <3>1 DEF AInv, Clearing
    <3>3. list' = NoList /\ todo' = <<>>
      BY <1>1, <3>2, RemovalBatch, RemovalRemoves
    <3> QED
      BY <3>3 DEF Clearing
  <2> QED
    BY <1>3, <2>1, <2>2
<1>5. CASE op \in {"create", "rewrite"}
  <2>1. want \in RuleLists /\ Len(want) \in Nat
    <3>1. want # Absent
      BY <1>5 DEF AInv, DInv, Writing
    <3>2. want \in RuleLists
      BY <1>2, <3>1 DEF TypeOK
    <3>3. want \in Seq(Rule)
      BY <3>2, RuleListsType
    <3> QED
      BY <3>2, <3>3, LenProperties
  <2> DEFINE C == { Batch[i] : i \in DOMAIN Batch }
             k == Sent
  <2>2. /\ todo \in Seq(C) /\ Len(todo) <= Len(want) + 1
        /\ \A j \in DOMAIN todo : todo[j] = ApplyACL(want)[Len(want) + 1 - Len(todo) + j]
        /\ k >= 1 => list # NoList
    <3>1. /\ todo \in Seq(C) /\ Len(todo) <= Len(want) + 1
          /\ \A j \in DOMAIN todo : todo[j] = Batch[Sent + j]
          /\ Sent >= 1 => list # NoList
      BY <1>5 DEF AInv, Remaining
    <3> HIDE DEF C
    <3> QED
      BY <3>1 DEF Batch, Sent
  <2>3. /\ Tail(todo) \in Seq(C) /\ Len(Tail(todo)) = Len(todo) - 1 /\ Len(todo) \in Nat \ {0}
        /\ \A j \in DOMAIN Tail(todo) :
               Tail(todo)[j] = ApplyACL(want)[Len(want) + 1 - Len(Tail(todo)) + j]
        /\ Len(todo) = Len(want) + 1 => Head(todo) = EnterList
        /\ Len(todo) <= Len(want) =>
               /\ Len(want) + 1 - Len(todo) \in 1..Len(want)
               /\ Head(todo) = Line(Len(want) + 1 - Len(todo), want)
    <3> HIDE DEF C
    <3> QED
      BY <1>1, <2>1, <2>2, OneCommand
  <2>4. /\ Batch' = Batch /\ { Batch'[i] : i \in DOMAIN Batch' } = C
        /\ Lines(want', Sent' - 1) = Lines(want, Sent' - 1) /\ Exact(want') = Exact(want)
    BY <1>1 DEF Batch
  <2> HIDE DEF C
  <2>5. /\ Len(todo) \in Nat \ {0} /\ Len(todo') = Len(todo) - 1
         /\ Len(todo) <= Len(want) + 1
    BY <1>1, <2>2, <2>3
  <2>6. Sent' = k + 1 /\ k \in Nat /\ k = Len(want) + 1 - Len(todo)
    BY <1>1, <2>1, <2>5 DEF Sent
  <2> HIDE DEF k
  <2>7. list = NoList \/ list \in Numbered
    BY <1>2 DEF TypeOK, Numbered
  <2>8. ASSUME k = 0
        PROVE  list' # NoList
               /\ (Pure' => list' \subseteq Exact(want) /\ Lines(want, Sent' - 1) \subseteq list')
    <3>1. Head(todo) = EnterList
      <4>1. Len(todo) = Len(want) + 1
        BY <2>1, <2>8, <2>6, <2>5
      <4> QED
        BY <2>3, <4>1
    <3>2. /\ list' # NoList
          /\ list # NoList => list' = list
          /\ list = NoList => list' = {}
      BY <1>1, <2>7, <3>1, Entering
    <3>3. Lines(want, 0) = {}
      BY <2>1, RuleListsType DEF Lines
    <3>4. Pure' => list' \subseteq Exact(want) /\ Lines(want, Sent' - 1) \subseteq list'
      <4>1. Pure' => Pure
        BY <1>1 DEF Pure
      <4>2. Sent' - 1 = 0
        BY <2>8, <2>6
      <4>3. Pure => list = NoList \/ list \subseteq Exact(want)
        BY DEF AInv, Building
      <4>4. Lines(want, Sent' - 1) = {}
        BY <3>3, <4>2
      <4> QED
        BY <3>2, <4>1, <4>3, <4>4
    <3> QED
      BY <1>1, <3>2, <3>4
  <2>9. ASSUME k >= 1
        PROVE  list' # NoList
               /\ (Pure' => list' \subseteq Exact(want) /\ Lines(want, Sent' - 1) \subseteq list')
    <3>1. k \in 1..Len(want) /\ Head(todo) = Line(k, want) /\ list \in Numbered
      <4>1. Len(todo) <= Len(want)
        BY <2>1, <2>9, <2>6, <2>5
      <4>2. list # NoList
        BY <2>2, <2>9, <2>6 DEF k
      <4> QED
        BY <2>3, <2>7, <2>6, <4>1, <4>2
    <3>2. list' # NoList
      BY <1>1, <2>1, <3>1, LineStays, NumberedIsAList
    <3>3. Pure' => list' \subseteq Exact(want) /\ Lines(want, Sent' - 1) \subseteq list'
      <4>1. Pure' => Pure
        BY <1>1 DEF Pure
      <4>2. Sent' - 1 = k
        BY <2>6
      <4>3. Pure => list \subseteq Exact(want) /\ Lines(want, k - 1) \subseteq list
        BY <2>2, <2>9, <2>6 DEF AInv, Building, k
      <4>4. Pure => list' \subseteq Exact(want) /\ Lines(want, k) \subseteq list'
        <5> QED
          BY <1>1, <2>1, <3>1, <4>3, LineWritten
      <4> QED
        BY <1>1, <4>1, <4>2, <4>4
    <3> QED
      BY <3>2, <3>3
  <2>10. list' # NoList
        /\ (Pure' => list' \subseteq Exact(want) /\ Lines(want, Sent' - 1) \subseteq list')
    BY <2>8, <2>9, <2>6
  <2>11. Building'
    BY <2>4, <2>10 DEF Building
  <2>12. Remaining'
    <3>1. \A j \in DOMAIN todo' : todo'[j] = Batch[Sent' + j]
      BY <1>1, <2>3 DEF Sent, Batch
    <3>2. \A j \in DOMAIN todo' : todo'[j] = Batch'[Sent' + j]
      BY <2>4, <3>1
    <3>3. Len(todo') <= Len(want') + 1
      BY <1>1, <2>1, <2>5
    <3> QED
      BY <1>1, <2>3, <2>4, <2>10, <3>2, <3>3 DEF Remaining
  <2>13. Clearing'
    BY <1>1, <1>5 DEF Clearing
  <2> QED
    BY <1>3, <2>11, <2>12, <2>13
<1> QED
  BY <1>4, <1>5

\* The other steps of a batch: it starts again, ends, or leads to the next.
LEMMA StepBatch ==
    ASSUME AInv, DInv', \/ Redo \/ Removed \/ BatchFails \/ Written \/ Deleted
    PROVE  Remaining' /\ Building' /\ Clearing' /\ Destroying'
<1>1. TypeOK /\ spent \in [Event -> Nat] /\ \A e \in Event : spent[e] \in 0..Budget[e]
  BY DEF AInv, Types, TypeOK
<1>2. "fail" \in Event /\ "refuse" \in Event /\ "redo" \in Event
  BY DEF Event
<1>3. op \in {"create", "remove", "rewrite"} => want \in RuleLists
  BY <1>1 DEF TypeOK, AInv, DInv, Writing
<1>4. CASE Redo
  <2>1. /\ op' = op /\ want' = want /\ state' = state /\ list' = list /\ verdict' = verdict
        /\ op # "none" /\ Happens("redo")
        /\ todo' = IF op \in {"create", "rewrite"} THEN ApplyACL(want) ELSE <<RemoveList>>
    BY <1>4 DEF Redo
  <2>2. spent'["fail"] = spent["fail"] /\ spent'["refuse"] = spent["refuse"]
    BY <1>1, <1>2, <2>1, EventHappens
  <2>3. Clearing' /\ Destroying'
    BY <2>1, RemovalBatch DEF Clearing, AInv, Destroying
  <2>5. CASE op \in {"create", "rewrite"}
    <3>1. /\ Remaining'
          /\ Lines(want', Sent' - 1) = {}
      BY <1>3, <2>1, <2>5, StartedBatch DEF Remaining
    <3>2. Exact(want') = Exact(want)
      BY <2>1
    <3>3. Pure' => Pure
      BY <2>1, <2>2 DEF Pure
    <3>4. Building'
      BY <2>1, <3>1, <3>2, <3>3 DEF Building, AInv
    <3> QED
      BY <2>3, <3>1, <3>4
  <2>6. CASE op \notin {"create", "rewrite"}
    BY <2>1, <2>3, <2>6 DEF Remaining, Building, Pure
  <2> QED
    BY <2>5, <2>6
<1>5. CASE Removed
  <2>1. /\ op = "remove" /\ op' = "rewrite" /\ todo' = ApplyACL(want) /\ verdict' = "none"
        /\ want' = want /\ state' = state /\ list' = list
        /\ (todo = <<>> /\ spent' = spent) \/ Happens("refuse")
    BY <1>5 DEF Removed, StartRewrite, Start
  <2>2. Remaining'
    BY <1>3, <2>1, StartedBatch DEF Remaining
  <2>3. Building'
    <3>1. CASE todo = <<>>
      BY <2>1, <3>1 DEF Building, AInv, Clearing
    <3>2. CASE Happens("refuse")
      BY <1>1, <1>2, <2>1, <3>2, EventHappens DEF Building, Pure
    <3> QED
      BY <2>1, <3>1, <3>2
  <2> QED
    BY <2>1, <2>2, <2>3 DEF Clearing, Destroying
<1>6. CASE BatchFails \/ Written
  <2>1. op' = "none"
    BY <1>6 DEF BatchFails, Written, Stop
  <2> QED
    BY <2>1 DEF Remaining, Building, Pure, Clearing, Destroying
<1>8. CASE Deleted
  <2>1. op = "delete" /\ op' = "none" /\ list' = list /\ want' = want
        /\ (todo = <<>> \/ list = NoList)
    BY <1>8 DEF Deleted, Stop
  <2> QED
    BY <2>1 DEF Remaining, Building, Pure, Clearing, Destroying
<1> QED
  BY <1>4, <1>5, <1>6, <1>8

LEMMA StepAInv == AInv /\ [Next]_vars => AInv'
<1> SUFFICES ASSUME AInv, [Next]_vars PROVE AInv'
  OBVIOUS
<1>1. DInv' /\ Types'
  BY StepDInv, StepTypes DEF AInv
<1> SUFFICES Remaining' /\ Building' /\ Clearing' /\ Destroying'
  BY <1>1 DEF AInv
<1>2. CASE \/ \E w \in RuleLists \cup {Absent} : Edit(w)
           \/ Drift \/ Refresh \/ PlanWithoutRefresh
  <2>1. op = "none"
    BY <1>2 DEF Edit, Drift, Refresh, PlanWithoutRefresh
  <2> QED
    BY <1>1, <1>2, <2>1, StepIdle
<1>3. CASE SendCommand
  BY <1>3, StepSend
<1>4. CASE Redo \/ Removed \/ BatchFails \/ Written \/ Deleted
  BY <1>1, <1>4, StepBatch
<1>5. CASE UNCHANGED vars
  <2>1. Sent' = Sent /\ Batch' = Batch /\ (Pure' <=> Pure)
    BY <1>5 DEF vars, Sent, Batch, Pure
  <2>2. Remaining'
    BY <1>5, <2>1 DEF vars, AInv, Remaining
  <2>3. Lines(want', Sent' - 1) = Lines(want, Sent - 1) /\ Exact(want') = Exact(want)
    BY <1>5, <2>1 DEF vars
  <2>4. Building'
    BY <1>5, <2>1, <2>3 DEF vars, AInv, Building
  <2> QED
    BY <1>5, <2>2, <2>4, <2>3 DEF vars, AInv, Clearing, Destroying
<1> QED
  BY <1>2, <1>3, <1>4, <1>5 DEF Next

(***************************************************************************)
(* Type correctness: every number on the switch is that of a position.     *)
(***************************************************************************)
THEOREM TypeCorrect == Spec => []TypeOK
<1>1. AInv => TypeOK
  BY DEF AInv, Types
<1> QED
  BY <1>1, InitAInv, StepAInv, PTL DEF Spec

(***************************************************************************)
(* An Update whose removal was not refused leaves exactly the new rules,   *)
(* whatever failed batches had left on the switch before it.               *)
(***************************************************************************)
THEOREM UpdateIsExact == Spec => UpdateRestoresOrder
<1>1. AInv /\ [Next]_vars => [op = "rewrite" /\ Written /\ spent["refuse"] = 0
                                => list = Exact(want)]_vars
  <2> SUFFICES ASSUME AInv, op = "rewrite", Written, spent["refuse"] = 0
               PROVE  list = Exact(want)
    OBVIOUS
  <2>1. todo = <<>> /\ Pure
    BY DEF Written, Pure
  <2>2. want \in RuleLists
    BY DEF AInv, Types, TypeOK, DInv, Writing
  <2>3. Len(want) \in Nat /\ Len(todo) = 0
    BY <2>1, <2>2, RuleListsType, LenProperties
  <2>4. Sent - 1 = Len(want) /\ Sent >= 1
    BY <2>3 DEF Sent
  <2>5. list # NoList
    BY <2>4 DEF AInv, Remaining
  <2> QED
    BY <2>1, <2>2, <2>4, <2>5, AllLines DEF AInv, Building
<1> QED
  BY <1>1, InitAInv, StepAInv, PTL DEF Spec, UpdateRestoresOrder

=============================================================================
