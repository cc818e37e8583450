---------------------------- MODULE SerialClient ----------------------------
(***************************************************************************)
(* What the client promises the resources: operations that change the      *)
(* switch run one at a time; what one of them writes is its own commands,  *)
(* in their order, started again from the first at most Tries - 1 times;   *)
(* and it succeeds only with the whole list written.  No session, no mode  *)
(* and no prompt is left: this is the switch as ResourceLifecycle,         *)
(* AclPolicy and SharedSwitch see it.                                      *)
(***************************************************************************)
EXTENDS Naturals, Sequences

CONSTANTS
    Proc, NoProc,    \* the operations; nobody
    Exclusive,       \* those that hold the resource lock
    Writes,          \* Proc -> the set of positions of its commands that change the switch
    Tries            \* Proc -> how often they may be started: 1 or 2

VARIABLES
    phase,           \* idle, running, done, failed
    owner,           \* who holds the resource lock
    log              \* what the switch has executed: [by, i]

vars == <<phase, owner, log>>

Init ==
    /\ phase = [p \in Proc |-> "idle"]
    /\ owner = NoProc
    /\ log = <<>>

\* The run of p between two entries of the log: a beginning of its commands,
\* each once and in their order.
Run(p, m, n) == { j \in (m + 1)..n : log[j].by = p }
Beginning(p, m, n) ==
    /\ \A a, b \in Run(p, m, n) : a < b => log[a].i < log[b].i
    /\ \A b \in Run(p, m, n), i \in Writes[p] :
          i < log[b].i => \E a \in Run(p, m, n) : log[a].i = i

\* What an operation may have left on the switch: one beginning of its
\* commands for every time it was started.
Legal(p) ==
    \E n \in 0..Len(log) : /\ Tries[p] = 1 => n = 0
                          /\ Beginning(p, 0, n) /\ Beginning(p, n, Len(log))

\* Its last run is the whole list.
Complete(p) ==
    \E n \in 0..Len(log) : /\ Beginning(p, n, Len(log))
                          /\ { log[j].i : j \in Run(p, n, Len(log)) } = Writes[p]

-----------------------------------------------------------------------------
Begin(p) ==
    /\ phase[p] = "idle"
    /\ p \in Exclusive => owner = NoProc
    /\ phase' = [phase EXCEPT ![p] = "running"]
    /\ owner' = IF p \in Exclusive THEN p ELSE owner
    /\ UNCHANGED log

Write(p, i) ==
    /\ owner = p
    /\ log' = Append(log, [by |-> p, i |-> i])
    /\ Legal(p)'
    /\ UNCHANGED <<phase, owner>>

Leave(p, verdict) ==
    /\ phase[p] = "running"
    /\ phase' = [phase EXCEPT ![p] = verdict]
    /\ owner' = IF owner = p THEN NoProc ELSE owner
    /\ UNCHANGED log

Succeed(p) == Leave(p, "done") /\ Complete(p)
Fail(p)    == Leave(p, "failed")

Next == \E p \in Proc :
    \/ Begin(p) \/ Succeed(p) \/ Fail(p)
    \/ \E i \in Writes[p] : Write(p, i)

Spec == Init /\ [][Next]_vars

(***************************************************************************)
(* What a resource relies on: between two commands of one operation no     *)
(* other operation has written.                                            *)
(***************************************************************************)
Uninterrupted ==
    \A i, j, k \in DOMAIN log :
        i < j /\ j < k /\ log[i].by = log[k].by => log[j].by = log[i].by

\* An operation that has begun ends.
FairSpec == Spec /\ \A p \in Proc : WF_vars(Succeed(p) \/ Fail(p))

=============================================================================
