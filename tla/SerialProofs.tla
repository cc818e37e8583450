---------------------------- MODULE SerialProofs ----------------------------
(***************************************************************************)
(* A client that implements SerialClient never interleaves operations,     *)
(* whatever the operations, their commands and their retries are.          *)
(***************************************************************************)
EXTENDS SerialClient, TLAPS

Command == [by : Proc, i : UNION { Writes[p] : p \in Proc }]

TypeOK ==
    /\ phase \in [Proc -> {"idle", "running", "done", "failed"}]
    /\ log \in Seq(Command)

\* Who holds the lock runs, and who has written and still runs has held it
\* since; so nobody else has written after it.
IInv ==
    /\ TypeOK
    /\ owner # NoProc => phase[owner] = "running"
    /\ \A k \in DOMAIN log : /\ phase[log[k].by] # "idle"
                             /\ phase[log[k].by] = "running" => owner = log[k].by
    /\ \A j, k \in DOMAIN log : j < k /\ owner = log[j].by => log[k].by = owner
    /\ Uninterrupted

LEMMA WrittenByProc == TypeOK => \A k \in DOMAIN log : log[k].by \in Proc
  <1>1. TypeOK => \A k \in DOMAIN log : log[k] \in Command
    BY DEF TypeOK
  <1> QED
    BY <1>1 DEF Command

LEMMA WriteKeepsIInv ==
    ASSUME NoProc \notin Proc, IInv, NEW p \in Proc, NEW i \in Writes[p], Write(p, i)
    PROVE  IInv'
  <1> DEFINE entry == [by |-> p, i |-> i]
  <1>1. /\ owner = p /\ owner' = owner /\ phase' = phase
        /\ log' = Append(log, entry)
    BY DEF Write
  <1>2. entry \in Command /\ entry.by = p
    BY DEF Command
  <1> HIDE DEF entry
  <1>3. /\ log \in Seq(Command) /\ log' \in Seq(Command)
        /\ DOMAIN log = 1..Len(log) /\ DOMAIN log' = 1..(Len(log) + 1)
        /\ Len(log) \in Nat
        /\ log'[Len(log) + 1] = entry
        /\ \A k \in DOMAIN log : log'[k] = log[k]
    BY <1>1, <1>2 DEF IInv, TypeOK
  <1>4. TypeOK'
    BY <1>1, <1>3 DEF IInv, TypeOK
  <1>5. \A k \in DOMAIN log' : /\ (phase[log[k].by] # "idle")'
                               /\ (phase[log[k].by] = "running" => owner = log[k].by)'
    BY <1>1, <1>2, <1>3 DEF IInv
  <1>6. \A j, k \in DOMAIN log' : j < k /\ owner' = log'[j].by => log'[k].by = owner'
    BY <1>1, <1>2, <1>3 DEF IInv
  <1>7. Uninterrupted'
    BY <1>1, <1>2, <1>3 DEF IInv, Uninterrupted
  <1> QED
    BY <1>1, <1>4, <1>5, <1>6, <1>7 DEF IInv

\* The lock goes to an operation that has not written yet.
LEMMA BeginKeepsIInv ==
    ASSUME NoProc \notin Proc, IInv, NEW p \in Proc, Begin(p)
    PROVE  IInv'
  <1>1. /\ log' = log /\ phase[p] = "idle"
        /\ phase' = [phase EXCEPT ![p] = "running"]
        /\ \/ owner' = owner
           \/ owner = NoProc /\ owner' = p
    BY DEF Begin
  <1>2. TypeOK'
    BY <1>1 DEF IInv, TypeOK
  <1>3. \A k \in DOMAIN log : log[k].by \in Proc /\ log[k].by # p
    BY <1>1, WrittenByProc DEF IInv
  <1> QED
    BY <1>1, <1>2, <1>3 DEF IInv, TypeOK, Uninterrupted

LEMMA LeaveKeepsIInv ==
    ASSUME NoProc \notin Proc, IInv, NEW p \in Proc,
           NEW verdict \in {"done", "failed"}, Leave(p, verdict)
    PROVE  IInv'
  <1>1. /\ log' = log
        /\ phase' = [phase EXCEPT ![p] = verdict]
        /\ owner' = IF owner = p THEN NoProc ELSE owner
    BY DEF Leave
  <1>2. TypeOK'
    BY <1>1 DEF IInv, TypeOK
  <1>3. \A k \in DOMAIN log : log[k].by \in Proc
    BY WrittenByProc DEF IInv
  <1> QED
    BY <1>1, <1>2, <1>3 DEF IInv, TypeOK, Uninterrupted

(***************************************************************************)
(* Between two commands of one operation no other operation has written:   *)
(* what the lock of the resources (opMu) is for.                           *)
(***************************************************************************)
THEOREM OperationsAreUninterrupted ==
    ASSUME NoProc \notin Proc
    PROVE  Spec => []Uninterrupted
  <1>1. Init => IInv
    BY DEF Init, IInv, TypeOK, Uninterrupted
  <1>2. IInv /\ [Next]_vars => IInv'
    <2> SUFFICES ASSUME IInv, [Next]_vars
                 PROVE  IInv'
      OBVIOUS
    <2>1. ASSUME NEW p \in Proc, Begin(p)
          PROVE  IInv'
      BY <2>1, BeginKeepsIInv
    <2>2. ASSUME NEW p \in Proc, Succeed(p) \/ Fail(p)
          PROVE  IInv'
      BY <2>2, LeaveKeepsIInv DEF Succeed, Fail
    <2>3. ASSUME NEW p \in Proc, NEW i \in Writes[p], Write(p, i)
          PROVE  IInv'
      BY <2>3, WriteKeepsIInv
    <2>4. CASE UNCHANGED vars
      BY <2>4 DEF vars, IInv, TypeOK, Uninterrupted
    <2> QED
      BY <2>1, <2>2, <2>3, <2>4 DEF Next
  <1>3. IInv => Uninterrupted
    BY DEF IInv
  <1> QED
    BY <1>1, <1>2, <1>3, PTL DEF Spec

=============================================================================
