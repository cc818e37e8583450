-------------------------- MODULE CiscoClientProofs --------------------------
(***************************************************************************)
(* What holds of CiscoClient for any number of goroutines, any batches and *)
(* any number of faults.                                                   *)
(***************************************************************************)
EXTENDS CiscoClient, SequenceTheorems, TLAPS

\* The positions at which the client waits for an answer or has just got one.
AnswerAt == {"end", "exit", "conft", "line", "single", "banner", "enable", "paging"}

(***************************************************************************)
(* What TypeOK needs to be inductive: a call is in progress exactly while  *)
(* mu is held, a command executes only on a live session, a live session   *)
(* is in a mode that has a prompt, and the batch index starts at 1.        *)
(***************************************************************************)
WellFormed ==
    /\ mu = NoProc <=> call.at = "idle"
    /\ running # NoCommand => link = "up"
    /\ link = "up" => mode \in PromptMode
    /\ call.at = "send" => call.k >= 1
    /\ reply.tag = "awaiting" => call.at \in AnswerAt

IInv == TypeOK /\ WellFormed

USE ProcAssumption, ProgramAssumption, BoundAssumption

\* What the invariant says of the client alone.
LEMMA ClientFacts ==
    ASSUME IInv
    PROVE  /\ call \in Call /\ reply \in Reply /\ mu \in Proc \cup {NoProc}
           /\ connected \in BOOLEAN /\ currentMode \in CLIMode
           /\ spent \in [Fault -> Nat]
           /\ mu = NoProc <=> call.at = "idle"
           /\ call.at = "send" => call.k >= 1
           /\ reply.tag = "awaiting" => call.at \in AnswerAt
  BY DEF IInv, TypeOK, WellFormed

\* The calls an operation makes are calls of the client.
LEMMA CallsType ==
    ASSUME NEW p \in Proc, NEW n \in 1..Len(Calls(p))
    PROVE  Calls(p)[n] \in {"connect", "config", "show", "save"}
  <1>1. Op[p] \in Operation
    OBVIOUS
  <1>2. CASE Op[p] = "apply"
    <2>1. Calls(p) = <<"config", "show">>
      BY <1>2 DEF Calls, CallsOf
    <2> QED
      BY <2>1
  <1>3. CASE Op[p] # "apply"
    <2>1. Calls(p) \in {<<"connect">>, <<"config">>, <<"show">>, <<"save">>}
      BY <1>1, <1>3 DEF Calls, CallsOf, Operation
    <2> QED
      BY <2>1
  <1> QED
    BY <1>2, <1>3

\* What Send writes is typed, and everything but call, reply, got and toSwitch stays.
LEMMA SendType ==
    ASSUME IInv, mu \in Proc, NEW op \in SwitchOp, NEW i \in Nat,
           NEW c, Send(op, i, c)
    PROVE  /\ reply' \in {Awaiting, Lost} /\ got' = <<>>
           /\ toSwitch' \in Seq(Command)
           /\ link' = link /\ toClient' = toClient
  <1>1. [by |-> mu, op |-> op, i |-> i] \in Command
    BY DEF Command
  <1>2. Append(toSwitch, [by |-> mu, op |-> op, i |-> i]) \in Seq(Command)
    BY <1>1, AppendProperties DEF IInv, TypeOK
  <1> QED
    BY <1>2 DEF Send, IInv, TypeOK

LEMMA InitIInv == Init => IInv
  <1> SUFFICES ASSUME Init PROVE IInv
    OBVIOUS
  <1>1. NoCall \in Call
    BY DEF NoCall, Call, Position
  <1>2. NoCommand.op = "none" /\ IdleReply \in Reply
    BY DEF NoCommand, IdleReply, Reply
  <1>3. spent \in [Fault -> Nat]
    BY DEF Init
  <1>4. /\ phase \in [Proc -> {"idle", "running", "failing"} \cup Ended]
        /\ step \in [Proc -> Nat]
        /\ seen \in [Proc -> SUBSET (Command \cup {NoCommand})]
    BY DEF Init
  <1>5. got \in Seq(Chunk) /\ toClient \in Seq(Chunk) /\ toSwitch \in Seq(Command)
        /\ log \in Seq([by : Proc, i : Nat])
    BY DEF Init
  <1>6. TypeOK
    BY <1>1, <1>2, <1>3, <1>4, <1>5 DEF Init, TypeOK, CLIMode, SwitchMode
  <1>7. WellFormed
    BY DEF Init, WellFormed, NoCall, IdleReply, SwitchMode
  <1> QED
    BY <1>6, <1>7 DEF IInv

-----------------------------------------------------------------------------
(***************************************************************************)
(* The three ways a step of the client ends: it has sent a command, it has *)
(* moved on, or its call has returned.                                     *)
(***************************************************************************)
LEMMA AfterSend ==
    ASSUME IInv, mu \in Proc, NEW op \in SwitchOp, NEW i \in Nat, Send(op, i, call'),
           call' \in Call, call'.at \in AnswerAt, Stay, Frame,
           connected' \in BOOLEAN, currentMode' \in CLIMode
    PROVE  IInv'
  <1>1. /\ reply' \in {Awaiting, Lost} /\ got' = <<>>
        /\ toSwitch' \in Seq(Command) /\ link' = link /\ toClient' = toClient
    BY SendType
  <1>2. Awaiting \in Reply /\ Lost \in Reply
    BY DEF Awaiting, Lost, Reply
  <1>3. TypeOK'
    BY <1>1, <1>2 DEF IInv, TypeOK, Stay, Frame, procVars, switchVars
  <1>4. WellFormed'
    BY <1>1 DEF IInv, TypeOK, WellFormed, Stay, Frame, procVars, switchVars, AnswerAt
  <1> QED
    BY <1>3, <1>4 DEF IInv

LEMMA AfterGoTo ==
    ASSUME IInv, mu \in Proc, GoTo(call'), call' \in Call, call'.at # "idle",
           call'.at = "send" => call'.k >= 1, reply.tag # "awaiting", Stay, Frame,
           connected' \in BOOLEAN, currentMode' \in CLIMode
    PROVE  IInv'
  <1>1. TypeOK'
    BY DEF IInv, TypeOK, GoTo, Stay, Frame, procVars, switchVars, readVars, pipeVars
  <1>2. WellFormed'
    BY DEF IInv, TypeOK, WellFormed, GoTo, Stay, Frame, procVars, switchVars,
           readVars, pipeVars
  <1> QED
    BY <1>1, <1>2 DEF IInv

LEMMA AfterReturn ==
    ASSUME IInv, mu \in Proc, NEW ok \in BOOLEAN, Return(ok), UNCHANGED switchVars,
           seen' \in [Proc -> SUBSET (Command \cup {NoCommand})],
           spent' \in [Fault -> Nat],
           connected' \in BOOLEAN, currentMode' \in CLIMode
    PROVE  IInv'
  <1>1. NoCall \in Call /\ NoCall.at = "idle" /\ IdleReply \in Reply
    BY DEF NoCall, Call, Position, IdleReply, Reply
  <1>2. /\ step' \in [Proc -> Nat]
        /\ phase' \in [Proc -> {"idle", "running", "failing"} \cup Ended]
    BY DEF Return, IInv, TypeOK
  <1>3. got' \in Seq(Chunk)
    BY DEF Return
  <1>4. TypeOK'
    BY <1>1, <1>2, <1>3 DEF IInv, TypeOK, Return, switchVars, pipeVars
  <1>5. WellFormed'
    BY <1>1 DEF IInv, TypeOK, WellFormed, Return, switchVars, pipeVars, IdleReply
  <1> QED
    BY <1>4, <1>5 DEF IInv

-----------------------------------------------------------------------------
(***************************************************************************)
(* The steps of the call that holds mu.                                    *)
(***************************************************************************)
LEMMA BeginDisconnectedStep == IInv /\ BeginDisconnected => IInv'
  <1> SUFFICES ASSUME IInv, BeginDisconnected PROVE IInv'
    OBVIOUS
  <1>1. /\ mu \in Proc /\ call \in Call /\ reply.tag # "awaiting"
        /\ connected' \in BOOLEAN /\ currentMode' \in CLIMode
    BY ClientFacts DEF BeginDisconnected, Answered, AnswerAt
  <1>2. Return(FALSE) /\ Frame /\ (FALSE) \in BOOLEAN
    BY <1>1 DEF BeginDisconnected
  <1>3. seen' \in [Proc -> SUBSET (Command \cup {NoCommand})] /\ spent' \in [Fault -> Nat]
    BY <1>2 DEF Frame, IInv, TypeOK
  <1> QED
    BY <1>1, <1>2, <1>3, AfterReturn DEF Frame

LEMMA BeginConnectStep == IInv /\ BeginConnect => IInv'
  <1> SUFFICES ASSUME IInv, BeginConnect PROVE IInv'
    OBVIOUS
  <1>1. /\ mu \in Proc /\ call \in Call /\ reply.tag # "awaiting"
        /\ connected' \in BOOLEAN /\ currentMode' \in CLIMode
    BY ClientFacts DEF BeginConnect, Answered, AnswerAt
  <1>2. CASE connected
    <2>1. Return(TRUE) /\ Frame
      BY <1>1, <1>2 DEF BeginConnect
    <2>2. seen' \in [Proc -> SUBSET (Command \cup {NoCommand})] /\ spent' \in [Fault -> Nat]
      BY <2>1 DEF Frame, IInv, TypeOK
    <2> QED
      BY <1>1, <2>1, <2>2, AfterReturn DEF Frame
  <1>3. CASE ~connected
    <2>1. call' \in Call /\ call'.at = "dial" /\ GoTo(call') /\ Stay /\ Frame
      BY <1>1, <1>3 DEF BeginConnect, GoTo, Call, Position
    <2> QED
      BY <1>1, <2>1, AfterGoTo
  <1> QED
    BY <1>2, <1>3

LEMMA BeginShowStep == IInv /\ BeginShow => IInv'
  <1> SUFFICES ASSUME IInv, BeginShow PROVE IInv'
    OBVIOUS
  <1>1. /\ mu \in Proc /\ call \in Call /\ reply.tag # "awaiting"
        /\ connected' \in BOOLEAN /\ currentMode' \in CLIMode
    BY ClientFacts DEF BeginShow, Answered, AnswerAt
  <1>2. call' \in Call /\ call'.at = "unwind" /\ GoTo(call') /\ Stay /\ Frame
    BY <1>1 DEF BeginShow, GoTo, Call, Position
  <1> QED
    BY <1>1, <1>2, AfterGoTo

LEMMA BeginConfigStep == IInv /\ BeginConfig => IInv'
  <1> SUFFICES ASSUME IInv, BeginConfig PROVE IInv'
    OBVIOUS
  <1>1. /\ mu \in Proc /\ call \in Call /\ reply.tag # "awaiting"
        /\ connected' \in BOOLEAN /\ currentMode' \in CLIMode
    BY ClientFacts DEF BeginConfig, Answered, AnswerAt
  <1>2. CASE currentMode = "config"
    <2>1. call' \in Call /\ call'.at = "send" /\ call'.k = 1 /\ GoTo(call') /\ Stay /\ Frame
      BY <1>1, <1>2 DEF BeginConfig, GoTo, Call, Position
    <2> QED
      BY <1>1, <2>1, AfterGoTo
  <1>3. CASE currentMode # "config"
    <2>1. call' \in Call /\ call'.at = "unwind" /\ GoTo(call') /\ Stay /\ Frame
      BY <1>1, <1>3 DEF BeginConfig, GoTo, Call, Position
    <2> QED
      BY <1>1, <2>1, AfterGoTo
  <1> QED
    BY <1>2, <1>3

LEMMA BeginSaveStep == IInv /\ BeginSave => IInv'
  <1> SUFFICES ASSUME IInv, BeginSave PROVE IInv'
    OBVIOUS
  <1>1. /\ mu \in Proc /\ call \in Call /\ reply.tag # "awaiting"
        /\ connected' \in BOOLEAN /\ currentMode' \in CLIMode
    BY ClientFacts DEF BeginSave, Answered, AnswerAt
  <1>2. call' \in Call /\ call'.at = "single" /\ Send("write", 0, call') /\ Stay /\ Frame
    BY <1>1 DEF BeginSave, Send, Call, Position
  <1> QED
    BY <1>1, <1>2, AfterSend DEF SwitchOp, AnswerAt

LEMMA UnwindStep == IInv /\ Unwind => IInv'
  <1> SUFFICES ASSUME IInv, Unwind PROVE IInv'
    OBVIOUS
  <1>1. /\ mu \in Proc /\ call \in Call /\ reply.tag # "awaiting"
        /\ connected' \in BOOLEAN /\ currentMode' \in CLIMode
    BY ClientFacts DEF Unwind, Answered, AnswerAt
  <1>2. CASE currentMode = "privileged"
    <2>1. call' \in Call /\ call'.at = "unwound" /\ GoTo(call') /\ Stay /\ Frame
      BY <1>1, <1>2 DEF Unwind, GoTo, Call, Position
    <2> QED
      BY <1>1, <2>1, AfterGoTo
  <1>3. CASE currentMode # "privileged"
    <2>1. call' \in Call /\ call'.at = "end" /\ Send("end", 0, call') /\ Stay /\ Frame
      BY <1>1, <1>3 DEF Unwind, Send, Call, Position
    <2> QED
      BY <1>1, <2>1, AfterSend DEF SwitchOp, AnswerAt
  <1> QED
    BY <1>2, <1>3

\* Edits of the numeric fields of a call.
LEMMA ExitsEdit ==
    ASSUME call \in Call, NEW n \in 0..MaxExits, NEW c,
           c = [call EXCEPT !.at = "exit", !.exits = n]
    PROVE  c \in Call /\ c.at = "exit"
  <1>1. c = [kind |-> call.kind, at |-> "exit", attempt |-> call.attempt, k |-> call.k,
             goal |-> call.goal, failure |-> call.failure, exits |-> n]
    BY DEF Call
  <1> QED
    BY <1>1 DEF Call, Position

LEMMA NextLineEdit ==
    ASSUME call \in Call, NEW c, c = [call EXCEPT !.at = "send", !.k = @ + 1]
    PROVE  c \in Call /\ c.at = "send" /\ c.k >= 1
  <1>1. c = [kind |-> call.kind, at |-> "send", attempt |-> call.attempt, k |-> call.k + 1,
             goal |-> call.goal, failure |-> call.failure, exits |-> call.exits]
    BY DEF Call
  <1>2. call.k + 1 \in Nat /\ call.k + 1 >= 1
    BY DEF Call
  <1> QED
    BY <1>1, <1>2 DEF Call, Position

LEMMA EndAnsweredStep == IInv /\ EndAnswered => IInv'
  <1> SUFFICES ASSUME IInv, EndAnswered PROVE IInv'
    OBVIOUS
  <1>1. /\ mu \in Proc /\ call \in Call /\ reply.tag # "awaiting"
        /\ connected' \in BOOLEAN /\ currentMode' \in CLIMode
    BY ClientFacts DEF EndAnswered, Answered, AnswerAt
  <1>2. CASE reply.tag # "ok"
    <2>1. call' \in Call /\ call'.at = "failed" /\ GoTo(call') /\ Stay /\ Frame
      BY <1>1, <1>2 DEF Classify, EndAnswered, GoTo, Call, Position, UnwindFails, Fail
    <2> QED
      BY <1>1, <2>1, AfterGoTo
  <1>3. CASE reply.tag = "ok" /\ currentMode = "privileged"
    <2>1. call' \in Call /\ call'.at = "unwound" /\ GoTo(call') /\ Stay /\ Frame
      BY <1>1, <1>3 DEF EndAnswered, GoTo, Call, Position
    <2> QED
      BY <1>1, <2>1, AfterGoTo
  <1>4. CASE reply.tag = "ok" /\ currentMode # "privileged"
    <2>1. Send("exit", 0, [call EXCEPT !.at = "exit", !.exits = 1]) /\ Stay /\ Frame
      BY <1>4 DEF EndAnswered
    <2>2. call' = [call EXCEPT !.at = "exit", !.exits = 1] /\ Send("exit", 0, call')
      BY <2>1 DEF Send
    <2>3. 1 \in 0..MaxExits
      OBVIOUS
    <2>4. call' \in Call /\ call'.at = "exit"
      BY <1>1, <2>2, <2>3, ExitsEdit
    <2> QED
      BY <1>1, <2>1, <2>2, <2>4, AfterSend DEF SwitchOp, AnswerAt
  <1> QED
    BY <1>2, <1>3, <1>4

LEMMA ExitAnsweredStep == IInv /\ ExitAnswered => IInv'
  <1> SUFFICES ASSUME IInv, ExitAnswered PROVE IInv'
    OBVIOUS
  <1>1. /\ mu \in Proc /\ call \in Call /\ reply.tag # "awaiting"
        /\ connected' \in BOOLEAN /\ currentMode' \in CLIMode
    BY ClientFacts DEF ExitAnswered, Answered, AnswerAt
  <1>2. CASE reply.tag = "ok" /\ currentMode = "privileged"
    <2>1. call' \in Call /\ call'.at = "unwound" /\ GoTo(call') /\ Stay /\ Frame
      BY <1>1, <1>2 DEF ExitAnswered, GoTo, Call, Position
    <2> QED
      BY <1>1, <2>1, AfterGoTo
  <1>3. CASE ~(reply.tag = "ok" /\ currentMode = "privileged") /\ call.exits < MaxExits
    <2>1. /\ call.at = "exit" /\ Stay /\ Frame
          /\ Send("exit", 0, [call EXCEPT !.exits = @ + 1])
      BY <1>3 DEF ExitAnswered, Answered
    <2>2. call' = [call EXCEPT !.exits = @ + 1] /\ Send("exit", 0, call')
      BY <2>1 DEF Send
    <2>3. call.exits + 1 \in 0..MaxExits
      BY <1>1, <1>3 DEF Call
    <2>4. call' = [call EXCEPT !.at = "exit", !.exits = call.exits + 1]
      BY <1>1, <2>1, <2>2 DEF Call
    <2>5. call' \in Call /\ call'.at = "exit"
      BY <1>1, <2>3, <2>4, ExitsEdit
    <2> QED
      BY <1>1, <2>1, <2>2, <2>5, AfterSend DEF SwitchOp, AnswerAt
  <1>4. CASE ~(reply.tag = "ok" /\ currentMode = "privileged") /\ ~(call.exits < MaxExits)
    <2>1. call' \in Call /\ call'.at = "failed" /\ GoTo(call') /\ Stay /\ Frame
      BY <1>1, <1>4 DEF ExitAnswered, GoTo, Call, Position, UnwindFails, Fail
    <2> QED
      BY <1>1, <2>1, AfterGoTo
  <1> QED
    BY <1>2, <1>3, <1>4

LEMMA UnwoundStep == IInv /\ Unwound => IInv'
  <1> SUFFICES ASSUME IInv, Unwound PROVE IInv'
    OBVIOUS
  <1>1. /\ mu \in Proc /\ call \in Call /\ reply.tag # "awaiting"
        /\ connected' \in BOOLEAN /\ currentMode' \in CLIMode
    BY ClientFacts DEF Unwound, Answered, AnswerAt
  <1>2. CASE call.goal = "show"
    <2>1. call' \in Call /\ call'.at = "single" /\ Send("show", 0, call') /\ Stay /\ Frame
      BY <1>1, <1>2 DEF Unwound, Send, Call, Position
    <2> QED
      BY <1>1, <2>1, AfterSend DEF SwitchOp, AnswerAt
  <1>3. CASE call.goal = "enter"
    <2>1. call' \in Call /\ call'.at = "conft" /\ Send("configure", 0, call') /\ Stay /\ Frame
      BY <1>1, <1>3 DEF Unwound, Send, Call, Position
    <2> QED
      BY <1>1, <2>1, AfterSend DEF SwitchOp, AnswerAt
  <1>4. CASE call.goal = "paging"
    <2>1. call' \in Call /\ call'.at = "paging" /\ Send("paging", 0, call') /\ Stay /\ Frame
      BY <1>1, <1>4 DEF Unwound, Send, Call, Position
    <2> QED
      BY <1>1, <2>1, AfterSend DEF SwitchOp, AnswerAt
  <1>5. CASE call.goal = "rollback"
    <2>1. call' \in Call /\ call'.at = "failed" /\ GoTo(call') /\ Stay /\ Frame
      BY <1>1, <1>5 DEF Unwound, GoTo, Call, Position
    <2> QED
      BY <1>1, <2>1, AfterGoTo
  <1>6. CASE call.goal \notin {"show", "enter", "paging", "rollback"}
    <2>1. Return(TRUE) /\ Frame
      BY <1>1, <1>6 DEF Unwound
    <2>2. seen' \in [Proc -> SUBSET (Command \cup {NoCommand})] /\ spent' \in [Fault -> Nat]
      BY <2>1 DEF Frame, IInv, TypeOK
    <2> QED
      BY <1>1, <2>1, <2>2, AfterReturn DEF Frame
  <1> QED
    BY <1>2, <1>3, <1>4, <1>5, <1>6

LEMMA ConfigureAnsweredStep == IInv /\ ConfigureAnswered => IInv'
  <1> SUFFICES ASSUME IInv, ConfigureAnswered PROVE IInv'
    OBVIOUS
  <1>1. /\ mu \in Proc /\ call \in Call /\ reply.tag # "awaiting"
        /\ connected' \in BOOLEAN /\ currentMode' \in CLIMode
    BY ClientFacts DEF ConfigureAnswered, Answered, AnswerAt
  <1>2. CASE reply.tag # "ok" \/ currentMode # "config"
    <2>1. PICK f \in {"connection", "other"} : Fail(f) /\ Stay /\ Frame
      BY <1>2 DEF ConfigureAnswered, Classify
    <2>2. call' = [call EXCEPT !.at = "failed", !.failure = f] /\ GoTo(call')
      BY <2>1 DEF Fail, GoTo
    <2>3. call' \in Call /\ call'.at = "failed"
      BY <1>1, <2>2 DEF Call, Position
    <2> QED
      BY <1>1, <2>1, <2>2, <2>3, AfterGoTo
  <1>3. CASE reply.tag = "ok" /\ currentMode = "config"
    <2>1. GoTo([call EXCEPT !.at = "send", !.k = 1]) /\ Stay /\ Frame
      BY <1>3 DEF ConfigureAnswered
    <2>2. call' = [call EXCEPT !.at = "send", !.k = 1] /\ GoTo(call')
      BY <2>1 DEF GoTo
    <2>3. call' \in Call /\ call'.at = "send" /\ call'.k = 1
      BY <1>1, <2>2 DEF Call, Position
    <2> QED
      BY <1>1, <2>1, <2>2, <2>3, AfterGoTo
  <1> QED
    BY <1>2, <1>3

LEMMA LineAnsweredStep == IInv /\ LineAnswered => IInv'
  <1> SUFFICES ASSUME IInv, LineAnswered PROVE IInv'
    OBVIOUS
  <1>1. /\ mu \in Proc /\ call \in Call /\ reply.tag # "awaiting"
        /\ connected' \in BOOLEAN /\ currentMode' \in CLIMode
    BY ClientFacts DEF LineAnswered, Answered, AnswerAt
  <1>2. CASE reply.tag = "ok" /\ ~reply.err
    <2>1. GoTo([call EXCEPT !.at = "send", !.k = @ + 1]) /\ Stay /\ Frame
      BY <1>2 DEF LineAnswered
    <2>2. call' = [call EXCEPT !.at = "send", !.k = @ + 1] /\ GoTo(call')
      BY <2>1 DEF GoTo
    <2>3. call' \in Call /\ call'.at = "send" /\ call'.k >= 1
      BY <1>1, <2>2, NextLineEdit
    <2> QED
      BY <1>1, <2>1, <2>2, <2>3, AfterGoTo
  <1>3. CASE ~(reply.tag = "ok" /\ ~reply.err)
    <2>1. GoTo([call EXCEPT !.at = "unwind", !.goal = "rollback",
            !.failure = Classify(reply.tag, Batch[mu][call.k].eof)]) /\ Stay /\ Frame
      BY <1>3 DEF LineAnswered
    <2>2. call' = [call EXCEPT !.at = "unwind", !.goal = "rollback",
            !.failure = Classify(reply.tag, Batch[mu][call.k].eof)] /\ GoTo(call')
      BY <2>1 DEF GoTo
    <2>3. call' \in Call /\ call'.at = "unwind"
      BY <1>1, <2>2 DEF Call, Position, Classify
    <2> QED
      BY <1>1, <2>1, <2>2, <2>3, AfterGoTo
  <1> QED
    BY <1>2, <1>3

LEMMA SaveAnsweredStep == IInv /\ SaveAnswered => IInv'
  <1> SUFFICES ASSUME IInv, SaveAnswered PROVE IInv'
    OBVIOUS
  <1>1. /\ mu \in Proc /\ call \in Call /\ reply.tag # "awaiting"
        /\ connected' \in BOOLEAN /\ currentMode' \in CLIMode
    BY ClientFacts DEF SaveAnswered, Answered, AnswerAt
  <1>2. Return(reply.tag = "ok" /\ ~reply.err) /\ Frame /\ (reply.tag = "ok" /\ ~reply.err) \in BOOLEAN
    BY <1>1 DEF SaveAnswered
  <1>3. seen' \in [Proc -> SUBSET (Command \cup {NoCommand})] /\ spent' \in [Fault -> Nat]
    BY <1>2 DEF Frame, IInv, TypeOK
  <1> QED
    BY <1>1, <1>2, <1>3, AfterReturn DEF Frame

LEMMA GiveUpStep == IInv /\ GiveUp => IInv'
  <1> SUFFICES ASSUME IInv, GiveUp PROVE IInv'
    OBVIOUS
  <1>1. /\ mu \in Proc /\ call \in Call /\ reply.tag # "awaiting"
        /\ connected' \in BOOLEAN /\ currentMode' \in CLIMode
    BY ClientFacts DEF GiveUp, Answered, AnswerAt
  <1>2. Return(FALSE) /\ Frame /\ (FALSE) \in BOOLEAN
    BY <1>1 DEF GiveUp
  <1>3. seen' \in [Proc -> SUBSET (Command \cup {NoCommand})] /\ spent' \in [Fault -> Nat]
    BY <1>2 DEF Frame, IInv, TypeOK
  <1> QED
    BY <1>1, <1>2, <1>3, AfterReturn DEF Frame

LEMMA BannerAnsweredStep == IInv /\ BannerAnswered => IInv'
  <1> SUFFICES ASSUME IInv, BannerAnswered PROVE IInv'
    OBVIOUS
  <1>1. /\ mu \in Proc /\ call \in Call /\ reply.tag # "awaiting"
        /\ connected' \in BOOLEAN /\ currentMode' \in CLIMode
    BY ClientFacts DEF BannerAnswered, Answered, AnswerAt
  <1>2. CASE currentMode = "user"
    <2>1. call' \in Call /\ call'.at = "enable" /\ Send("enable", 0, call') /\ Stay /\ Frame
      BY <1>1, <1>2 DEF BannerAnswered, Send, Call, Position
    <2> QED
      BY <1>1, <2>1, AfterSend DEF SwitchOp, AnswerAt
  <1>3. CASE currentMode # "user"
    <2>1. call' \in Call /\ call'.at = "unwind" /\ GoTo(call') /\ Stay /\ Frame
      BY <1>1, <1>3 DEF BannerAnswered, GoTo, Call, Position
    <2> QED
      BY <1>1, <2>1, AfterGoTo
  <1> QED
    BY <1>2, <1>3

LEMMA EnableAnsweredStep == IInv /\ EnableAnswered => IInv'
  <1> SUFFICES ASSUME IInv, EnableAnswered PROVE IInv'
    OBVIOUS
  <1>1. /\ mu \in Proc /\ call \in Call /\ reply.tag # "awaiting"
        /\ connected' \in BOOLEAN /\ currentMode' \in CLIMode
    BY ClientFacts DEF EnableAnswered, Answered, CLIMode, PromptMode, AnswerAt
  <1>2. call' \in Call /\ call'.at = "paging" /\ Send("paging", 0, call') /\ Stay /\ Frame
    BY <1>1 DEF EnableAnswered, Send, Call, Position, CLIMode
  <1> QED
    BY <1>1, <1>2, AfterSend DEF SwitchOp, AnswerAt


LEMMA SendLineStep == IInv /\ SendLine => IInv'
  <1> SUFFICES ASSUME IInv, SendLine PROVE IInv'
    OBVIOUS
  <1>1. /\ mu \in Proc /\ call \in Call /\ reply.tag # "awaiting" /\ call.k \in Nat \ {0}
        /\ connected' \in BOOLEAN /\ currentMode' \in CLIMode
    <2>1. /\ call.at = "send" /\ connected' = connected /\ currentMode' = currentMode
      BY DEF SendLine
    <2>2. call.k \in Nat
      BY ClientFacts DEF Call
    <2> QED
      BY <2>1, <2>2, ClientFacts DEF AnswerAt
  <1>2. CASE call.k <= Len(Batch[mu])
    <2> DEFINE op == Batch[mu][call.k].op
    <2>1. op \in SwitchOp
      <3>1. Batch[mu] \in Seq(BatchCommand)
        BY <1>1
      <3>2. call.k \in 1..Len(Batch[mu])
        BY <1>1, <1>2, <3>1, LenProperties
      <3>3. Batch[mu][call.k] \in BatchCommand
        BY <3>1, <3>2, ElementOfSeq
      <3> QED
        BY <3>3 DEF BatchCommand, ConfigOp, SwitchOp
    <2>2. Send(op, call.k, [call EXCEPT !.at = "line"]) /\ Stay /\ Frame
      BY <1>2 DEF SendLine
    <2>3. call' = [call EXCEPT !.at = "line"] /\ Send(op, call.k, call')
      BY <2>2 DEF Send
    <2>4. call' \in Call /\ call'.at = "line"
      BY <1>1, <2>3 DEF Call, Position
    <2> HIDE DEF op
    <2> QED
      BY <1>1, <2>1, <2>2, <2>3, <2>4, AfterSend DEF AnswerAt
  <1>3. CASE ~(call.k <= Len(Batch[mu]))
    <2>1. call' \in Call /\ call'.at = "unwind" /\ GoTo(call') /\ Stay /\ Frame
      BY <1>1, <1>3 DEF SendLine, GoTo, Call, Position
    <2> QED
      BY <1>1, <2>1, AfterGoTo
  <1> QED
    BY <1>2, <1>3

LEMMA ShowAnsweredStep == IInv /\ ShowAnswered => IInv'
  <1> SUFFICES ASSUME IInv, ShowAnswered PROVE IInv'
    OBVIOUS
  <1>1. /\ mu \in Proc /\ call \in Call /\ reply.tag # "awaiting"
        /\ connected' \in BOOLEAN /\ currentMode' \in CLIMode /\ UNCHANGED switchVars
        /\ spent' \in [Fault -> Nat]
    BY ClientFacts DEF ShowAnswered, Answered, AnswerAt
  <1>2. CASE reply.tag = "ok"
    <2> DEFINE answers == { got[i].of : i \in DOMAIN got }
    <2>1. answers \subseteq Command \cup {NoCommand}
      <3>1. got \in Seq(Chunk)
        BY DEF IInv, TypeOK
      <3>2. \A i \in DOMAIN got : got[i] \in Chunk
        BY <3>1, LenProperties, ElementOfSeq
      <3> QED
        BY <3>2 DEF Chunk
    <2>2. Return(~reply.err) /\ seen' = [seen EXCEPT ![mu] = answers]
      BY <1>2 DEF ShowAnswered
    <2>3. (~reply.err) \in BOOLEAN
      OBVIOUS
    <2> HIDE DEF answers
    <2>4. seen' \in [Proc -> SUBSET (Command \cup {NoCommand})]
      BY <1>1, <2>1, <2>2 DEF IInv, TypeOK
    <2> QED
      BY <1>1, <2>2, <2>3, <2>4, AfterReturn
  <1>3. CASE reply.tag # "ok"
    <2>1. PICK f \in {"connection", "other"} : Fail(f) /\ Stay /\ Frame
      BY <1>3 DEF ShowAnswered, Classify, Frame
    <2>2. call' = [call EXCEPT !.at = "failed", !.failure = f] /\ GoTo(call')
      BY <2>1 DEF Fail, GoTo
    <2>3. call' \in Call /\ call'.at = "failed"
      BY <1>1, <2>2 DEF Call, Position
    <2> QED
      BY <1>1, <2>1, <2>2, <2>3, AfterGoTo
  <1> QED
    BY <1>2, <1>3

LEMMA ReconnectStep == IInv /\ Reconnect => IInv'
  <1> SUFFICES ASSUME IInv, Reconnect PROVE IInv'
    OBVIOUS
  <1>1. call' \in Call /\ call'.at = "dial"
    BY DEF Reconnect, IInv, TypeOK, Call, Position
  <1>2. reply.tag # "awaiting"
    BY DEF Reconnect, IInv, WellFormed, AnswerAt
  <1>a. toSwitch' \in Seq(Command) /\ toClient' \in Seq(Chunk)
    BY DEF Reconnect
  <1>b. link' = "down" /\ mode' \in SwitchMode /\ ctx' = NoProc /\ running' = NoCommand
    BY DEF Reconnect, SwitchMode
  <1>c. connected' \in BOOLEAN /\ currentMode' \in CLIMode
    BY DEF Reconnect, CLIMode
  <1>d. UNCHANGED <<phase, step, opMu, mu, reply, got, log, seen, spent>>
    BY DEF Reconnect, Stay, readVars, procVars
  <1>3. TypeOK'
    BY <1>1, <1>a, <1>b, <1>c, <1>d DEF IInv, TypeOK
  <1>4. WellFormed'
    BY <1>1, <1>2 DEF Reconnect, IInv, WellFormed, Stay, readVars, procVars
  <1> QED
    BY <1>3, <1>4 DEF IInv

LEMMA DialStep ==
    ASSUME IInv, NEW first \in {"user", "privileged"}, Dial(first)
    PROVE  IInv'
  <1>1. call' \in Call /\ call'.at = "banner"
    BY DEF Dial, IInv, TypeOK, Call, Position
  <1> DEFINE prompt == [of |-> NoCommand, kind |-> "prompt", mode |-> first, err |-> FALSE]
  <1>2. prompt \in Chunk
    BY DEF Chunk, PromptMode
  <1>3. toClient' = <<prompt>>
    BY DEF Dial
  <1> HIDE DEF prompt
  <1>4. toClient' \in Seq(Chunk)
    BY <1>2, <1>3
  <1>5. Awaiting \in Reply /\ Awaiting.tag = "awaiting"
    BY DEF Awaiting, Reply
  <1>6. TypeOK'
    BY <1>1, <1>4, <1>5 DEF Dial, IInv, TypeOK, SwitchMode, PromptMode, Stay, procVars
  <1>7. WellFormed'
    BY <1>1, <1>5 DEF Dial, IInv, WellFormed, PromptMode, Stay, procVars, AnswerAt
  <1> QED
    BY <1>6, <1>7 DEF IInv

LEMMA SpendType ==
    ASSUME IInv, NEW f \in Fault, Spend(f)
    PROVE  spent' \in [Fault -> Nat]
BY DEF Spend, IInv, TypeOK

LEMMA DialFailsStep == IInv /\ DialFails => IInv'
  <1> SUFFICES ASSUME IInv, DialFails PROVE IInv'
    OBVIOUS
  <1>1. mu \in Proc /\ connected' \in BOOLEAN /\ currentMode' \in CLIMode
    BY DEF DialFails, IInv, TypeOK, WellFormed
  <1>2. spent' \in [Fault -> Nat]
    BY SpendType DEF DialFails, Fault
  <1>3. Return(FALSE) /\ UNCHANGED switchVars /\ UNCHANGED seen
    BY DEF DialFails
  <1>4. seen' \in [Proc -> SUBSET (Command \cup {NoCommand})]
    BY <1>3 DEF IInv, TypeOK
  <1> QED
    BY <1>1, <1>2, <1>3, <1>4, AfterReturn

LEMMA SetupFailsStep == IInv /\ SetupFails => IInv'
  <1> SUFFICES ASSUME IInv, SetupFails PROVE IInv'
    OBVIOUS
  <1>1. mu \in Proc /\ connected' \in BOOLEAN /\ currentMode' \in CLIMode
    BY DEF SetupFails, Answered, IInv, TypeOK, WellFormed
  <1>2. Return(FALSE) /\ Frame
    BY DEF SetupFails
  <1>3. seen' \in [Proc -> SUBSET (Command \cup {NoCommand})] /\ spent' \in [Fault -> Nat]
    BY <1>2 DEF Frame, IInv, TypeOK
  <1> QED
    BY <1>1, <1>2, <1>3, AfterReturn DEF Frame

LEMMA PagingAnsweredStep == IInv /\ PagingAnswered => IInv'
  <1> SUFFICES ASSUME IInv, PagingAnswered PROVE IInv'
    OBVIOUS
  <1>1. /\ mu \in Proc /\ call \in Call /\ reply.tag # "awaiting"
        /\ connected' \in BOOLEAN /\ currentMode' \in CLIMode /\ Frame
    BY ClientFacts DEF PagingAnswered, Answered, AnswerAt
  <1>2. CASE call.kind = "connect"
    <2>1. Return(TRUE)
      BY <1>2 DEF PagingAnswered
    <2>2. seen' \in [Proc -> SUBSET (Command \cup {NoCommand})] /\ spent' \in [Fault -> Nat]
      BY <1>1 DEF Frame, IInv, TypeOK
    <2> QED
      BY <1>1, <2>1, <2>2, AfterReturn DEF Frame
  <1>3. CASE call.kind # "connect"
    <2>1. /\ Stay /\ GoTo([NoCall EXCEPT !.kind = call.kind, !.at = "begin", !.attempt = 1])
      BY <1>3 DEF PagingAnswered
    <2>2. /\ call' = [NoCall EXCEPT !.kind = call.kind, !.at = "begin", !.attempt = 1]
          /\ GoTo(call')
      BY <2>1 DEF GoTo
    <2>3. call' = [kind |-> call.kind, at |-> "begin", attempt |-> 1, k |-> 0,
                   goal |-> "none", failure |-> "none", exits |-> 0]
      BY <2>2 DEF NoCall
    <2>4. call' \in Call /\ call'.at = "begin"
      BY <1>1, <2>3 DEF Call, Position
    <2> QED
      BY <1>1, <2>1, <2>2, <2>4, AfterGoTo
  <1> QED
    BY <1>2, <1>3

-----------------------------------------------------------------------------
(***************************************************************************)
(* readUntilPrompt                                                         *)
(***************************************************************************)
LEMMA ReadType ==
    ASSUME IInv, NEW n \in 1..Len(toClient), Read(n)
    PROVE  got' \in Seq(Chunk) /\ toClient' \in Seq(Chunk) /\ toClient[n] \in Chunk
  <1>1. toClient \in Seq(Chunk) /\ got \in Seq(Chunk) /\ Len(toClient) \in Nat
    BY LenProperties DEF IInv, TypeOK
  <1>2. \A i \in 1..Len(toClient) : toClient[i] \in Chunk
    BY <1>1, ElementOfSeq
  <1>3. \A i \in 1..n : toClient[i] \in Chunk
    BY <1>1, <1>2
  <1>4. \A i \in n + 1..Len(toClient) : toClient[i] \in Chunk
    BY <1>1, <1>2
  <1>5. SubSeq(toClient, 1, n) \in Seq(Chunk)
    BY <1>3, SubSeqProperties
  <1>6. SubSeq(toClient, n + 1, Len(toClient)) \in Seq(Chunk)
    BY <1>1, <1>4, SubSeqProperties
  <1>7. got \o SubSeq(toClient, 1, n) \in Seq(Chunk)
    BY <1>1, <1>5, ConcatProperties
  <1> QED
    BY <1>2, <1>6, <1>7 DEF Read

LEMMA ReadPromptStep ==
    ASSUME IInv, NEW n \in 1..Len(toClient), ReadPrompt(n)
    PROVE  IInv'
  <1>1. /\ got' \in Seq(Chunk) /\ toClient' \in Seq(Chunk) /\ toClient[n] \in Chunk
    BY ReadType DEF ReadPrompt
  <1>2. PICK refused \in BOOLEAN : reply' = [tag |-> "ok", err |-> refused]
    <2>1. (\E i \in DOMAIN got' : got'[i].err) \in BOOLEAN
      OBVIOUS
    <2> QED
      BY <2>1 DEF ReadPrompt
  <1>3. reply' \in Reply /\ reply'.tag = "ok"
    BY <1>2 DEF Reply
  <1>4. currentMode' \in CLIMode
    <2>1. toClient[n].mode \in PromptMode
      BY <1>1 DEF Chunk
    <2> QED
      BY <2>1 DEF ReadPrompt, CLIMode, IInv, TypeOK
  <1>5. UNCHANGED <<phase, step, opMu, mu, connected, call, link, toSwitch, running, mode,
                    ctx, log, seen, spent>>
    BY DEF ReadPrompt, Read, procVars, switchVars
  <1>6. TypeOK'
    BY <1>1, <1>3, <1>4, <1>5 DEF IInv, TypeOK
  <1>7. WellFormed'
    BY <1>3, <1>5 DEF IInv, WellFormed
  <1> QED
    BY <1>6, <1>7 DEF IInv

LEMMA ReadPartStep ==
    ASSUME IInv, NEW n \in 1..Len(toClient), ReadPart(n)
    PROVE  IInv'
  <1>1. got' \in Seq(Chunk) /\ toClient' \in Seq(Chunk)
    BY ReadType DEF ReadPart
  <1>2. reply' \in Reply /\ (reply'.tag = "awaiting" => reply.tag = "awaiting")
    <2>1. TimedOut \in Reply /\ TimedOut.tag = "timeout"
      BY DEF TimedOut, Reply
    <2>2. reply' \in {reply, TimedOut}
      BY DEF ReadPart
    <2> QED
      BY <2>1, <2>2 DEF IInv, TypeOK
  <1>3. spent' \in [Fault -> Nat]
    <2>1. CASE UNCHANGED spent
      BY <2>1 DEF IInv, TypeOK
    <2>2. CASE Spend("timeout")
      BY <2>2, SpendType DEF Fault
    <2> QED
      BY <2>1, <2>2 DEF ReadPart
  <1>4. UNCHANGED <<phase, step, opMu, mu, connected, currentMode, call, link, toSwitch,
                    running, mode, ctx, log, seen>>
    BY DEF ReadPart, Read, procVars, switchVars
  <1>5. TypeOK'
    BY <1>1, <1>2, <1>3, <1>4 DEF IInv, TypeOK
  <1>6. WellFormed'
    BY <1>2, <1>4 DEF IInv, WellFormed
  <1> QED
    BY <1>5, <1>6 DEF IInv

LEMMA ReadErrorStep == IInv /\ ReadError => IInv'
  <1> SUFFICES ASSUME IInv, ReadError PROVE IInv'
    OBVIOUS
  <1>1. Lost \in Reply /\ Lost.tag = "lost"
    BY DEF Lost, Reply
  <1>2. TypeOK'
    BY <1>1 DEF ReadError, IInv, TypeOK, procVars, clientVars, switchVars, pipeVars
  <1>3. WellFormed'
    BY <1>1 DEF ReadError, IInv, WellFormed, procVars, clientVars, switchVars, pipeVars
  <1> QED
    BY <1>2, <1>3 DEF IInv

-----------------------------------------------------------------------------
(***************************************************************************)
(* The switch and the link.                                                *)
(***************************************************************************)
LEMMA SwitchEchoStep == IInv /\ SwitchEcho => IInv'
  <1> SUFFICES ASSUME IInv, SwitchEcho PROVE IInv'
    OBVIOUS
  <1>1. toSwitch \in Seq(Command) /\ toSwitch # <<>> /\ mode \in PromptMode
    BY DEF SwitchEcho, IInv, TypeOK, WellFormed
  <1>2. Head(toSwitch) \in Command /\ Tail(toSwitch) \in Seq(Command)
    BY <1>1, HeadTailProperties
  <1> DEFINE echo == [of |-> Head(toSwitch), kind |-> "echo", mode |-> mode, err |-> FALSE]
  <1>3. echo \in Chunk
    BY <1>1, <1>2 DEF Chunk
  <1>4. toClient' = Append(toClient, echo)
    BY DEF SwitchEcho
  <1> HIDE DEF echo
  <1>5. toClient' \in Seq(Chunk)
    BY <1>3, <1>4, AppendProperties DEF IInv, TypeOK
  <1>6. TypeOK'
    BY <1>2, <1>5 DEF SwitchEcho, IInv, TypeOK, procVars, clientVars, readVars
  <1>7. WellFormed'
    BY DEF SwitchEcho, IInv, WellFormed, procVars, clientVars, readVars
  <1> QED
    BY <1>6, <1>7 DEF IInv

LEMMA PromptType ==
    ASSUME IInv, running # NoCommand, NEW to \in PromptMode, NEW err \in BOOLEAN
    PROVE  Append(toClient, Prompt(to, err)) \in Seq(Chunk)
  <1>1. running \in Command
    BY DEF IInv, TypeOK
  <1>2. Prompt(to, err) \in Chunk
    BY <1>1 DEF Prompt, Chunk
  <1> QED
    BY <1>2, AppendProperties DEF IInv, TypeOK

LEMMA SwitchAcceptsStep ==
    ASSUME IInv, NEW to \in PromptMode, SwitchAccepts(to)
    PROVE  IInv'
  <1>1. running \in Command /\ running # NoCommand /\ running.by \in Proc /\ running.i \in Nat
    BY DEF SwitchAccepts, IInv, TypeOK, Command
  <1>2. toClient' \in Seq(Chunk)
    BY <1>1, PromptType DEF SwitchAccepts
  <1>3. log' \in Seq([by : Proc, i : Nat])
    <2>1. [by |-> running.by, i |-> running.i] \in [by : Proc, i : Nat]
      BY <1>1
    <2>2. Append(log, [by |-> running.by, i |-> running.i]) \in Seq([by : Proc, i : Nat])
      BY <2>1, AppendProperties DEF IInv, TypeOK
    <2> QED
      BY <2>2 DEF SwitchAccepts, IInv, TypeOK
  <1>4. ctx' \in Proc \cup {NoProc}
    BY <1>1 DEF SwitchAccepts, IInv, TypeOK
  <1>5. running' = NoCommand /\ mode' = to /\ to \in SwitchMode
    BY DEF SwitchAccepts, SwitchMode
  <1>6. UNCHANGED <<phase, step, opMu, mu, connected, currentMode, call, reply, got, link,
                    toSwitch, seen, spent>>
    BY DEF SwitchAccepts, procVars, clientVars, readVars
  <1>7. TypeOK'
    BY <1>2, <1>3, <1>4, <1>5, <1>6 DEF IInv, TypeOK
  <1>8. WellFormed'
    BY <1>5, <1>6 DEF IInv, WellFormed
  <1> QED
    BY <1>7, <1>8 DEF IInv

LEMMA SwitchRejectsStep == IInv /\ SwitchRejects => IInv'
  <1> SUFFICES ASSUME IInv, SwitchRejects PROVE IInv'
    OBVIOUS
  <1>1. running # NoCommand /\ mode \in PromptMode
    BY DEF SwitchRejects, IInv, WellFormed
  <1>2. toClient' \in Seq(Chunk)
    BY <1>1, PromptType DEF SwitchRejects
  <1>3. spent' \in [Fault -> Nat]
    <2>1. CASE UNCHANGED spent
      BY <2>1 DEF IInv, TypeOK
    <2>2. CASE Spend("reject")
      BY <2>2, SpendType DEF Fault
    <2> QED
      BY <2>1, <2>2 DEF SwitchRejects
  <1>4. running' = NoCommand /\ UNCHANGED <<phase, step, opMu, mu, connected, currentMode,
            call, reply, got, link, toSwitch, mode, ctx, log, seen>>
    BY DEF SwitchRejects, procVars, clientVars, readVars
  <1>5. TypeOK'
    BY <1>2, <1>3, <1>4 DEF IInv, TypeOK
  <1>6. WellFormed'
    BY <1>4 DEF IInv, WellFormed
  <1> QED
    BY <1>5, <1>6 DEF IInv

LEMMA SwitchLogsOutStep == IInv /\ SwitchLogsOut => IInv'
  <1> SUFFICES ASSUME IInv, SwitchLogsOut PROVE IInv'
    OBVIOUS
  <1>1. toSwitch' \in Seq(Command) /\ mode' \in SwitchMode
    BY DEF SwitchLogsOut, SwitchMode
  <1>2. TypeOK'
    BY <1>1 DEF SwitchLogsOut, IInv, TypeOK, procVars, clientVars, readVars
  <1>3. WellFormed'
    BY DEF SwitchLogsOut, IInv, WellFormed, procVars, clientVars, readVars
  <1> QED
    BY <1>2, <1>3 DEF IInv

LEMMA DropStep ==
    ASSUME IInv, NEW n \in 0..Len(toClient), Drop(n)
    PROVE  IInv'
  <1>1. toClient' \in Seq(Chunk)
    <2>1. toClient \in Seq(Chunk) /\ Len(toClient) \in Nat
      BY LenProperties DEF IInv, TypeOK
    <2>2. \A i \in 1..n : toClient[i] \in Chunk
      BY <2>1, ElementOfSeq
    <2>3. SubSeq(toClient, 1, n) \in Seq(Chunk)
      BY <2>2, SubSeqProperties
    <2> QED
      BY <2>3 DEF Drop
  <1>2. spent' \in [Fault -> Nat]
    BY SpendType DEF Drop, Fault
  <1>3. toSwitch' \in Seq(Command) /\ mode' \in SwitchMode /\ link' = "down"
        /\ running' = NoCommand /\ ctx' = NoProc
    BY DEF Drop, SwitchMode
  <1>4. UNCHANGED <<phase, step, opMu, mu, connected, currentMode, call, reply, got, log, seen>>
    BY DEF Drop, procVars, clientVars, readVars
  <1>5. TypeOK'
    BY <1>1, <1>2, <1>3, <1>4 DEF IInv, TypeOK
  <1>6. WellFormed'
    BY <1>3, <1>4 DEF IInv, WellFormed
  <1> QED
    BY <1>5, <1>6 DEF IInv

-----------------------------------------------------------------------------
(***************************************************************************)
(* The goroutines.                                                         *)
(***************************************************************************)
LEMMA StartStep ==
    ASSUME IInv, NEW p \in Proc, Start(p)
    PROVE  IInv'
  <1>1. TypeOK'
    BY DEF Start, IInv, TypeOK, clientVars, readVars, switchVars, pipeVars
  <1>2. WellFormed'
    BY DEF Start, IInv, WellFormed, clientVars, readVars, switchVars, pipeVars
  <1> QED
    BY <1>1, <1>2 DEF IInv

LEMMA StartCallStep ==
    ASSUME IInv, NEW p \in Proc, StartCall(p)
    PROVE  IInv'
  <1> DEFINE kind == Calls(p)[step[p] + 1]
  <1>1. kind \in {"connect", "config", "show", "save"}
    <2>1. step[p] \in Nat /\ step[p] < Len(Calls(p)) /\ Len(Calls(p)) \in Nat
      <3>1. Calls(p) \in {<<"connect">>, <<"config", "show">>, <<"config">>, <<"show">>, <<"save">>}
        BY DEF Calls, CallsOf, Operation
      <3>2. Len(Calls(p)) \in Nat
        BY <3>1
      <3> QED
        BY <3>2 DEF StartCall, IInv, TypeOK
    <2>2. step[p] + 1 \in 1..Len(Calls(p))
      BY <2>1
    <2> QED
      BY <2>2, CallsType
  <1>2. call' = [NoCall EXCEPT !.kind = kind, !.at = "begin"]
    BY DEF StartCall
  <1> HIDE DEF kind
  <1>3. call' = [kind |-> kind, at |-> "begin", attempt |-> 0, goal |-> "none",
                 k |-> 0, exits |-> 0, failure |-> "none"]
    BY <1>2 DEF NoCall
  <1>4. call' \in Call /\ call'.at = "begin"
    BY <1>1, <1>3 DEF Call, Position
  <1>5. reply.tag # "awaiting"
    BY DEF StartCall, IInv, WellFormed, AnswerAt
  <1>6. TypeOK'
    BY <1>4 DEF StartCall, IInv, TypeOK, procVars, readVars, switchVars, pipeVars
  <1>7. WellFormed'
    BY <1>4, <1>5 DEF StartCall, IInv, WellFormed, readVars, switchVars, pipeVars
  <1> QED
    BY <1>6, <1>7 DEF IInv

LEMMA FinishStep ==
    ASSUME IInv, NEW p \in Proc, Finish(p)
    PROVE  IInv'
  <1>1. phase' \in [Proc -> {"idle", "running", "failing"} \cup Ended]
    BY DEF Finish, IInv, TypeOK, Ended
  <1>2. TypeOK'
    BY <1>1 DEF Finish, IInv, TypeOK, clientVars, readVars, switchVars, pipeVars
  <1>3. WellFormed'
    BY DEF Finish, IInv, WellFormed, clientVars, readVars, switchVars, pipeVars
  <1> QED
    BY <1>2, <1>3 DEF IInv

-----------------------------------------------------------------------------
LEMMA ClientStepIInv == IInv /\ ClientStep => IInv'
BY BeginDisconnectedStep, BeginConnectStep, BeginShowStep, BeginConfigStep, BeginSaveStep,
   UnwindStep, EndAnsweredStep, ExitAnsweredStep, UnwoundStep, ConfigureAnsweredStep,
   SendLineStep, LineAnsweredStep, ShowAnsweredStep, SaveAnsweredStep, GiveUpStep,
   ReconnectStep, DialStep, DialFailsStep, SetupFailsStep, BannerAnsweredStep,
   EnableAnsweredStep, PagingAnsweredStep
   DEF ClientStep

LEMMA NextIInv == IInv /\ [Next]_vars => IInv'
  <1> SUFFICES ASSUME IInv, [Next]_vars PROVE IInv'
    OBVIOUS
  <1>1. ASSUME NEW p \in Proc, ProcStep(p) PROVE IInv'
    BY <1>1, StartStep, StartCallStep, FinishStep DEF ProcStep
  <1>2. CASE ClientStep
    BY <1>2, ClientStepIInv
  <1>3. CASE ClientRead
    BY <1>3, ReadPromptStep, ReadPartStep, ReadErrorStep DEF ClientRead
  <1>4. CASE SwitchStep
    BY <1>4, SwitchEchoStep, SwitchAcceptsStep, SwitchRejectsStep, SwitchLogsOutStep
       DEF SwitchStep
  <1>5. ASSUME NEW n \in 0..Len(toClient), Drop(n) PROVE IInv'
    BY <1>5, DropStep
  <1>6. CASE UNCHANGED vars
    BY <1>6 DEF vars, IInv, TypeOK, WellFormed, procVars, clientVars, readVars, switchVars,
                pipeVars
  <1> QED
    BY <1>1, <1>2, <1>3, <1>4, <1>5, <1>6 DEF Next, Terminated

(***************************************************************************)
(* The types of the variables hold in every execution: in particular no    *)
(* call is attempted a third time and "exit" is sent at most MaxExits      *)
(* times, whatever the switch answers.                                     *)
(***************************************************************************)
THEOREM TypeCorrect == Spec => []TypeOK
  <1>1. Spec => []IInv
    BY InitIInv, NextIInv, PTL DEF Spec
  <1>2. IInv => TypeOK
    BY DEF IInv
  <1> QED
    BY <1>1, <1>2, PTL

-----------------------------------------------------------------------------
(***************************************************************************)
(* The lock protocol of client.go, for any number of goroutines and any    *)
(* number of faults.                                                       *)
(***************************************************************************)
\* LockDiscipline is inductive given the types and WellFormed.
LockInv == IInv /\ LockDiscipline

\* A step of the call that holds mu leaves the mutexes alone or returns.
LEMMA ClientStepLocks ==
    ASSUME IInv, ClientStep
    PROVE  mu \in Proc /\ (Stay \/ \E ok \in BOOLEAN : Return(ok))
  <1>1. mu \in Proc
    <2>1. call.at # "idle"
      BY DEF ClientStep, BeginDisconnected, BeginConnect, BeginShow, BeginConfig, BeginSave,
             Unwind, EndAnswered, ExitAnswered, Unwound, ConfigureAnswered, SendLine,
             LineAnswered, ShowAnswered, SaveAnswered, GiveUp, Reconnect, Dial, DialFails,
             SetupFails, BannerAnswered, EnableAnswered, PagingAnswered, Answered
    <2> QED
      BY <2>1 DEF IInv, TypeOK, WellFormed
  <1>2. CASE BeginDisconnected \/ GiveUp \/ DialFails \/ SetupFails
    <2>1. Return(FALSE)
      BY <1>2 DEF BeginDisconnected, GiveUp, DialFails, SetupFails
    <2> QED
      BY <1>1, <2>1
  <1>3. CASE BeginConnect \/ Unwound \/ PagingAnswered
    <2>1. Stay \/ Return(TRUE)
      BY <1>3 DEF BeginConnect, Unwound, PagingAnswered
    <2> QED
      BY <1>1, <2>1
  <1>4. CASE ShowAnswered
    <2>1. Stay \/ Return(~reply.err)
      BY <1>4 DEF ShowAnswered
    <2>2. (~reply.err) \in BOOLEAN
      OBVIOUS
    <2> QED
      BY <1>1, <2>1, <2>2
  <1>5. CASE SaveAnswered
    <2>1. Return(reply.tag = "ok" /\ ~reply.err)
      BY <1>5 DEF SaveAnswered
    <2>2. (reply.tag = "ok" /\ ~reply.err) \in BOOLEAN
      OBVIOUS
    <2> QED
      BY <1>1, <2>1, <2>2
  <1>6. CASE \/ BeginShow \/ BeginConfig \/ BeginSave \/ Unwind \/ EndAnswered
             \/ ExitAnswered \/ ConfigureAnswered \/ SendLine \/ LineAnswered
             \/ Reconnect \/ (\E first \in {"user", "privileged"} : Dial(first))
             \/ BannerAnswered \/ EnableAnswered
    <2>1. Stay
      BY <1>6 DEF BeginShow, BeginConfig, BeginSave, Unwind, EndAnswered, ExitAnswered,
                  ConfigureAnswered, SendLine, LineAnswered, Reconnect, Dial,
                  BannerAnswered, EnableAnswered
    <2> QED
      BY <1>1, <2>1
  <1> QED
    BY <1>2, <1>3, <1>4, <1>5, <1>6 DEF ClientStep

LEMMA StayLocks ==
    ASSUME LockDiscipline, UNCHANGED <<phase, opMu, mu>>
    PROVE  LockDiscipline'
BY DEF LockDiscipline, InProgress, Locked

\* A returning call leaves its operation in progress, holding opMu if it did.
LEMMA ReturnLocks ==
    ASSUME IInv, LockDiscipline, mu \in Proc, NEW ok \in BOOLEAN, Return(ok)
    PROVE  LockDiscipline'
  <1>1. mu' = NoProc /\ opMu' = opMu /\ phase[mu] = "running"
    BY DEF Return, LockDiscipline
  <1>2. \A p \in Proc : InProgress(p)' <=> InProgress(p)
    BY <1>1 DEF Return, InProgress, IInv, TypeOK
  <1> QED
    BY <1>1, <1>2 DEF LockDiscipline, Locked

LEMMA StartLocks ==
    ASSUME IInv, LockDiscipline, NEW p \in Proc, Start(p)
    PROVE  LockDiscipline'
  <1>1. /\ phase[p] = "idle" /\ mu' = mu /\ phase' = [phase EXCEPT ![p] = "running"]
        /\ Locked(p) => opMu = NoProc /\ opMu' = p
        /\ ~Locked(p) => opMu' = opMu
    BY DEF Start, clientVars
  <1>2. \A q \in Proc : phase'[q] = IF q = p THEN "running" ELSE phase[q]
    BY <1>1 DEF IInv, TypeOK
  <1>3. \A q \in Proc : (opMu = q <=> Locked(q) /\ InProgress(q))'
    BY <1>1, <1>2 DEF LockDiscipline, InProgress, Locked
  <1>4. (mu # NoProc => phase[mu] = "running" /\ (Locked(mu) => opMu = mu))'
    BY <1>1, <1>2, <1>3 DEF LockDiscipline, InProgress, Locked, IInv, TypeOK
  <1> QED
    BY <1>3, <1>4 DEF LockDiscipline

LEMMA StartCallLocks ==
    ASSUME IInv, LockDiscipline, NEW p \in Proc, StartCall(p)
    PROVE  LockDiscipline'
BY DEF StartCall, LockDiscipline, InProgress, Locked, procVars

LEMMA FinishLocks ==
    ASSUME IInv, LockDiscipline, NEW p \in Proc, Finish(p)
    PROVE  LockDiscipline'
  <1>1. /\ mu' = mu /\ mu # p /\ phase[p] \in {"running", "failing"}
        /\ opMu' = IF opMu = p THEN NoProc ELSE opMu
    BY DEF Finish, clientVars
  <1>2. \A q \in Proc : phase'[q] = IF q = p THEN phase'[p] ELSE phase[q]
    BY DEF Finish, IInv, TypeOK
  <1>3. phase'[p] \in Ended
    BY DEF Finish, IInv, TypeOK, Ended
  <1>4. \A q \in Proc : (opMu = q <=> Locked(q) /\ InProgress(q))'
    BY <1>1, <1>2, <1>3 DEF LockDiscipline, InProgress, Locked, Ended
  <1>5. (mu # NoProc => phase[mu] = "running" /\ (Locked(mu) => opMu = mu))'
    BY <1>1, <1>2, <1>4 DEF LockDiscipline, InProgress, Locked, IInv, TypeOK
  <1> QED
    BY <1>4, <1>5 DEF LockDiscipline

LEMMA InitLocks == Init => LockDiscipline
BY DEF Init, LockDiscipline, InProgress

LEMMA NextLocks == LockInv /\ [Next]_vars => LockInv'
  <1> SUFFICES ASSUME IInv, LockDiscipline, [Next]_vars PROVE LockDiscipline'
    BY NextIInv DEF LockInv
  <1>1. ASSUME NEW p \in Proc, ProcStep(p) PROVE LockDiscipline'
    BY <1>1, StartLocks, StartCallLocks, FinishLocks DEF ProcStep
  <1>2. CASE ClientStep
    BY <1>2, ClientStepLocks, ReturnLocks, StayLocks DEF Stay, procVars
  <1>3. CASE ClientRead
    BY <1>3, StayLocks DEF ClientRead, ReadPrompt, ReadPart, Read, ReadError, procVars,
                           clientVars
  <1>4. CASE SwitchStep
    BY <1>4, StayLocks DEF SwitchStep, SwitchEcho, SwitchAccepts, SwitchRejects,
                           SwitchLogsOut, procVars, clientVars
  <1>5. ASSUME NEW n \in 0..Len(toClient), Drop(n) PROVE LockDiscipline'
    BY <1>5, StayLocks DEF Drop, procVars, clientVars
  <1>6. CASE UNCHANGED vars
    BY <1>6, StayLocks DEF vars, procVars, clientVars
  <1> QED
    BY <1>1, <1>2, <1>3, <1>4, <1>5, <1>6 DEF Next, Terminated

(***************************************************************************)
(* opMu is held by exactly the operation that has to hold it, on every     *)
(* path through the client, and mu is only taken by an operation that      *)
(* already holds the opMu it needs: no order of the goroutines deadlocks   *)
(* on the two mutexes.                                                     *)
(***************************************************************************)
THEOREM LocksHeldInOrder == Spec => []LockDiscipline
  <1>1. Init => LockInv
    BY InitIInv, InitLocks DEF LockInv
  <1>2. LockInv => LockDiscipline
    BY DEF LockInv
  <1> QED
    BY <1>1, <1>2, NextLocks, PTL DEF Spec

=============================================================================
