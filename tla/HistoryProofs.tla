---------------------------- MODULE HistoryProofs ----------------------------
(***************************************************************************)
(* What the switch has accepted, while no command times out: each batch    *)
(* where it belongs, whole when its operation reports success, and not     *)
(* more than twice.                                                        *)
(***************************************************************************)
EXTENDS ProtocolProofs, ClientRefinement

\* The entries of an operation in the log; Beginning: those between m and n
\* are a beginning of its commands, each once and in their order.
Entries(p) == { j \in DOMAIN log : log[j].by = p }
Beginning(p, m, n) ==
    /\ \A a, b \in Entries(p) : m < a /\ a < b /\ b <= n => log[a].i < log[b].i
    /\ \A b \in Entries(p), i \in WritesOf(p) :
          m < b /\ b <= n /\ i < log[b].i =>
              \E a \in Entries(p) : m < a /\ a <= n /\ log[a].i = i

\* The answer to the command sent last is on its way or has arrived, and it
\* is no error.
Fine == \/ Prompted /\ ~Answer.err
        \/ reply.tag = "ok" /\ ~reply.err

(***************************************************************************)
(* A call is the next one of its operation; only the first attempt at a    *)
(* call sets a session up; connect and writeMemory have no second one.     *)
(***************************************************************************)
Progress ==
    /\ mu # NoProc => /\ step[mu] < Len(Calls(mu))
                      /\ call.kind = Calls(mu)[step[mu] + 1]
    /\ \A p \in Proc : /\ phase[p] = "idle" => step[p] = 0
                       /\ phase[p] = "done" => step[p] >= 1
    /\ call.at = "conft" => call.goal = "enter"
    /\ call.kind = "save" => call.at \in {"begin", "single"}
    /\ call.kind \in {"connect", "save"} => call.attempt = 0
    /\ call.at \in SettingUp \/ call.goal = "paging" => call.attempt = 0

(***************************************************************************)
(* The sub-mode a batch has opened is still open while its next command is *)
(* on the way.                                                             *)
(***************************************************************************)
Opens(k) == k \in DOMAIN Batch[mu] /\ Batch[mu][k].op \in {"open", "line"}
Context ==
    link = "up" =>
        \/ mode = "sub" /\ ctx = mu
        \/ /\ call.at = "send" => ~Opens(call.k - 1)
           /\ call.at = "line" /\ InFlight => ~Opens(call.k - 1)
           /\ call.at = "line" /\ Fine => ~Opens(call.k)

(***************************************************************************)
(* Run(n, k): this attempt began after entry n of the log and has had the  *)
(* commands up to the k-th accepted; before it, at most one other attempt. *)
(***************************************************************************)
Run(n, k) ==
    /\ AcceptedUpTo(mu, n, k) /\ Beginning(mu, 0, n)
    /\ call.attempt = 0 => \A j \in Entries(mu) : j > n
Unwinding == {"unwind", "end", "exit", "unwound"}
Applying ==
    /\ call.at = "send" => \E n \in 0..Len(log) : Run(n, call.k - 1)
    /\ call.at = "line" /\ InFlight => \E n \in 0..Len(log) : Run(n, call.k - 1)
    /\ call.at = "line" /\ Fine => \E n \in 0..Len(log) : Run(n, call.k)
    /\ call.at \in Unwinding /\ call.goal = "final" =>
          \E n \in 0..Len(log) : Run(n, Len(Batch[mu]))

(***************************************************************************)
(* Until an attempt sends its first command, the log holds nothing of the  *)
(* first attempt and at most one run of commands of the second.            *)
(***************************************************************************)
Entering == \/ call.at = "begin"
            \/ call.at \in Unwinding \cup {"conft"} /\ call.goal = "enter"
Attempts ==
    /\ \A p \in Proc : step[p] = 0 /\ mu # p => Entries(p) = {}
    /\ call.kind \in {"config", "save"} /\ Entering /\ call.attempt = 0 => Entries(mu) = {}
    /\ call.at = "single" /\ call.kind = "save" /\ InFlight => Entries(mu) = {}
    /\ call.kind = "config" /\ (Entering \/ call.attempt = 0) => Beginning(mu, 0, Len(log))
    /\ \A p \in Proc : \E n \in 0..Len(log) :
          Beginning(p, 0, n) /\ Beginning(p, n, Len(log))

(***************************************************************************)
(* The calls that have returned without an error have done their work; a   *)
(* save has done it once.                                                  *)
(***************************************************************************)
Saved(p) == \E j \in DOMAIN log : Entries(p) = {j} /\ log[j].i = 0
Completed ==
    /\ \A p \in Proc : phase[p] \in {"running", "done"} /\ step[p] >= 1 =>
          /\ Op[p] \in {"apply", "delete"} =>
                \E n \in 0..Len(log) : AcceptedUpTo(p, n, Len(Batch[p]))
          /\ Op[p] = "save" => Saved(p)
    /\ call.at = "single" /\ call.kind = "save" /\ Fine => Saved(mu)

(***************************************************************************)
(* The configuration belongs to the holder of opMu from its first command  *)
(* on.                                                                     *)
(***************************************************************************)
Isolated == opMu # NoProc /\ Entries(opMu) # {} => log[Len(log)].by = opMu

-----------------------------------------------------------------------------
(***************************************************************************)
(* What the steps do to the command on the way and to the log.             *)
(***************************************************************************)
Answering == \/ ClientRead \/ SwitchEcho \/ SwitchRejects \/ SwitchLogsOut
             \/ \E n \in 0..Len(toClient) : Drop(n)

\* Until the switch accepts a command, its answer gets no better.
LEMMA ReadPromptFine ==
    ASSUME SessionInv, NEW n \in 1..Len(toClient), ReadPrompt(n), Fine'
    PROVE  Fine
  <1>1. Read(n) /\ toClient[n].kind = "prompt"
        /\ reply' = [tag |-> "ok", err |-> \E i \in DOMAIN got' : got'[i].err]
    BY DEF ReadPrompt
  <1>2. Prompted /\ toClient[n] = Answer /\ toClient' = <<>>
    BY <1>1, ReadOutput
  <1>3. ~\E i \in DOMAIN got' : got'[i].err
    BY <1>1, <1>2 DEF Fine, Prompted
  <1>4. \E i \in DOMAIN got' : got'[i] = toClient[n]
    <2>1. /\ toClient \in Seq(Chunk) /\ got \in Seq(Chunk) /\ Len(toClient) \in Nat
          /\ DOMAIN toClient = 1..Len(toClient) /\ Len(got) \in Nat
      BY LenProperties DEF SessionInv, IInv, TypeOK
    <2>2. \A i \in 1..n : toClient[i] \in Chunk
      BY <2>1, ElementOfSeq
    <2> DEFINE t == SubSeq(toClient, 1, n)
    <2>3. t \in Seq(Chunk) /\ Len(t) = n /\ t[n] = toClient[n]
      BY <2>1, <2>2, SubSeqProperties
    <2>4. /\ got \o t \in Seq(Chunk) /\ Len(got \o t) = Len(got) + n
          /\ (got \o t)[Len(got) + n] = t[n]
      <3> HIDE DEF t
      <3>1. /\ got \o t \in Seq(Chunk) /\ Len(got \o t) = Len(got) + Len(t)
            /\ \A i \in 1..(Len(got) + Len(t)) :
                  (got \o t)[i] = IF i <= Len(got) THEN got[i] ELSE t[i - Len(got)]
        BY <2>1, <2>3, ConcatProperties
      <3>2. Len(got) + n \in 1..(Len(got) + Len(t)) /\ ~(Len(got) + n <= Len(got))
            /\ Len(got) + n - Len(got) = n
        BY <2>1, <2>3
      <3> QED
        BY <2>3, <3>1, <3>2
    <2>5. Len(got) + n \in DOMAIN (got \o t)
      BY <2>1, <2>4, LenProperties
    <2> QED
      BY <1>1, <2>3, <2>4, <2>5 DEF Read
  <1>5. ~Answer.err
    BY <1>2, <1>3, <1>4
  <1> QED
    BY <1>2, <1>5 DEF Fine

LEMMA AnsweringKeeps ==
    ASSUME SessionInv, NoTimeouts, Answering
    PROVE  /\ UNCHANGED <<call, mu, phase, step, opMu, log>>
           /\ InFlight' => InFlight
           /\ Fine' => Fine
           /\ link' = "up" => link = "up" /\ mode' = mode /\ ctx' = ctx
  <1>1. ASSUME NEW n \in 1..Len(toClient), ReadPrompt(n)
        PROVE  /\ UNCHANGED <<call, mu, phase, step, opMu, log, link, mode, ctx, toSwitch, running>>
               /\ Fine' => Fine
    BY <1>1, ReadPromptFine DEF ReadPrompt, Read, procVars, switchVars
  <1>2. ASSUME NEW n \in 1..Len(toClient), ReadPart(n)
        PROVE  /\ UNCHANGED <<call, mu, phase, step, opMu, log, link, mode, ctx, toSwitch, running>>
               /\ Fine' => Fine
    <2>1. Read(n) /\ reply' = reply
      BY <1>2, ReadPartWaits DEF ReadPart, SessionInv
    <2>2. Prompted' => Prompted /\ Answer' = Answer
      BY <2>1, ReadOutput
    <2> QED
      BY <2>1, <2>2 DEF Fine, Read, procVars, switchVars
  <1>3. CASE ReadError
    <2>1. /\ UNCHANGED <<call, mu, phase, step, opMu, log, link, mode, ctx, toSwitch, running>>
          /\ toClient' = <<>> /\ reply' = Lost
      BY <1>3 DEF ReadError, procVars, clientVars, switchVars, pipeVars
    <2>2. ~Fine'
      BY <2>1 DEF Fine, Prompted, Lost
    <2> QED
      BY <2>1, <2>2 DEF InFlight
  <1>4. CASE SwitchEcho
    <2>1. UNCHANGED <<call, mu, phase, step, opMu, log, link, mode, ctx, reply>> /\ toSwitch # <<>>
      BY <1>4 DEF SwitchEcho, procVars, clientVars, readVars
    <2>2. ~Prompted'
      BY <1>4, EchoOutput
    <2> QED
      BY <2>1, <2>2 DEF Fine, InFlight
  <1>5. CASE SwitchRejects
    <2>1. /\ UNCHANGED <<call, mu, phase, step, opMu, log, link, mode, ctx, reply>>
          /\ running # NoCommand /\ mode \in PromptMode
          /\ toClient' = Append(toClient, Prompt(mode, TRUE))
      BY <1>5 DEF SwitchRejects, procVars, clientVars, readVars, SessionInv, IInv, WellFormed
    <2>2. Busy /\ Answer' = Prompt(mode, TRUE)
      BY <2>1, PromptOutput
    <2>3. Answer'.err = TRUE
      BY <2>2 DEF Prompt
    <2> QED
      BY <2>1, <2>2, <2>3 DEF Fine, InFlight, Busy
  <1>6. CASE SwitchLogsOut
    <2>1. /\ UNCHANGED <<call, mu, phase, step, opMu, log, reply, toClient>>
          /\ running # NoCommand /\ link' = "down"
      BY <1>6 DEF SwitchLogsOut, procVars, clientVars, readVars
    <2> QED
      BY <2>1 DEF Fine, InFlight, Prompted, Answer
  <1>7. ASSUME NEW n \in 0..Len(toClient), Drop(n)
        PROVE  /\ UNCHANGED <<call, mu, phase, step, opMu, log>> /\ ~InFlight' /\ link' = "down"
               /\ Fine' => Fine
    <2>1. UNCHANGED <<call, mu, phase, step, opMu, log, reply>> /\ ~InFlight' /\ link' = "down"
      BY <1>7 DEF Drop, procVars, clientVars, readVars, InFlight
    <2>2. Prompted' => Prompted /\ Answer' = Answer
      BY <1>7, DropOutput
    <2> QED
      BY <2>1, <2>2 DEF Fine
  <1> QED
    BY <1>1, <1>2, <1>3, <1>4, <1>5, <1>6, <1>7 DEF Answering, ClientRead, InFlight

\* What the switch accepts is the command of the call that holds mu.
LEMMA AcceptFacts ==
    ASSUME SessionInv, NEW to \in PromptMode, SwitchAccepts(to)
    PROVE  /\ UNCHANGED <<call, mu, phase, step, opMu, link, reply>>
           /\ mu \in Proc /\ call.at \in AnswerAt /\ link = "up" /\ InFlight /\ ~InFlight' /\ Busy
           /\ running = [by |-> mu, op |-> SentOp, i |-> SentIndex]
           /\ to \in Targets(SentOp, mode) /\ mode' = to
           /\ ctx' = IF to # "sub" THEN NoProc ELSE IF SentOp = "open" THEN mu ELSE ctx
           /\ log' = IF SentOp \in LoggedOp THEN Append(log, [by |-> mu, i |-> SentIndex])
                     ELSE log
  <1>1. /\ UNCHANGED <<call, mu, phase, step, opMu, link, reply, toSwitch>>
        /\ running # NoCommand /\ running' = NoCommand
    BY DEF SwitchAccepts, procVars, clientVars, readVars
  <1>2. /\ running = Sent /\ call.at # "banner" /\ Busy /\ link = "up" /\ call.at \in AnswerAt
        /\ toSwitch = <<>> /\ mu \in Proc
    BY <1>1, RunningAt, SentFacts DEF SessionInv, Pipe, IInv, WellFormed, InFlight, Busy
  <1>3. running = [by |-> mu, op |-> SentOp, i |-> SentIndex]
    BY <1>2 DEF Sent
  <1> QED
    BY <1>1, <1>2, <1>3 DEF SwitchAccepts, InFlight

\* Where a step of the client may leave a command on its way.
LEMMA ClientStepSends ==
    ASSUME SessionInv, ClientStep
    PROVE  /\ mu \in Proc /\ call \in Call /\ toClient = <<>> /\ ~Busy /\ ~InFlight
           /\ UNCHANGED <<log, opMu>>
           /\ call'.at \in {"line", "single"} => ~Fine'
  <1>1. mu \in Proc /\ call \in Call /\ toClient = <<>> /\ ~Busy /\ ~InFlight
    BY QuietWhenStepping
  <1>2. UNCHANGED <<log, opMu>>
    BY DEF ClientStep, BeginDisconnected, BeginConnect, BeginShow, BeginConfig, BeginSave,
           Unwind, EndAnswered, ExitAnswered, Unwound, ConfigureAnswered, SendLine,
           LineAnswered, ShowAnswered, SaveAnswered, GiveUp, Reconnect, Dial, DialFails,
           SetupFails, BannerAnswered, EnableAnswered, PagingAnswered, Frame, switchVars, Stay,
           procVars, Return
  <1>3. ASSUME call'.at \in {"line", "single"}
        PROVE  reply'.tag \in {"awaiting", "lost"} /\ toClient' = toClient
    <2>1. CASE BeginDisconnected \/ BeginConnect \/ BeginShow \/ BeginConfig \/ BeginSave
      BY <1>3, <2>1, BeginEdges, LeftFacts DEF Leaves, Walks, Writes, Aims, Edge
    <2>2. CASE Unwind \/ EndAnswered \/ ExitAnswered \/ Unwound
      BY <1>3, <2>2, UnwindEdges, LeftFacts DEF Leaves, Walks, Writes, Fails, Edge
    <2>3. CASE ConfigureAnswered \/ SendLine \/ LineAnswered
      BY <1>3, <2>3, BatchEdges DEF Writes, Aims, Fails, Edge
    <2>4. CASE ShowAnswered \/ SaveAnswered \/ GiveUp \/ DialFails \/ SetupFails
      BY <1>3, <2>4, AnswerEdges, LeftFacts DEF Leaves, Fails, Edge
    <2>5. CASE BannerAnswered \/ EnableAnswered \/ PagingAnswered
      BY <1>3, <2>5, SetupEdges, LeftFacts DEF Leaves, Writes, Aims, Restarts, Edge
    <2>6. CASE Reconnect \/ \E first \in {"user", "privileged"} : Dial(first)
      BY <1>3, <2>6, SessionEdges
    <2> QED
      BY <2>1, <2>2, <2>3, <2>4, <2>5, <2>6 DEF ClientStep
  <1>4. call'.at \in {"line", "single"} => ~Fine'
    BY <1>1, <1>3 DEF Fine, Prompted
  <1> QED
    BY <1>1, <1>2, <1>4

-----------------------------------------------------------------------------
(***************************************************************************)
(* The sub-mode a batch writes into is its own.                            *)
(***************************************************************************)
LEMMA OpenTargets ==
    /\ \A from, to : to \in Targets("open", from) => to = "sub"
    /\ \A from, to : to \in Targets("line", from) => to = "sub" /\ from = "sub"
BY DEF Targets, Accepted

\* An object is entered before it is written into.
LEMMA LineAfterOpen ==
    ASSUME SessionInv, call.at = "line", SentOp = "line"
    PROVE  Opens(call.k - 1) /\ mu \in Proc
  <1>1. mu \in Proc /\ call.k \in 1..Len(Batch[mu]) /\ Batch[mu][call.k].op = "line"
    BY ClientFacts DEF SessionInv, Purpose, SentOp
  <1>2. DOMAIN Batch[mu] = 1..Len(Batch[mu]) /\ Len(Batch[mu]) \in Nat
    BY <1>1, LenProperties
  <1>3. call.k > 1 /\ Batch[mu][call.k - 1].op \in {"open", "line"}
    BY <1>1, <1>2, BatchAssumption
  <1> QED
    BY <1>1, <1>2, <1>3 DEF Opens

LEMMA ClientStepContext ==
    ASSUME SessionInv, Context, ClientStep
    PROVE  Context'
  <1>0. /\ call \in Call
        /\ call'.at \in {"line", "single"} => ~Fine'
    BY ClientStepSends
  <1>1. CASE call'.at \notin {"send", "line"} /\ (link' = "up" => call'.at # "line")
    BY <1>1 DEF Context
  <1>2. CASE link' # "up"
    BY <1>2 DEF Context
  <1> DEFINE Same == /\ UNCHANGED <<link, mode, ctx, mu>>
  <1>3. CASE Same /\ call'.at = "send" /\ call'.k = 1
    <2>1. ~Opens(0)'
      <3>1. mu \in Proc
        BY ClientStepSends
      <3>2. DOMAIN Batch[mu] = 1..Len(Batch[mu])
        BY <3>1, LenProperties
      <3> QED
        BY <1>3, <3>2 DEF Opens
    <2> QED
      BY <1>3, <2>1 DEF Context
  <1>4. CASE Same /\ call'.at = "line" /\ call.at = "send" /\ call'.k = call.k
    <2>1. \A k : Opens(k)' = Opens(k)
      BY <1>4 DEF Opens
    <2> QED
      BY <1>0, <1>4, <2>1 DEF Context
  <1>5. CASE Same /\ call'.at = "send" /\ call.at = "line" /\ Fine /\ call'.k = call.k + 1
    <2>1. \A k : Opens(k)' = Opens(k)
      BY <1>5 DEF Opens
    <2>2. call'.k - 1 = call.k
      BY <1>0, <1>5 DEF Call
    <2> QED
      BY <1>5, <2>1, <2>2 DEF Context
  <1>6. call'.at \in {"send", "line"} =>
           \/ Same /\ call'.at = "send" /\ call'.k = 1
           \/ Same /\ call'.at = "line" /\ call.at = "send" /\ call'.k = call.k
           \/ Same /\ call'.at = "send" /\ call.at = "line" /\ Fine /\ call'.k = call.k + 1
    <2>1. CASE BeginDisconnected \/ BeginConnect \/ BeginShow \/ BeginConfig \/ BeginSave
      BY <2>1, BeginEdges, LeftFacts DEF Leaves, Walks, Writes, Aims, Edge, switchVars
    <2>2. CASE Unwind \/ EndAnswered \/ ExitAnswered \/ Unwound
      BY <2>2, UnwindEdges, LeftFacts DEF Leaves, Walks, Writes, Fails, Edge
    <2>3. CASE ConfigureAnswered \/ SendLine \/ LineAnswered
      BY <2>3, BatchEdges, StepGuards DEF Writes, Aims, Fails, Edge, Fine, switchVars
    <2>4. CASE ShowAnswered \/ SaveAnswered \/ GiveUp \/ DialFails \/ SetupFails
      BY <2>4, AnswerEdges, LeftFacts DEF Leaves, Fails, Edge
    <2>5. CASE BannerAnswered \/ EnableAnswered \/ PagingAnswered
      BY <2>5, SetupEdges, LeftFacts DEF Leaves, Writes, Aims, Restarts, Edge
    <2>6. CASE Reconnect \/ \E first \in {"user", "privileged"} : Dial(first)
      BY <2>6, SessionEdges
    <2> QED
      BY <2>1, <2>2, <2>3, <2>4, <2>5, <2>6 DEF ClientStep
  <1> QED
    BY <1>1, <1>3, <1>4, <1>5, <1>6

LEMMA AcceptContext ==
    ASSUME SessionInv, Context, NEW to \in PromptMode, SwitchAccepts(to)
    PROVE  Context'
  <1>1. /\ UNCHANGED <<call, mu, link>> /\ call.at \in AnswerAt /\ link = "up"
        /\ InFlight /\ ~InFlight' /\ to \in Targets(SentOp, mode) /\ mode' = to
        /\ ctx' = IF to # "sub" THEN NoProc ELSE IF SentOp = "open" THEN mu ELSE ctx
    BY AcceptFacts
  <1>2. call.at # "send"
    BY <1>1 DEF AnswerAt
  <1>3. Opens(call.k)' = Opens(call.k)
    BY <1>1 DEF Opens
  <1>4. CASE call.at = "line" /\ Opens(call.k)
    <2>1. SentOp \in {"open", "line"}
      BY <1>4 DEF SentOp, Opens
    <2>2. CASE SentOp = "open"
      BY <1>1, <2>2, OpenTargets DEF Context
    <2>3. CASE SentOp = "line"
      <3>1. to = "sub" /\ mode = "sub"
        BY <1>1, <2>3, OpenTargets
      <3>2. ctx = mu
        BY <1>1, <1>4, <2>3, LineAfterOpen DEF Context
      <3> QED
        BY <1>1, <2>3, <3>1, <3>2 DEF Context
    <2> QED
      BY <2>1, <2>2, <2>3
  <1>5. CASE ~(call.at = "line" /\ Opens(call.k))
    BY <1>1, <1>2, <1>3, <1>5 DEF Context
  <1> QED
    BY <1>4, <1>5

LEMMA NextContext ==
    ASSUME SessionInv, NoTimeouts, Context, [Next]_vars
    PROVE  Context'
  <1>1. CASE Answering
    <2>1. \A k : Opens(k)' = Opens(k)
      BY <1>1, AnsweringKeeps DEF Opens
    <2> QED
      BY <1>1, <2>1, AnsweringKeeps DEF Context
  <1>2. ASSUME NEW p \in Proc, ProcStep(p) PROVE Context'
    <2>1. CASE UNCHANGED <<call, mu>>
      <3>1. UNCHANGED <<call, mu, link, mode, ctx, toSwitch, running, toClient, reply>>
        BY <1>2, <2>1, ProcStepFacts DEF switchVars, pipeVars, readVars
      <3>2. (\A k : Opens(k)' = Opens(k)) /\ Fine' = Fine /\ InFlight' = InFlight
        BY <3>1 DEF Opens, Fine, InFlight, Prompted, Answer
      <3> QED
        BY <3>1, <3>2 DEF Context
    <2>2. CASE call'.at = "begin"
      BY <2>2 DEF Context
    <2> QED
      BY <1>2, <2>1, <2>2, ProcStepFacts
  <1>3. CASE UNCHANGED vars
    <2>1. UNCHANGED <<call, mu, link, mode, ctx, toSwitch, running, toClient, reply>>
      BY <1>3 DEF vars, clientVars, switchVars, pipeVars, readVars
    <2>2. (\A k : Opens(k)' = Opens(k)) /\ Fine' = Fine /\ InFlight' = InFlight
      BY <2>1 DEF Opens, Fine, InFlight, Prompted, Answer
    <2> QED
      BY <2>1, <2>2 DEF Context
  <1> QED
    BY <1>1, <1>2, <1>3, ClientStepContext, AcceptContext DEF Next, Terminated, Answering, SwitchStep

(***************************************************************************)
(* A sub-mode command is executed in the sub-mode its own batch has        *)
(* opened, however many sessions drop and whatever the switch refuses.     *)
(***************************************************************************)
THEOREM ContextIsSafe ==
    ASSUME NoTimeouts
    PROVE  Spec => []ContextSafety
  <1>1. Init => Context
    BY DEF Init, Context
  <1>2. SessionInv /\ Context /\ [Next]_vars => Context'
    BY NextContext
  <1>3. ASSUME SessionInv, Context, running.op = "line" PROVE mode = "sub" /\ ctx = running.by
    <2>1. running # NoCommand
      BY <1>3 DEF NoCommand
    <2>2. SentOp = "line" /\ running.by = mu /\ link = "up" /\ InFlight
      BY <1>3, <2>1, RunningAt DEF InFlight
    <2>3. call.at = "line"
      <3>1. CASE call.at = "single"
        BY <2>2, <3>1 DEF SentOp
      <3>2. CASE call.at # "single" /\ call.at # "line"
        BY <2>2, <3>2 DEF SentOp
      <3> QED
        BY <3>1, <3>2
    <2> QED
      BY <1>3, <2>2, <2>3, LineAfterOpen DEF Context
  <1>4. SessionInv /\ Context => ContextSafety
    BY <1>3 DEF ContextSafety
  <1> QED
    BY <1>1, <1>2, <1>4, SessionAlways, PTL DEF Spec

-----------------------------------------------------------------------------
(***************************************************************************)
(* The log grows by one entry at its end.                                  *)
(***************************************************************************)
Entry == [by : Proc, i : Nat]

LEMMA LogAppended ==
    ASSUME log \in Seq(Entry), NEW e \in Entry, log' = Append(log, e)
    PROVE  /\ Len(log) \in Nat /\ DOMAIN log = 1..Len(log)
           /\ Len(log') = Len(log) + 1 /\ DOMAIN log' = 1..(Len(log) + 1)
           /\ \A j \in 1..Len(log) : log'[j] = log[j]
           /\ log'[Len(log) + 1] = e
  <1>1. log' \in Seq(Entry)
    BY AppendProperties
  <1> QED
    BY <1>1, AppendProperties, LenProperties

\* The operations that do not append keep what they have had accepted.
LEMMA OthersKeepLog ==
    ASSUME log \in Seq(Entry), NEW e \in Entry, log' = Append(log, e),
           NEW p \in Proc, p # e.by
    PROVE  /\ Entries(p)' = Entries(p) /\ (Saved(p) => Saved(p)')
           /\ \A m \in Nat : \A n \in 0..Len(log) :
                 /\ Beginning(p, m, n) => Beginning(p, m, n)'
                 /\ Beginning(p, n, Len(log)) => Beginning(p, n, Len(log))'
           /\ \A n \in 0..Len(log), k \in Nat : AcceptedUpTo(p, n, k) => AcceptedUpTo(p, n, k)'
  <1>1. /\ Len(log) \in Nat /\ DOMAIN log = 1..Len(log)
        /\ Len(log') = Len(log) + 1 /\ DOMAIN log' = 1..(Len(log) + 1)
        /\ \A j \in 1..Len(log) : log'[j] = log[j]
        /\ log'[Len(log) + 1] = e
    BY LogAppended
  <1>2. Entries(p)' = Entries(p)
    BY <1>1 DEF Entries
  <1>3. \A j \in Entries(p) : j \in 1..Len(log) /\ log'[j] = log[j]
    BY <1>1 DEF Entries
  <1>4. ASSUME NEW m \in Nat, NEW n \in 0..Len(log)
        PROVE  /\ Beginning(p, m, n) => Beginning(p, m, n)'
               /\ Beginning(p, n, Len(log)) => Beginning(p, n, Len(log))'
    <2>1. Beginning(p, m, n) => Beginning(p, m, n)'
      BY <1>2, <1>3 DEF Beginning
    <2>2. Beginning(p, n, Len(log)) => Beginning(p, n, Len(log))'
      BY <1>1, <1>2, <1>3 DEF Beginning
    <2> QED
      BY <2>1, <2>2
  <1>5. ASSUME NEW n \in 0..Len(log), NEW k \in Nat, AcceptedUpTo(p, n, k)
        PROVE  AcceptedUpTo(p, n, k)'
    <2> DEFINE new == { j \in (n + 1)..Len(log) : log[j].by = p }
    <2>1. new' = new /\ \A j \in new : log'[j] = log[j]
      BY <1>1
    <2>2. { log'[j].i : j \in new } = { log[j].i : j \in new }
      BY <2>1
    <2>3. AcceptedUpTo(p, n, k) <=>
             /\ { log[j].i : j \in new } = { i \in 1..k : Batch[p][i].op \in ConfigOp }
             /\ \A a, b \in new : a < b => log[a].i < log[b].i
      BY DEF AcceptedUpTo
    <2>4. AcceptedUpTo(p, n, k)' <=>
             /\ { log'[j].i : j \in new' } = { i \in 1..k : Batch[p][i].op \in ConfigOp }
             /\ \A a, b \in new' : a < b => log'[a].i < log'[b].i
      BY DEF AcceptedUpTo
    <2> QED
      BY <1>5, <2>1, <2>2, <2>3, <2>4
  <1>6. Saved(p) => Saved(p)'
    BY <1>1, <1>2, <1>3 DEF Saved
  <1> QED
    BY <1>2, <1>4, <1>5, <1>6

LEMMA WritesOfNat ==
    ASSUME NEW p \in Proc
    PROVE  WritesOf(p) \subseteq Nat
  <1>1. DOMAIN Batch[p] \subseteq Nat
    <2>1. Batch[p] \in Seq(BatchCommand)
      BY ProgramAssumption
    <2> QED
      BY <2>1, LenProperties
  <1> QED
    BY <1>1 DEF WritesOf

\* The appended entry belongs to the run of its batch.
LEMMA RunAppended ==
    ASSUME log \in Seq(Entry), NEW p \in Proc, NEW k \in Nat \ {0},
           Batch[p][k].op \in ConfigOp, log' = Append(log, [by |-> p, i |-> k]),
           NEW n \in 0..Len(log), AcceptedUpTo(p, n, k - 1), Beginning(p, 0, n),
           Op[p] \in {"apply", "delete"}
    PROVE  /\ AcceptedUpTo(p, n, k)'
           /\ Entries(p)' = Entries(p) \cup {Len(log) + 1}
           /\ Beginning(p, 0, n)' /\ Beginning(p, n, Len(log))'
  <1> DEFINE e == [by |-> p, i |-> k]
             new == { j \in (n + 1)..Len(log) : log[j].by = p }
  <1>1. /\ Len(log) \in Nat /\ DOMAIN log = 1..Len(log)
        /\ Len(log') = Len(log) + 1 /\ DOMAIN log' = 1..(Len(log) + 1)
        /\ \A j \in 1..Len(log) : log'[j] = log[j]
        /\ log'[Len(log) + 1] = e
    BY LogAppended DEF Entry
  <1>2. Entries(p)' = Entries(p) \cup {Len(log) + 1}
    BY <1>1 DEF Entries
  <1>3. \A j \in Entries(p) : j \in 1..Len(log) /\ log'[j] = log[j]
    BY <1>1 DEF Entries
  <1>4. Beginning(p, 0, n)'
    BY <1>1, <1>2, <1>3 DEF Beginning
  <1>5. /\ { log[j].i : j \in new } = { i \in 1..(k - 1) : Batch[p][i].op \in ConfigOp }
        /\ \A a, b \in new : a < b => log[a].i < log[b].i
    BY DEF AcceptedUpTo
  <1>6. new' = new \cup {Len(log) + 1} /\ \A j \in new : log'[j] = log[j]
    BY <1>1
  <1>7. \A j \in new : log[j].i \in 1..(k - 1)
    BY <1>5
  <1>8. \A a, b \in new' : a < b => log'[a].i < log'[b].i
    BY <1>1, <1>5, <1>6, <1>7
  <1>9. { log'[j].i : j \in new' } = { i \in 1..k : Batch[p][i].op \in ConfigOp }
    <2>1. { log'[j].i : j \in new' } = { log[j].i : j \in new } \cup {k}
      BY <1>1, <1>6
    <2>2. { i \in 1..k : Batch[p][i].op \in ConfigOp }
              = { i \in 1..(k - 1) : Batch[p][i].op \in ConfigOp } \cup {k}
      OBVIOUS
    <2> QED
      BY <1>5, <2>1, <2>2
  <1>10. AcceptedUpTo(p, n, k)'
    BY <1>8, <1>9 DEF AcceptedUpTo
  <1>11. Beginning(p, n, Len(log))'
    <2>1. ASSUME NEW a \in Entries(p)', NEW b \in Entries(p)', n < a, a < b, b <= Len(log')
          PROVE  log'[a].i < log'[b].i
      <3>1. a \in new' /\ b \in new'
        BY <1>1, <2>1 DEF Entries
      <3> QED
        BY <1>8, <2>1, <3>1
    <2>2. ASSUME NEW b \in Entries(p)', NEW i \in WritesOf(p), n < b, i < log'[b].i
          PROVE  \E a \in Entries(p)' : n < a /\ a <= Len(log') /\ log'[a].i = i
      <3>1. b \in new'
        BY <1>1, <2>2 DEF Entries
      <3>2. log'[b].i \in 1..k
        BY <1>9, <3>1
      <3>3. Batch[p] \in Seq(BatchCommand) /\ i \in DOMAIN Batch[p] /\ Batch[p][i].op \in ConfigOp
        BY <2>2, ProgramAssumption DEF WritesOf
      <3>4. DOMAIN Batch[p] = 1..Len(Batch[p]) /\ Len(Batch[p]) \in Nat
        BY <3>3, LenProperties
      <3>5. i \in Nat /\ 1 <= i
        BY <3>3, <3>4
      <3>6. i \in 1..k
        <4>1. \A v \in 1..k : i < v => i \in 1..k
          BY <3>5
        <4> QED
          BY <2>2, <3>2, <4>1
      <3>7. i \in { log'[j].i : j \in new' }
        BY <1>9, <3>3, <3>6
      <3>8. PICK a \in new' : log'[a].i = i
        BY <3>7
      <3>9. a \in (n + 1)..Len(log') /\ log'[a].by = p
        OBVIOUS
      <3>10. a \in Entries(p)' /\ n < a /\ a <= Len(log')
        BY <1>1, <3>9 DEF Entries
      <3> QED
        BY <3>8, <3>10
    <2> QED
      BY <2>1, <2>2 DEF Beginning
  <1> QED
    BY <1>2, <1>4, <1>10, <1>11

\* "end" in a batch is no configuration command: the run does not grow.
LEMMA RunSkips ==
    ASSUME NEW p, NEW n, NEW k \in Nat \ {0}, Batch[p][k].op \notin ConfigOp,
           AcceptedUpTo(p, n, k - 1)
    PROVE  AcceptedUpTo(p, n, k)
  <1>1. { i \in 1..k : Batch[p][i].op \in ConfigOp }
            = { i \in 1..(k - 1) : Batch[p][i].op \in ConfigOp }
    OBVIOUS
  <1> QED
    BY <1>1 DEF AcceptedUpTo

\* Nothing has been accepted yet of an attempt that begins.
LEMMA RunEmpty ==
    ASSUME log \in Seq(Entry), NEW p
    PROVE  AcceptedUpTo(p, Len(log), 0)
  <1>1. Len(log) \in Nat
    BY LenProperties
  <1>2. (Len(log) + 1)..Len(log) = {} /\ 1..0 = {}
    BY <1>1
  <1> QED
    BY <1>2 DEF AcceptedUpTo

-----------------------------------------------------------------------------
(***************************************************************************)
(* The calls of an operation.                                              *)
(***************************************************************************)
\* A step of the client ends its call or keeps it; a second attempt begins
\* after a first one.
Stays == /\ mu' = mu /\ UNCHANGED <<phase, step>> /\ call'.kind = call.kind
         /\ \/ call'.attempt = call.attempt
            \/ call.attempt = 0 /\ call'.attempt = 1 /\ call'.at = "begin"

LEMMA ClientStepStays ==
    ASSUME SessionInv, Progress, ClientStep
    PROVE  Stays \/ \E ok \in BOOLEAN : Leaves(ok)
  <1>0. reply \in Reply
    BY DEF SessionInv, IInv, TypeOK
  <1>1. CASE BeginDisconnected \/ BeginConnect \/ BeginShow \/ BeginConfig \/ BeginSave
    BY <1>1, BeginEdges DEF Stays, Walks, Writes, Aims, Edge
  <1>2. CASE Unwind \/ EndAnswered \/ ExitAnswered \/ Unwound
    BY <1>2, UnwindEdges DEF Stays, Walks, Writes, Fails, Edge
  <1>3. CASE ConfigureAnswered \/ SendLine \/ LineAnswered
    BY <1>3, BatchEdges DEF Stays, Writes, Aims, Fails, Edge
  <1>4. CASE ShowAnswered \/ SaveAnswered \/ GiveUp \/ DialFails \/ SetupFails
    <2>1. (~reply.err) \in BOOLEAN /\ (reply.tag = "ok" /\ ~reply.err) \in BOOLEAN
      OBVIOUS
    <2> QED
      BY <1>4, <2>1, AnswerEdges DEF Stays, Fails, Edge
  <1>5. CASE BannerAnswered \/ EnableAnswered \/ PagingAnswered
    BY <1>5, SetupEdges, StepGuards DEF Progress, SettingUp, Stays, Writes, Aims, Restarts, Edge
  <1>6. CASE Reconnect \/ \E first \in {"user", "privileged"} : Dial(first)
    BY <1>6, SessionEdges DEF Stays
  <1> QED
    BY <1>1, <1>2, <1>3, <1>4, <1>5, <1>6 DEF ClientStep

\* The positions that only some calls reach.
LEMMA ClientStepPlaces ==
    ASSUME SessionInv, Progress, ClientStep
    PROVE  /\ call'.at = "conft" => call'.goal = "enter"
           /\ call'.kind = "save" => call'.at \in {"begin", "single"}
           /\ call'.kind \in {"connect", "save"} => call'.attempt = 0
           /\ call'.at \in SettingUp \/ call'.goal = "paging" => call'.attempt = 0
  <1> USE DEF Progress, SettingUp
  <1>1. CASE BeginDisconnected \/ BeginConnect \/ BeginShow \/ BeginConfig \/ BeginSave
    BY <1>1, BeginEdges, StepGuards, LeftFacts
       DEF Leaves, Walks, Writes, Aims, Edge, SessionInv, Session, BeginConnect
  <1>2. CASE Unwind \/ EndAnswered \/ ExitAnswered \/ Unwound
    BY <1>2, UnwindEdges, StepGuards, LeftFacts DEF Leaves, Walks, Writes, Fails, Edge
  <1>3. CASE ConfigureAnswered \/ SendLine \/ LineAnswered
    BY <1>3, BatchEdges, StepGuards DEF Writes, Aims, Fails, Edge
  <1>4. CASE ShowAnswered \/ SaveAnswered \/ GiveUp \/ DialFails \/ SetupFails
    BY <1>4, AnswerEdges, StepGuards, LeftFacts DEF Leaves, Fails, Edge
  <1>5. CASE BannerAnswered \/ EnableAnswered \/ PagingAnswered
    BY <1>5, SetupEdges, StepGuards, LeftFacts DEF Leaves, Writes, Aims, Restarts, Edge
  <1>6. CASE Reconnect \/ \E first \in {"user", "privileged"} : Dial(first)
    BY <1>6, SessionEdges, StepGuards DEF Retries
  <1> QED
    BY <1>1, <1>2, <1>3, <1>4, <1>5, <1>6 DEF ClientStep

LEMMA ClientStepProgress ==
    ASSUME SessionInv, LockDiscipline, Progress, ClientStep
    PROVE  Progress'
  <1>0. mu \in Proc /\ phase[mu] = "running"
    BY ProcAssumption, QuietWhenStepping DEF LockDiscipline
  <1>1. (mu # NoProc => step[mu] < Len(Calls(mu)) /\ call.kind = Calls(mu)[step[mu] + 1])'
    BY ClientStepStays DEF Stays, Leaves, Left, Progress, Calls
  <1>2. ASSUME NEW p \in Proc
        PROVE  /\ phase'[p] = "idle" => step'[p] = 0
               /\ phase'[p] = "done" => step'[p] >= 1
    <2>1. CASE Stays
      BY <1>2, <2>1 DEF Stays, Progress
    <2>2. ASSUME NEW ok \in BOOLEAN, Leaves(ok)
          PROVE  /\ phase'[p] = "idle" => step'[p] = 0
                 /\ phase'[p] = "done" => step'[p] >= 1
      <3>1. /\ step' = [step EXCEPT ![mu] = @ + 1]
            /\ phase' = IF ok THEN phase ELSE [phase EXCEPT ![mu] = "failing"]
        BY <2>2 DEF Leaves
      <3>2. phase \in [Proc -> {"idle", "running", "failing"} \cup Ended] /\ step \in [Proc -> Nat]
        BY DEF SessionInv, IInv, TypeOK
      <3>3. phase'[p] \in {"idle", "done"} => p # mu /\ phase[p] = phase'[p]
        BY <1>0, <1>2, <3>1, <3>2
      <3> QED
        BY <3>1, <3>2, <3>3 DEF Progress
    <2> QED
      BY <2>1, <2>2, ClientStepStays
  <1> QED
    BY <1>1, <1>2, ClientStepPlaces DEF Progress

LEMMA ProcProgress ==
    ASSUME SessionInv, Progress, NEW p \in Proc, ProcStep(p)
    PROVE  Progress'
  <1>1. /\ step' = step
        /\ \A q \in Proc : phase'[q] = "idle" => phase[q] = "idle"
        /\ \A q \in Proc : phase'[q] = "done" =>
              phase[q] = "done" \/ step[q] = Len(Calls(q))
    BY DEF ProcStep, Start, StartCall, Finish, procVars, SessionInv, IInv, TypeOK
  <1>2. \/ UNCHANGED <<call, mu>>
        \/ /\ mu' = p /\ call'.at = "begin" /\ call'.goal = "none" /\ call'.attempt = 0
           /\ call'.kind = Calls(p)[step[p] + 1] /\ StartCall(p)
    BY ProcStepFacts DEF ProcStep, Start, Finish, clientVars
  <1>3. \A q : Calls(q)' = Calls(q)
    BY DEF Calls
  <1>4. StartCall(p) => step[p] < Len(Calls(p))
    BY DEF StartCall
  <1>5. ASSUME NEW q \in Proc PROVE Len(Calls(q)) >= 1
    <2>1. Calls(q) \in {<<"connect">>, <<"config", "show">>, <<"config">>, <<"show">>, <<"save">>}
      BY ProgramAssumption DEF Calls, CallsOf, Operation
    <2> QED
      BY <2>1
  <1> QED
    BY <1>1, <1>2, <1>3, <1>4, <1>5 DEF Progress, SettingUp

LEMMA NextProgress ==
    ASSUME SessionInv, NoTimeouts, LockDiscipline, Progress, [Next]_vars
    PROVE  Progress'
  <1>1. CASE UNCHANGED <<call, mu, phase, step>>
    BY <1>1 DEF Progress, Calls
  <1>2. CASE Answering
    BY <1>1, <1>2, AnsweringKeeps
  <1>3. ASSUME NEW to \in PromptMode, SwitchAccepts(to) PROVE Progress'
    BY <1>1, <1>3, AcceptFacts
  <1>4. CASE UNCHANGED vars
    BY <1>1, <1>4 DEF vars, clientVars, procVars
  <1> QED
    BY <1>2, <1>3, <1>4, ClientStepProgress, ProcProgress
       DEF Next, Terminated, Answering, SwitchStep

\* The calls that change the configuration are the first of an operation
\* that holds opMu.
LEMMA ChangingCalls ==
    ASSUME SessionInv, LockDiscipline, Progress, mu \in Proc
    PROVE  /\ call.kind \in {"config", "save"} => step[mu] = 0 /\ opMu = mu
           /\ call.kind = "config" <=> Op[mu] \in {"apply", "delete"} /\ step[mu] = 0
           /\ call.kind = "save" <=> Op[mu] = "save"
           /\ call.kind = "show" /\ Op[mu] = "apply" => step[mu] = 1
           /\ step[mu] = 0 \/ step[mu] = 1
           /\ phase[mu] = "running"
  <1>1. /\ step[mu] < Len(Calls(mu)) /\ call.kind = Calls(mu)[step[mu] + 1]
        /\ step[mu] \in Nat /\ Op[mu] \in Operation
        /\ phase[mu] = "running" /\ (Locked(mu) => opMu = mu)
    BY ProcAssumption, ProgramAssumption DEF Progress, SessionInv, IInv, TypeOK, LockDiscipline
  <1>2. CASE Op[mu] = "apply"
    <2>1. Calls(mu) = <<"config", "show">>
      BY <1>2 DEF Calls, CallsOf
    <2>2. step[mu] = 0 \/ step[mu] = 1
      BY <1>1, <2>1
    <2> QED
      BY <1>1, <1>2, <2>1, <2>2 DEF Locked
  <1>3. CASE Op[mu] # "apply"
    <2>1. Calls(mu) = CASE Op[mu] = "configure" -> <<"connect">> [] Op[mu] = "delete" -> <<"config">>
                        [] Op[mu] = "read" -> <<"show">> [] Op[mu] = "save" -> <<"save">>
      BY <1>1, <1>3 DEF Calls, CallsOf, Operation
    <2>2. step[mu] = 0
      BY <1>1, <1>3, <2>1 DEF Operation
    <2> QED
      BY <1>1, <1>3, <2>1, <2>2 DEF Locked, Operation
  <1> QED
    BY <1>2, <1>3

\* How a step of the client comes to the positions the history speaks of.
LEMMA ClientStepArrives ==
    ASSUME SessionInv, Progress, ClientStep
    PROVE  /\ Entering' /\ call'.kind \in {"config", "save"} =>
                 \/ Entering /\ call'.attempt = call.attempt
                 \/ call.attempt = 0 /\ call'.attempt = 1
           /\ call'.at = "send" =>
                 /\ Stays /\ call'.attempt = call.attempt
                 /\ \/ Entering /\ call.kind = "config" /\ call'.k = 1
                    \/ call.at = "line" /\ Fine /\ call'.k = call.k + 1
           /\ call'.at = "line" =>
                 /\ Stays /\ call'.attempt = call.attempt
                 /\ call.at = "send" /\ call'.k = call.k
           /\ call'.at \in Unwinding /\ call'.goal = "final" =>
                 /\ Stays /\ call'.attempt = call.attempt
                 /\ \/ call.at \in Unwinding /\ call.goal = "final"
                    \/ call.at = "send" /\ ~(call.k <= Len(Batch[mu]))
           /\ call'.at = "single" /\ call'.kind = "save" =>
                 Stays /\ call.at = "begin" /\ call'.attempt = call.attempt
  <1> USE DEF Unwinding, Entering, Stays
  <1>1. CASE BeginDisconnected \/ BeginConnect \/ BeginShow \/ BeginConfig \/ BeginSave
    BY <1>1, BeginEdges, StepGuards, LeftFacts DEF Leaves, Walks, Writes, Aims, Edge
  <1>2. CASE Unwind \/ EndAnswered \/ ExitAnswered \/ Unwound
    <2>1. CASE Unwound
      BY <2>1, UnwindEdges, StepGuards, LeftFacts
         DEF Leaves, Walks, Writes, Edge, SessionInv, Purpose, Progress
    <2>2. CASE Unwind
      BY <2>2, UnwindEdges, StepGuards DEF Walks, Writes, Edge
    <2>3. CASE EndAnswered \/ ExitAnswered
      BY <2>3, UnwindEdges, StepGuards DEF Walks, Writes, Fails, Edge
    <2> QED
      BY <1>2, <2>1, <2>2, <2>3
  <1>3. CASE ConfigureAnswered \/ SendLine \/ LineAnswered
    BY <1>3, BatchEdges, StepGuards
       DEF Writes, Aims, Fails, Edge, Fine, Progress, SessionInv, Purpose
  <1>4. CASE ShowAnswered \/ SaveAnswered \/ GiveUp \/ DialFails \/ SetupFails
    BY <1>4, AnswerEdges, StepGuards, LeftFacts DEF Leaves, Fails, Edge
  <1>5. CASE BannerAnswered \/ EnableAnswered \/ PagingAnswered
    BY <1>5, SetupEdges, StepGuards, LeftFacts
       DEF Leaves, Writes, Aims, Restarts, Edge, Progress, SettingUp
  <1>6. CASE Reconnect \/ \E first \in {"user", "privileged"} : Dial(first)
    BY <1>6, SessionEdges
  <1> QED
    BY <1>1, <1>2, <1>3, <1>4, <1>5, <1>6 DEF ClientStep

-----------------------------------------------------------------------------
(***************************************************************************)
(* The history over a step of the client, which leaves the log alone.      *)
(***************************************************************************)
HistoryInv == /\ SessionInv /\ LockDiscipline /\ Progress
              /\ Applying /\ Attempts /\ Completed /\ Isolated

LEMMA ClientStepFacts ==
    ASSUME HistoryInv, ClientStep
    PROVE  /\ mu \in Proc /\ call \in Call /\ log' = log /\ opMu' = opMu
           /\ log \in Seq(Entry) /\ Len(log) \in Nat
           /\ \A p, n, k : AcceptedUpTo(p, n, k)' = AcceptedUpTo(p, n, k)
           /\ \A p, m, n : Beginning(p, m, n)' = Beginning(p, m, n)
           /\ \A p : Entries(p)' = Entries(p) /\ Saved(p)' = Saved(p)
           /\ Stays \/ \E ok \in BOOLEAN : Leaves(ok)
  <1>1. mu \in Proc /\ call \in Call /\ log' = log /\ opMu' = opMu
    BY ClientStepSends DEF HistoryInv
  <1>2. log \in Seq(Entry) /\ Len(log) \in Nat
    BY LenProperties DEF HistoryInv, SessionInv, IInv, TypeOK, Entry
  <1>3. /\ \A p, n, k : AcceptedUpTo(p, n, k)' = AcceptedUpTo(p, n, k)
        /\ \A p, m, n : Beginning(p, m, n)' = Beginning(p, m, n)
        /\ \A p : Entries(p)' = Entries(p) /\ Saved(p)' = Saved(p)
    BY <1>1 DEF AcceptedUpTo, Beginning, Entries, Saved
  <1> QED
    BY <1>1, <1>2, <1>3, ClientStepStays DEF HistoryInv

\* An attempt that is about to send its first command has had none accepted.
LEMMA EnteringRuns ==
    ASSUME HistoryInv, Entering, call.kind = "config"
    PROVE  Run(Len(log), 0) /\ Len(log) \in 0..Len(log)
  <1>1. log \in Seq(Entry) /\ Len(log) \in Nat
    BY LenProperties DEF HistoryInv, SessionInv, IInv, TypeOK, Entry
  <1>2. AcceptedUpTo(mu, Len(log), 0)
    BY <1>1, RunEmpty
  <1> QED
    BY <1>1, <1>2 DEF HistoryInv, Attempts, Run

LEMMA ClientStepApplying ==
    ASSUME HistoryInv, ClientStep
    PROVE  Applying'
  <1>1. /\ mu \in Proc /\ call \in Call /\ log' = log /\ Len(log) \in Nat /\ Applying
        /\ SessionInv /\ Progress /\ Len(Batch[mu]) \in Nat
    <2>1. mu \in Proc
      BY ClientStepFacts
    <2> QED
      BY <2>1, ClientStepFacts, LenProperties, ProgramAssumption DEF HistoryInv
  <1>2. ASSUME mu' = mu, call'.attempt = call.attempt
        PROVE  \A n, k : Run(n, k)' = Run(n, k)
    BY <1>2, ClientStepFacts DEF Run
  <1>3. ASSUME call'.at = "send"
        PROVE  /\ mu' = mu /\ call'.attempt = call.attempt
               /\ \E n \in 0..Len(log) : Run(n, call'.k - 1)
    <2>1. /\ mu' = mu /\ call'.attempt = call.attempt
          /\ \/ Entering /\ call.kind = "config" /\ call'.k = 1
             \/ call.at = "line" /\ Fine /\ call'.k = call.k + 1
      BY <1>1, <1>3, ClientStepArrives DEF Stays
    <2>2. CASE Entering /\ call.kind = "config" /\ call'.k = 1
      <3>1. call'.k - 1 = 0
        BY <2>2
      <3> QED
        BY <2>1, <2>2, <3>1, EnteringRuns
    <2>3. CASE call.at = "line" /\ Fine /\ call'.k = call.k + 1
      <3>1. call'.k - 1 = call.k
        BY <1>1, <2>3 DEF Call
      <3> QED
        BY <1>1, <2>1, <2>3, <3>1 DEF Applying
    <2> QED
      BY <2>1, <2>2, <2>3
  <1>4. ASSUME call'.at = "line"
        PROVE  /\ mu' = mu /\ call'.attempt = call.attempt /\ ~Fine'
               /\ \E n \in 0..Len(log) : Run(n, call'.k - 1)
    <2>1. mu' = mu /\ call'.attempt = call.attempt /\ call.at = "send" /\ call'.k = call.k
      BY <1>1, <1>4, ClientStepArrives DEF Stays
    <2>2. ~Fine'
      BY <1>1, <1>4, ClientStepSends
    <2> QED
      BY <1>1, <2>1, <2>2 DEF Applying
  <1>5. ASSUME call'.at \in Unwinding, call'.goal = "final"
        PROVE  /\ mu' = mu /\ call'.attempt = call.attempt
               /\ \E n \in 0..Len(log) : Run(n, Len(Batch[mu]))
    <2>1. /\ mu' = mu /\ call'.attempt = call.attempt
          /\ \/ call.at \in Unwinding /\ call.goal = "final"
             \/ call.at = "send" /\ ~(call.k <= Len(Batch[mu]))
      BY <1>1, <1>5, ClientStepArrives DEF Stays
    <2>2. CASE call.at \in Unwinding /\ call.goal = "final"
      BY <1>1, <2>1, <2>2 DEF Applying
    <2>3. CASE call.at = "send" /\ ~(call.k <= Len(Batch[mu]))
      <3>1. call.k - 1 = Len(Batch[mu])
        BY <1>1, <2>3 DEF SessionInv, Purpose
      <3> QED
        BY <1>1, <2>1, <2>3, <3>1 DEF Applying
    <2> QED
      BY <2>1, <2>2, <2>3
  <1>6. (call.at = "send" => \E n \in 0..Len(log) : Run(n, call.k - 1))'
    BY <1>1, <1>2, <1>3
  <1>7. /\ (call.at = "line" /\ InFlight => \E n \in 0..Len(log) : Run(n, call.k - 1))'
        /\ (call.at = "line" /\ Fine => \E n \in 0..Len(log) : Run(n, call.k))'
    BY <1>1, <1>2, <1>4
  <1>8. (call.at \in Unwinding /\ call.goal = "final" =>
            \E n \in 0..Len(log) : Run(n, Len(Batch[mu])))'
    BY <1>1, <1>2, <1>5 DEF Unwinding
  <1> QED
    BY <1>6, <1>7, <1>8 DEF Applying

LEMMA ClientStepAttempts ==
    ASSUME HistoryInv, ClientStep
    PROVE  Attempts'
  <1>1. /\ mu \in Proc /\ log' = log /\ Len(log) \in Nat /\ Attempts /\ SessionInv /\ Progress
        /\ \A p : Entries(p)' = Entries(p) /\ Saved(p)' = Saved(p)
        /\ \A p, m, n : Beginning(p, m, n)' = Beginning(p, m, n)
        /\ Stays \/ \E ok \in BOOLEAN : Leaves(ok)
        /\ step \in [Proc -> Nat]
    BY ClientStepFacts DEF HistoryInv, SessionInv, IInv, TypeOK
  <1>2. ASSUME NEW p \in Proc, step'[p] = 0, mu' # p PROVE Entries(p) = {}
    <2>1. CASE Stays
      BY <1>1, <1>2, <2>1 DEF Stays, Attempts
    <2>2. ASSUME NEW ok \in BOOLEAN, Leaves(ok) PROVE Entries(p) = {}
      <3>1. step' = [step EXCEPT ![mu] = @ + 1]
        BY <2>2 DEF Leaves
      <3>2. p # mu /\ step[p] = 0
        BY <1>1, <1>2, <3>1
      <3> QED
        BY <1>1, <3>2 DEF Attempts
    <2> QED
      BY <1>1, <2>1, <2>2
  <1>3. call'.kind # "none" => Stays
    BY <1>1, LeftFacts DEF Leaves
  <1>4. ASSUME call'.kind \in {"config", "save"}, Entering', call'.attempt = 0
        PROVE  mu' = mu /\ Entries(mu) = {}
    <2>1. Stays /\ Entering /\ call.attempt = 0
      BY <1>1, <1>3, <1>4, ClientStepArrives
    <2> QED
      BY <1>1, <1>4, <2>1 DEF Stays, Attempts
  <1>5. ASSUME call'.at = "single", call'.kind = "save"
        PROVE  mu' = mu /\ Entries(mu) = {}
    <2>1. Stays /\ call.at = "begin"
      BY <1>1, <1>5, ClientStepArrives
    <2> QED
      BY <1>1, <1>5, <2>1 DEF Stays, Attempts, Progress, Entering
  <1>6. ASSUME call'.kind = "config", Entering' \/ call'.attempt = 0
        PROVE  mu' = mu /\ Beginning(mu, 0, Len(log))
    <2>1. Stays
      BY <1>3, <1>6
    <2>2. Entering \/ call.attempt = 0
      <3>1. CASE Entering'
        BY <1>1, <1>6, <3>1, ClientStepArrives
      <3>2. CASE call'.attempt = 0
        BY <2>1, <3>2 DEF Stays
      <3> QED
        BY <1>6, <3>1, <3>2
    <2> QED
      BY <1>1, <1>6, <2>1, <2>2 DEF Stays, Attempts
  <1>7. \A p \in Proc : \E n \in 0..Len(log) : Beginning(p, 0, n) /\ Beginning(p, n, Len(log))
    BY <1>1 DEF Attempts
  <1>8. (\A p \in Proc : step[p] = 0 /\ mu # p => Entries(p) = {})'
    BY <1>1, <1>2
  <1>9. (call.kind \in {"config", "save"} /\ Entering /\ call.attempt = 0 => Entries(mu) = {})'
    BY <1>1, <1>4
  <1>10. (call.at = "single" /\ call.kind = "save" /\ InFlight => Entries(mu) = {})'
    BY <1>1, <1>5
  <1>11. (call.kind = "config" /\ (Entering \/ call.attempt = 0) => Beginning(mu, 0, Len(log)))'
    BY <1>1, <1>6
  <1>12. (\A p \in Proc : \E n \in 0..Len(log) :
             Beginning(p, 0, n) /\ Beginning(p, n, Len(log)))'
    BY <1>1, <1>7
  <1> QED
    BY <1>8, <1>9, <1>10, <1>11, <1>12 DEF Attempts

\* A call returns without an error only when its work is done.
LEMMA LeavesDone ==
    ASSUME HistoryInv, ClientStep, Leaves(TRUE)
    PROVE  /\ call.kind = "config" => \E n \in 0..Len(log) : AcceptedUpTo(mu, n, Len(Batch[mu]))
           /\ call.kind = "save" => Saved(mu)
  <1>1. /\ SessionInv /\ Progress /\ mu \in Proc /\ NoProc \notin Proc
        /\ phase \in [Proc -> {"idle", "running", "failing"} \cup Ended]
        /\ phase[mu] = "running"
    BY ClientStepFacts, ProcAssumption DEF HistoryInv, LockDiscipline, SessionInv, IInv, TypeOK
  <1>2. ~Stays /\ ~Leaves(FALSE) /\ mu' # mu
    <2>1. mu' = NoProc /\ phase' = phase
      BY DEF Leaves, Left
    <2>2. [phase EXCEPT ![mu] = "failing"][mu] = "failing"
      BY <1>1
    <2> QED
      BY <1>1, <2>1, <2>2 DEF Leaves, Stays
  <1>3. CASE BeginDisconnected \/ BeginConnect \/ BeginShow \/ BeginConfig \/ BeginSave
    BY <1>1, <1>2, <1>3, BeginEdges DEF Walks, Writes, Aims, Edge, Stays, BeginConnect
  <1>4. CASE Unwind \/ EndAnswered \/ ExitAnswered \/ Unwound
    <2>1. CASE Unwound /\ call.goal = "final"
      BY <1>1, <2>1, StepGuards DEF HistoryInv, Applying, Run, Unwinding, SessionInv, Purpose
    <2>2. CASE ~(Unwound /\ call.goal = "final")
      BY <1>1, <1>2, <1>4, <2>2, UnwindEdges DEF Walks, Writes, Fails, Edge, Stays
    <2> QED
      BY <2>1, <2>2
  <1>5. CASE ConfigureAnswered \/ SendLine \/ LineAnswered
    BY <1>1, <1>2, <1>5, BatchEdges DEF Writes, Aims, Fails, Edge, Stays
  <1>6. CASE ShowAnswered \/ GiveUp \/ DialFails \/ SetupFails
    BY <1>1, <1>2, <1>6, AnswerEdges, StepGuards
  <1>7. CASE SaveAnswered
    <2>1. Leaves(reply.tag = "ok" /\ ~reply.err)
      BY <1>1, <1>7, AnswerEdges
    <2>2. reply.tag = "ok" /\ ~reply.err
      <3>1. ASSUME ~(reply.tag = "ok" /\ ~reply.err) PROVE phase' = [phase EXCEPT ![mu] = "failing"]
        BY <2>1, <3>1 DEF Leaves
      <3> QED
        BY <1>2, <3>1 DEF Leaves
    <2> QED
      BY <1>7, <2>2, StepGuards DEF HistoryInv, Completed, Fine
  <1>8. CASE BannerAnswered \/ EnableAnswered \/ PagingAnswered
    BY <1>1, <1>2, <1>8, SetupEdges DEF Writes, Aims, Restarts, Edge, Stays
  <1>9. CASE Reconnect \/ \E first \in {"user", "privileged"} : Dial(first)
    BY <1>1, <1>2, <1>9, SessionEdges DEF Stays
  <1> QED
    BY <1>3, <1>4, <1>5, <1>6, <1>7, <1>8, <1>9 DEF ClientStep

LEMMA ClientStepCompleted ==
    ASSUME HistoryInv, ClientStep
    PROVE  Completed'
  <1>1. /\ mu \in Proc /\ log' = log /\ Completed /\ NoProc \notin Proc
        /\ \A p : Entries(p)' = Entries(p) /\ Saved(p)' = Saved(p)
        /\ \A p, n, k : AcceptedUpTo(p, n, k)' = AcceptedUpTo(p, n, k)
        /\ Stays \/ \E ok \in BOOLEAN : Leaves(ok)
        /\ phase \in [Proc -> {"idle", "running", "failing"} \cup Ended] /\ step \in [Proc -> Nat]
        /\ SessionInv /\ LockDiscipline /\ Progress
    BY ClientStepFacts, ProcAssumption DEF HistoryInv, SessionInv, IInv, TypeOK
  <1> DEFINE Done(p) ==
                /\ Op[p] \in {"apply", "delete"} =>
                      \E n \in 0..Len(log) : AcceptedUpTo(p, n, Len(Batch[p]))
                /\ Op[p] = "save" => Saved(p)
  <1>2. ASSUME NEW p \in Proc, phase'[p] \in {"running", "done"}, step'[p] >= 1
        PROVE  Done(p)
    <2>1. CASE phase[p] = phase'[p] /\ step[p] = step'[p]
      BY <1>1, <1>2, <2>1 DEF Completed
    <2>2. CASE Stays
      BY <2>1, <2>2 DEF Stays
    <2>3. ASSUME NEW ok \in BOOLEAN, Leaves(ok) PROVE Done(p)
      <3>1. /\ step' = [step EXCEPT ![mu] = @ + 1]
            /\ phase' = IF ok THEN phase ELSE [phase EXCEPT ![mu] = "failing"]
        BY <2>3 DEF Leaves
      <3>2. CASE p # mu
        BY <1>1, <2>1, <3>1, <3>2
      <3>3. CASE p = mu
        <4>1. ok = TRUE
          BY <1>1, <1>2, <3>1, <3>3
        <4>2. /\ call.kind = "config" =>
                    \E n \in 0..Len(log) : AcceptedUpTo(mu, n, Len(Batch[mu]))
              /\ call.kind = "save" => Saved(mu)
          BY <2>3, <4>1, LeavesDone
        <4>3. CASE step[mu] = 0
          BY <1>1, <3>3, <4>2, <4>3, ChangingCalls
        <4>4. CASE step[mu] >= 1
          <5>1. phase[mu] = "running"
            BY <1>1, ChangingCalls
          <5> QED
            BY <1>1, <3>3, <4>4, <5>1 DEF Completed
        <4> QED
          BY <1>1, <4>3, <4>4
      <3> QED
        BY <3>2, <3>3
    <2> QED
      BY <1>1, <2>2, <2>3
  <1>3. call'.at = "single" => ~Fine'
    BY <1>1, ClientStepSends
  <1>4. (\A p \in Proc : phase[p] \in {"running", "done"} /\ step[p] >= 1 =>
            /\ Op[p] \in {"apply", "delete"} =>
                  \E n \in 0..Len(log) : AcceptedUpTo(p, n, Len(Batch[p]))
            /\ Op[p] = "save" => Saved(p))'
    BY <1>1, <1>2
  <1> QED
    BY <1>3, <1>4 DEF Completed

LEMMA ClientStepHistory ==
    ASSUME HistoryInv, ClientStep
    PROVE  Applying' /\ Attempts' /\ Completed' /\ Isolated'
  <1>1. Isolated'
    <2>1. log' = log /\ opMu' = opMu /\ \A p : Entries(p)' = Entries(p) /\ Saved(p)' = Saved(p)
      BY ClientStepFacts
    <2> QED
      BY <2>1 DEF HistoryInv, Isolated
  <1> QED
    BY <1>1, ClientStepApplying, ClientStepAttempts, ClientStepCompleted

-----------------------------------------------------------------------------
(***************************************************************************)
(* The history when the switch accepts a command.                          *)
(***************************************************************************)
LEMMA AcceptCases ==
    ASSUME HistoryInv, NEW to \in PromptMode, SwitchAccepts(to)
    PROVE  /\ UNCHANGED <<call, mu, phase, step, opMu>> /\ mu \in Proc /\ InFlight /\ ~InFlight'
           /\ call \in Call /\ call.at \in AnswerAt /\ log \in Seq(Entry) /\ Len(log) \in Nat
           /\ \/ /\ call.at = "line" /\ call.kind = "config" /\ call.k \in Nat \ {0}
                 /\ Batch[mu][call.k].op \in ConfigOp
                 /\ log' = Append(log, [by |-> mu, i |-> call.k])
              \/ /\ call.at = "line" /\ call.kind = "config" /\ call.k \in Nat \ {0}
                 /\ Batch[mu][call.k].op \notin ConfigOp /\ log' = log
              \/ /\ call.at = "single" /\ call.kind = "save"
                 /\ log' = Append(log, [by |-> mu, i |-> 0])
              \/ /\ call.at # "line" /\ ~(call.at = "single" /\ call.kind = "save")
                 /\ log' = log
  <1>1. /\ UNCHANGED <<call, mu, phase, step, opMu>> /\ mu \in Proc /\ InFlight /\ ~InFlight'
        /\ call.at \in AnswerAt
        /\ log' = IF SentOp \in LoggedOp THEN Append(log, [by |-> mu, i |-> SentIndex]) ELSE log
    BY AcceptFacts DEF HistoryInv
  <1>2. call \in Call /\ log \in Seq(Entry) /\ Purpose
    BY DEF HistoryInv, SessionInv, IInv, TypeOK, Entry
  <1>3. Len(log) \in Nat
    BY <1>2, LenProperties
  <1>4. CASE call.at = "line"
    <2>1. call.kind = "config" /\ call.k \in 1..Len(Batch[mu]) /\ call.k \in Nat
      BY <1>2, <1>4 DEF Purpose, Call
    <2>2. call.k \in Nat \ {0}
      BY <2>1
    <2>3. Batch[mu][call.k].op \in ConfigOp \cup {"end"}
      <3>1. Batch[mu] \in Seq(BatchCommand)
        BY <1>1, ProgramAssumption
      <3>2. Batch[mu][call.k] \in BatchCommand
        BY <2>1, <3>1, ElementOfSeq
      <3> QED
        BY <3>2 DEF BatchCommand
    <2>4. SentOp = Batch[mu][call.k].op /\ SentIndex = call.k
      BY <1>4 DEF SentOp, SentIndex
    <2>5. SentOp \in LoggedOp <=> Batch[mu][call.k].op \in ConfigOp
      BY <2>3, <2>4 DEF LoggedOp, ConfigOp
    <2> QED
      BY <1>1, <1>2, <1>3, <1>4, <2>1, <2>2, <2>4, <2>5
  <1>5. CASE call.at = "single" /\ call.kind = "save"
    <2>1. SentOp = "write" /\ SentIndex = 0
      BY <1>5 DEF SentOp, SentIndex
    <2> QED
      BY <1>1, <1>2, <1>3, <1>5, <2>1 DEF LoggedOp
  <1>6. CASE call.at # "line" /\ ~(call.at = "single" /\ call.kind = "save")
    <2>1. SentOp \notin LoggedOp
      <3>1. CASE call.at = "single"
        <4>1. call.kind = "show" /\ SentOp = "show"
          BY <1>2, <1>6, <3>1 DEF Purpose, SentOp
        <4> QED
          BY <4>1 DEF LoggedOp, ConfigOp
      <3>2. CASE call.at # "single"
        BY <1>1, <1>6, <3>2 DEF SentOp, LoggedOp, ConfigOp, AnswerAt
      <3> QED
        BY <3>1, <3>2
    <2> QED
      BY <1>1, <1>2, <1>3, <1>6, <2>1
  <1> QED
    BY <1>4, <1>5, <1>6

\* A command that is no configuration command leaves the log alone.
LEMMA AcceptUnlogged ==
    ASSUME HistoryInv, NEW to \in PromptMode, SwitchAccepts(to), log' = log
    PROVE  Applying' /\ Attempts' /\ Completed' /\ Isolated'
  <1>1. /\ UNCHANGED <<call, mu, phase, step, opMu>> /\ mu \in Proc /\ InFlight /\ ~InFlight'
        /\ call \in Call /\ call.at \in AnswerAt /\ Len(log) \in Nat
        /\ ~(call.at = "single" /\ call.kind = "save")
        /\ call.at = "line" => /\ call.k \in Nat \ {0}
                               /\ Batch[mu][call.k].op \notin ConfigOp
    <2>1. ASSUME NEW e, log' = Append(log, e) PROVE FALSE
      <3>1. Len(Append(log, e)) = Len(log) + 1 /\ Len(log) \in Nat
        <4>1. log \in Seq(Entry)
          BY DEF HistoryInv, SessionInv, IInv, TypeOK, Entry
        <4> QED
          BY <4>1, LenProperties, AppendProperties
      <3> QED
        BY <2>1, <3>1
    <2> QED
      BY <2>1, AcceptCases
  <1>2. /\ \A p, n, k : AcceptedUpTo(p, n, k)' = AcceptedUpTo(p, n, k)
        /\ \A p, m, n : Beginning(p, m, n)' = Beginning(p, m, n)
        /\ \A p : Entries(p)' = Entries(p) /\ Saved(p)' = Saved(p)
    BY DEF AcceptedUpTo, Beginning, Entries, Saved
  <1>3. /\ \A n, k : Run(n, k)' = Run(n, k)
        /\ Entering' = Entering
    BY <1>1, <1>2 DEF Run, Entering
  <1>4. call.at = "line" => \E n \in 0..Len(log) : Run(n, call.k)
    <2> SUFFICES ASSUME call.at = "line" PROVE \E n \in 0..Len(log) : Run(n, call.k)
      OBVIOUS
    <2>1. PICK n \in 0..Len(log) : Run(n, call.k - 1)
      BY <1>1 DEF HistoryInv, Applying
    <2>2. AcceptedUpTo(mu, n, call.k)
      BY <1>1, <2>1, RunSkips DEF Run
    <2> QED
      BY <2>1, <2>2 DEF Run
  <1>5. Applying'
    BY <1>1, <1>3, <1>4 DEF HistoryInv, Applying, AnswerAt, Unwinding
  <1>6. Attempts'
    BY <1>1, <1>2, <1>3 DEF HistoryInv, Attempts
  <1>7. Completed'
    BY <1>1, <1>2 DEF HistoryInv, Completed
  <1>8. Isolated'
    BY <1>1, <1>2 DEF HistoryInv, Isolated
  <1> QED
    BY <1>5, <1>6, <1>7, <1>8

\* What an entry of the operation that holds opMu leaves to the others.
LEMMA AcceptLogged ==
    ASSUME HistoryInv, NEW to \in PromptMode, SwitchAccepts(to), NEW i \in Nat,
           log' = Append(log, [by |-> mu, i |-> i]), call.kind \in {"config", "save"}
    PROVE  /\ Len(log') = Len(log) + 1 /\ Isolated'
           /\ \A p \in Proc : step'[p] = 0 /\ mu' # p => Entries(p)' = {}
           /\ \A p \in Proc \ {mu} : \E n \in 0..Len(log') :
                 Beginning(p, 0, n)' /\ Beginning(p, n, Len(log))'
           /\ (\A p \in Proc : phase[p] \in {"running", "done"} /\ step[p] >= 1 =>
                 /\ Op[p] \in {"apply", "delete"} =>
                       \E n \in 0..Len(log) : AcceptedUpTo(p, n, Len(Batch[p]))
                 /\ Op[p] = "save" => Saved(p))'
  <1>1. /\ UNCHANGED <<call, mu, phase, step, opMu>> /\ mu \in Proc
        /\ log \in Seq(Entry) /\ Len(log) \in Nat
    BY AcceptCases
  <1> DEFINE e == [by |-> mu, i |-> i]
  <1>2. e \in Entry /\ e.by = mu
    BY <1>1 DEF Entry
  <1>3. step[mu] = 0 /\ opMu = mu
    BY <1>1, ChangingCalls DEF HistoryInv
  <1>4. /\ Len(log') = Len(log) + 1 /\ DOMAIN log' = 1..(Len(log) + 1)
        /\ log'[Len(log) + 1] = e
    BY <1>1, <1>2, LogAppended
  <1>5. ASSUME NEW p \in Proc, p # mu
        PROVE  /\ Entries(p)' = Entries(p) /\ (Saved(p) => Saved(p)')
               /\ \A m \in Nat : \A n \in 0..Len(log) :
                     /\ Beginning(p, m, n) => Beginning(p, m, n)'
                     /\ Beginning(p, n, Len(log)) => Beginning(p, n, Len(log))'
               /\ \A n \in 0..Len(log), k \in Nat :
                     AcceptedUpTo(p, n, k) => AcceptedUpTo(p, n, k)'
    <2> HIDE DEF e
    <2>1. log' = Append(log, e) /\ p # e.by
      BY <1>2, <1>5 DEF e
    <2> QED
      BY <1>1, <1>2, <1>5, <2>1, OthersKeepLog
  <1>6. Isolated'
    BY <1>1, <1>3, <1>4 DEF Isolated
  <1>7. \A p \in Proc : step'[p] = 0 /\ mu' # p => Entries(p)' = {}
    BY <1>1, <1>5 DEF HistoryInv, Attempts
  <1>8. ASSUME NEW p \in Proc \ {mu}
        PROVE  \E n \in 0..Len(log') : Beginning(p, 0, n)' /\ Beginning(p, n, Len(log))'
    <2>1. PICK n \in 0..Len(log) : Beginning(p, 0, n) /\ Beginning(p, n, Len(log))
      BY DEF HistoryInv, Attempts
    <2>2. Beginning(p, 0, n)' /\ Beginning(p, n, Len(log))' /\ n \in 0..Len(log')
      BY <1>1, <1>4, <1>5, <2>1
    <2> QED
      BY <2>2
  <1>9. ASSUME NEW p \in Proc, phase'[p] \in {"running", "done"}, step'[p] >= 1
        PROVE  /\ Op[p] \in {"apply", "delete"} =>
                     \E n \in 0..Len(log') : AcceptedUpTo(p, n, Len(Batch[p]))'
               /\ Op[p] = "save" => Saved(p)'
    <2>1. p # mu /\ Len(Batch[p]) \in Nat
      <3>1. p # mu
        BY <1>1, <1>3, <1>9
      <3> QED
        BY <3>1, LenProperties, ProgramAssumption
    <2>2. /\ Op[p] \in {"apply", "delete"} =>
                \E n \in 0..Len(log) : AcceptedUpTo(p, n, Len(Batch[p]))
          /\ Op[p] = "save" => Saved(p)
      BY <1>1, <1>9 DEF HistoryInv, Completed
    <2>3. \A n \in 0..Len(log) : n \in 0..Len(log')
                                 /\ (AcceptedUpTo(p, n, Len(Batch[p]))
                                        => AcceptedUpTo(p, n, Len(Batch[p]))')
      BY <1>1, <1>4, <1>5, <2>1
    <2> QED
      BY <1>5, <2>1, <2>2, <2>3
  <1> QED
    BY <1>4, <1>6, <1>7, <1>8, <1>9

LEMMA AcceptLine ==
    ASSUME HistoryInv, NEW to \in PromptMode, SwitchAccepts(to),
           call.at = "line", call.kind = "config", call.k \in Nat \ {0},
           Batch[mu][call.k].op \in ConfigOp, log' = Append(log, [by |-> mu, i |-> call.k])
    PROVE  Applying' /\ Attempts' /\ Completed' /\ Isolated'
  <1>1. /\ UNCHANGED <<call, mu, phase, step, opMu>> /\ mu \in Proc /\ InFlight /\ ~InFlight'
        /\ log \in Seq(Entry) /\ Len(log) \in Nat
    BY AcceptCases
  <1>2. PICK n \in 0..Len(log) : Run(n, call.k - 1)
    BY <1>1 DEF HistoryInv, Applying
  <1>3. /\ AcceptedUpTo(mu, n, call.k)'
        /\ Entries(mu)' = Entries(mu) \cup {Len(log) + 1}
        /\ Beginning(mu, 0, n)' /\ Beginning(mu, n, Len(log))'
    <2>1. Op[mu] \in {"apply", "delete"}
      BY <1>1, ChangingCalls DEF HistoryInv
    <2> QED
      BY <1>1, <1>2, <2>1, RunAppended DEF Run
  <1>4. call.attempt = 0 => \A j \in Entries(mu)' : j > n
    BY <1>1, <1>2, <1>3 DEF Run
  <1>5. Len(log') = Len(log) + 1 /\ n \in 0..Len(log')
    BY <1>1, AcceptLogged
  <1>6. Run(n, call.k)'
    BY <1>1, <1>3, <1>4 DEF Run
  <1>7. Applying'
    BY <1>1, <1>5, <1>6 DEF Applying, Unwinding
  <1>8. call.attempt = 0 => Beginning(mu, 0, Len(log))'
    <2> SUFFICES ASSUME call.attempt = 0 PROVE Beginning(mu, 0, Len(log))'
      OBVIOUS
    <2>1. \A j \in Entries(mu)' : n < j /\ 0 < j
      <3>1. \A j \in Entries(mu)' : j \in Nat
        BY <1>1, <1>3 DEF Entries
      <3> QED
        BY <1>1, <1>4, <3>1
    <2> QED
      BY <1>3, <2>1 DEF Beginning
  <1>9. Attempts'
    <2>1. ~Entering'
      BY <1>1 DEF Entering, Unwinding
    <2>2. \A p \in Proc : \E m \in 0..Len(log') : Beginning(p, 0, m)' /\ Beginning(p, m, Len(log))'
      BY <1>1, <1>3, <1>5, AcceptLogged
    <2>3. \A p \in Proc : step'[p] = 0 /\ mu' # p => Entries(p)' = {}
      BY <1>1, AcceptLogged
    <2> QED
      BY <1>1, <1>8, <2>1, <2>2, <2>3 DEF Attempts
  <1>10. Completed'
    BY <1>1, AcceptLogged DEF Completed
  <1>11. Isolated'
    BY <1>1, AcceptLogged
  <1> QED
    BY <1>7, <1>9, <1>10, <1>11

LEMMA AcceptSave ==
    ASSUME HistoryInv, NEW to \in PromptMode, SwitchAccepts(to),
           call.at = "single", call.kind = "save", log' = Append(log, [by |-> mu, i |-> 0])
    PROVE  /\ Applying' /\ Attempts' /\ Completed' /\ Isolated'
           /\ \A m, n : Beginning(mu, m, n)'
  <1>1. /\ UNCHANGED <<call, mu, phase, step, opMu>> /\ mu \in Proc /\ InFlight /\ ~InFlight'
        /\ log \in Seq(Entry) /\ Len(log) \in Nat
    BY AcceptCases
  <1>2. Entries(mu) = {}
    BY <1>1 DEF HistoryInv, Attempts
  <1>3. /\ Len(log') = Len(log) + 1 /\ DOMAIN log' = 1..(Len(log) + 1)
        /\ \A j \in 1..Len(log) : log'[j] = log[j]
        /\ DOMAIN log = 1..Len(log)
        /\ log'[Len(log) + 1].by = mu /\ log'[Len(log) + 1].i = 0
    <2> DEFINE e == [by |-> mu, i |-> 0]
    <2>1. e \in Entry /\ e.by = mu /\ e.i = 0
      BY <1>1 DEF Entry
    <2> HIDE DEF e
    <2>2. log' = Append(log, e)
      BY DEF e
    <2> QED
      BY <1>1, <2>1, <2>2, LogAppended
  <1>4. Entries(mu)' = {Len(log) + 1}
    BY <1>1, <1>2, <1>3 DEF Entries
  <1>5. \A m, n : Beginning(mu, m, n)'
    <2>1. \A b \in Entries(mu)' : log'[b].i = 0
      BY <1>3, <1>4
    <2>2. WritesOf(mu) \subseteq Nat
      BY <1>1, WritesOfNat
    <2>3. \A a, b \in Entries(mu)' : ~(a < b)
      BY <1>1, <1>4
    <2>4. \A i \in WritesOf(mu) : ~(i < 0)
      BY <2>2
    <2>5. \A b \in Entries(mu)', i \in WritesOf(mu) : ~(i < log'[b].i)
      BY <2>1, <2>4
    <2> QED
      BY <1>1, <2>3, <2>5 DEF Beginning
  <1>6. Applying'
    BY <1>1 DEF Applying, Unwinding
  <1>7. Attempts'
    <2>1. ~Entering'
      BY <1>1 DEF Entering, Unwinding
    <2>2. \A p \in Proc : \E m \in 0..Len(log') : Beginning(p, 0, m)' /\ Beginning(p, m, Len(log))'
      BY <1>1, <1>3, <1>5, AcceptLogged
    <2>3. \A p \in Proc : step'[p] = 0 /\ mu' # p => Entries(p)' = {}
      BY <1>1, AcceptLogged
    <2> QED
      BY <1>1, <2>1, <2>2, <2>3 DEF Attempts
  <1>8. Completed'
    <2>1. Saved(mu)'
      BY <1>1, <1>3, <1>4 DEF Saved
    <2> QED
      BY <1>1, <2>1, AcceptLogged DEF Completed
  <1>9. Isolated'
    BY <1>1, AcceptLogged
  <1> QED
    BY <1>5, <1>6, <1>7, <1>8, <1>9

-----------------------------------------------------------------------------
(***************************************************************************)
(* The history over the other steps.                                       *)
(***************************************************************************)
\* What the history says, when log and call stay and no answer gets better.
LEMMA HistoryStays ==
    ASSUME HistoryInv, UNCHANGED <<call, mu, step, log>>, InFlight' => InFlight, Fine' => Fine
    PROVE  Applying' /\ Attempts'
  <1>1. /\ \A p, n, k : AcceptedUpTo(p, n, k)' = AcceptedUpTo(p, n, k)
        /\ \A p, m, n : Beginning(p, m, n)' = Beginning(p, m, n)
        /\ \A p : Entries(p)' = Entries(p) /\ Saved(p)' = Saved(p)
    BY DEF AcceptedUpTo, Beginning, Entries, Saved
  <1>2. (\A n, k : Run(n, k)' = Run(n, k)) /\ Entering' = Entering
    BY <1>1 DEF Run, Entering
  <1>3. Applying'
    BY <1>2 DEF HistoryInv, Applying, Unwinding
  <1>4. Attempts'
    BY <1>1, <1>2 DEF HistoryInv, Attempts
  <1> QED
    BY <1>3, <1>4

LEMMA AnsweringHistory ==
    ASSUME HistoryInv, NoTimeouts, Answering \/ UNCHANGED vars
    PROVE  Applying' /\ Attempts' /\ Completed' /\ Isolated'
  <1>1. UNCHANGED <<call, mu, phase, step, opMu, log>> /\ (InFlight' => InFlight) /\ (Fine' => Fine)
    <2>1. CASE Answering
      BY <2>1, AnsweringKeeps DEF HistoryInv
    <2>2. CASE UNCHANGED vars
      BY <2>2 DEF vars, procVars, clientVars, readVars, switchVars, pipeVars, InFlight, Fine,
                  Prompted, Answer
    <2> QED
      BY <2>1, <2>2
  <1>2. /\ \A p, n, k : AcceptedUpTo(p, n, k)' = AcceptedUpTo(p, n, k)
        /\ \A p : Entries(p)' = Entries(p) /\ Saved(p)' = Saved(p)
    BY <1>1 DEF AcceptedUpTo, Entries, Saved
  <1>3. Completed'
    BY <1>1, <1>2 DEF HistoryInv, Completed
  <1>4. Isolated'
    BY <1>1, <1>2 DEF HistoryInv, Isolated
  <1> QED
    BY <1>1, <1>3, <1>4, HistoryStays

LEMMA ProcHistory ==
    ASSUME HistoryInv, NEW p \in Proc, ProcStep(p)
    PROVE  Applying' /\ Attempts' /\ Completed' /\ Isolated'
  <1>1. /\ UNCHANGED <<step, log, toSwitch, running, toClient, reply>> /\ SessionInv
        /\ \/ UNCHANGED <<call, mu>>
           \/ /\ mu = NoProc /\ mu' = p /\ call'.at = "begin" /\ call'.goal = "none"
              /\ call'.attempt = 0 /\ StartCall(p)
              /\ call'.kind = Calls(p)[step[p] + 1]
    BY ProcStepFacts DEF HistoryInv, switchVars, pipeVars, readVars, ProcStep, Start, StartCall,
                         Finish, procVars, clientVars
  <1>2. InFlight' = InFlight /\ Fine' = Fine
    BY <1>1 DEF InFlight, Fine, Prompted, Answer
  <1>3. /\ \A q, n, k : AcceptedUpTo(q, n, k)' = AcceptedUpTo(q, n, k)
        /\ \A q, m, n : Beginning(q, m, n)' = Beginning(q, m, n)
        /\ \A q : Entries(q)' = Entries(q) /\ Saved(q)' = Saved(q)
    BY <1>1 DEF AcceptedUpTo, Beginning, Entries, Saved
  <1>4. phase \in [Proc -> {"idle", "running", "failing"} \cup Ended] /\ step \in [Proc -> Nat]
        /\ LockDiscipline /\ Progress /\ Attempts /\ Completed /\ Isolated /\ Len(log) \in Nat
    BY LenProperties DEF HistoryInv, SessionInv, IInv, TypeOK
  <1>5. Applying' /\ Attempts'
    <2>1. CASE UNCHANGED <<call, mu>>
      BY <1>1, <1>2, <2>1, HistoryStays
    <2>2. CASE ~UNCHANGED <<call, mu>>
      <3>1. /\ mu' = p /\ mu = NoProc /\ call'.at = "begin" /\ call'.goal = "none"
            /\ call'.attempt = 0
            /\ step[p] < Len(Calls(p)) /\ call'.kind = Calls(p)[step[p] + 1]
        BY <1>1, <2>2 DEF StartCall
      <3>2. call'.kind \in {"config", "save"} => step[p] = 0
        <4>1. CASE Op[p] = "apply"
          <5>1. Calls(p) = <<"config", "show">>
            BY <4>1 DEF Calls, CallsOf
          <5>2. step[p] = 0 \/ step[p] = 1
            BY <1>4, <3>1, <5>1
          <5> QED
            BY <3>1, <5>1, <5>2
        <4>2. CASE Op[p] # "apply"
          <5>1. Calls(p) \in {<<"connect">>, <<"config">>, <<"show">>, <<"save">>}
            BY <4>2, ProgramAssumption DEF Calls, CallsOf, Operation
          <5> QED
            BY <1>4, <3>1, <5>1
        <4> QED
          BY <4>1, <4>2
      <3>3. call'.kind \in {"config", "save"} => Entries(p) = {}
        BY <1>4, <3>1, <3>2, ProcAssumption DEF Attempts
      <3>4. Applying'
        BY <3>1 DEF Applying, Unwinding
      <3>5. call'.kind \in {"config", "save"} => Beginning(p, 0, Len(log))
        BY <3>3 DEF Beginning
      <3>6. \A q \in Proc : \E n \in 0..Len(log) : Beginning(q, 0, n) /\ Beginning(q, n, Len(log))
        BY <1>4 DEF Attempts
      <3>7. \A q \in Proc : step'[q] = 0 /\ mu' # q => Entries(q)' = {}
        BY <1>1, <1>3, <1>4, <3>1, ProcAssumption DEF Attempts
      <3>8. Attempts'
        BY <1>1, <1>3, <3>1, <3>3, <3>5, <3>6, <3>7 DEF Attempts
      <3> QED
        BY <3>4, <3>8
    <2> QED
      BY <2>1, <2>2
  <1>6. ASSUME NEW q \in Proc, phase'[q] \in {"running", "done"}, step'[q] >= 1
        PROVE  phase[q] \in {"running", "done"}
    <2>1. CASE Start(p)
      BY <1>1, <1>4, <1>6, <2>1 DEF Start, Progress
    <2>2. CASE StartCall(p)
      BY <1>6, <2>2 DEF StartCall, procVars
    <2>3. CASE Finish(p)
      BY <1>4, <1>6, <2>3 DEF Finish
    <2> QED
      BY <2>1, <2>2, <2>3 DEF ProcStep
  <1>7. Completed'
    <2>1. \A q \in Proc : phase'[q] \in {"running", "done"} /\ step'[q] >= 1 =>
             /\ Op[q] \in {"apply", "delete"} =>
                   \E n \in 0..Len(log) : AcceptedUpTo(q, n, Len(Batch[q]))
             /\ Op[q] = "save" => Saved(q)
      BY <1>1, <1>4, <1>6 DEF Completed
    <2>2. (call.at = "single" /\ call.kind = "save" /\ Fine => Saved(mu))'
      BY <1>1, <1>2, <1>3, <1>4 DEF Completed
    <2> QED
      BY <1>1, <1>3, <2>1, <2>2 DEF Completed
  <1>8. Isolated'
    <2>1. CASE Start(p) /\ Locked(p)
      <3>1. opMu' = p /\ phase[p] = "idle"
        BY <2>1 DEF Start
      <3>2. mu # p /\ step[p] = 0
        BY <1>4, <3>1, ProcAssumption DEF LockDiscipline, Progress
      <3>3. Entries(p) = {}
        BY <1>4, <3>2 DEF Attempts
      <3> QED
        BY <1>3, <3>1, <3>3 DEF Isolated
    <2>2. CASE ~(Start(p) /\ Locked(p))
      <3>1. opMu' = opMu \/ opMu' = NoProc
        BY <2>2 DEF ProcStep, Start, StartCall, Finish, procVars
      <3> QED
        BY <1>1, <1>3, <1>4, <3>1 DEF Isolated
    <2> QED
      BY <2>1, <2>2
  <1> QED
    BY <1>5, <1>7, <1>8

LEMMA NextHistory ==
    ASSUME NoTimeouts
    PROVE  HistoryInv /\ [Next]_vars => HistoryInv'
  <1> SUFFICES ASSUME HistoryInv, [Next]_vars PROVE HistoryInv'
    OBVIOUS
  <1>1. SessionInv' /\ LockDiscipline' /\ Progress'
    BY NextSessionInv, NextLocks, NextProgress DEF HistoryInv, LockInv, SessionInv
  <1>2. ASSUME NEW to \in PromptMode, SwitchAccepts(to)
        PROVE  Applying' /\ Attempts' /\ Completed' /\ Isolated'
    BY <1>2, AcceptCases, AcceptUnlogged, AcceptLine, AcceptSave
  <1>3. Applying' /\ Attempts' /\ Completed' /\ Isolated'
    BY <1>2, ClientStepHistory, ProcHistory, AnsweringHistory
       DEF Next, Terminated, Answering, SwitchStep
  <1> QED
    BY <1>1, <1>3 DEF HistoryInv

LEMMA InitHistory == Init => HistoryInv
  <1> SUFFICES ASSUME Init PROVE HistoryInv
    OBVIOUS
  <1>1. Progress
    BY DEF Init, Progress, NoCall, SettingUp
  <1>2. Applying
    BY DEF Init, Applying, NoCall, Unwinding
  <1>3. \A p : Entries(p) = {}
    BY DEF Init, Entries
  <1>4. 0 \in 0..Len(log)
    BY DEF Init
  <1>5. \A p, m, n : Beginning(p, m, n)
    BY <1>3 DEF Beginning
  <1>6. Attempts
    BY <1>3, <1>4, <1>5 DEF Init, Attempts, NoCall
  <1>7. Completed
    BY DEF Init, Completed, NoCall
  <1>8. Isolated
    BY <1>3 DEF Isolated
  <1> QED
    BY <1>1, <1>2, <1>6, <1>7, <1>8, InitSession, InitLocks DEF HistoryInv

LEMMA HistoryAlways ==
    ASSUME NoTimeouts
    PROVE  Spec => []HistoryInv
BY InitHistory, NextHistory, PTL DEF Spec

-----------------------------------------------------------------------------
(***************************************************************************)
(* A Create, Update or Delete that reports success has had its whole batch *)
(* accepted, in order and with nothing of its own after it.                *)
(***************************************************************************)
THEOREM SuccessIsApplied ==
    ASSUME NoTimeouts
    PROVE  Spec => []SuccessMeansApplied
  <1>1. HistoryInv => SuccessMeansApplied
    BY DEF HistoryInv, Progress, Completed, SuccessMeansApplied
  <1> QED
    BY <1>1, HistoryAlways, PTL

(***************************************************************************)
(* A WriteMemory that reports success has been executed by the switch.     *)
(***************************************************************************)
THEOREM SaveIsSaved ==
    ASSUME NoTimeouts
    PROVE  Spec => []SaveMeansSaved
  <1>1. HistoryInv => SaveMeansSaved
    <2> SUFFICES ASSUME HistoryInv, NEW p \in Proc, phase[p] = "done", Op[p] = "save"
                 PROVE  \E j \in DOMAIN log : log[j].by = p
      BY DEF SaveMeansSaved
    <2>1. Saved(p)
      BY DEF HistoryInv, Progress, Completed
    <2> QED
      BY <2>1 DEF Saved, Entries
  <1> QED
    BY <1>1, HistoryAlways, PTL

(***************************************************************************)
(* However often sessions drop, the switch executes no command of a batch  *)
(* more than twice: of three equal entries two would be of one attempt.    *)
(***************************************************************************)
THEOREM NeverMoreThanTwice ==
    ASSUME NoTimeouts
    PROVE  Spec => []AtMostTwice
  <1>1. HistoryInv => AtMostTwice
    <2> SUFFICES ASSUME HistoryInv, NEW a \in DOMAIN log, NEW b \in DOMAIN log,
                        NEW c \in DOMAIN log, a < b, b < c, log[a] = log[b], log[b] = log[c]
                 PROVE  FALSE
      BY DEF AtMostTwice
    <2>1. log \in Seq(Entry) /\ DOMAIN log = 1..Len(log) /\ Len(log) \in Nat
      BY LenProperties DEF HistoryInv, SessionInv, IInv, TypeOK, Entry
    <2>2. log[a] \in Entry
      BY <2>1, ElementOfSeq
    <2> DEFINE p == log[a].by
    <2>3. p \in Proc /\ log[a].i \in Nat
      BY <2>2 DEF Entry
    <2>4. a \in Entries(p) /\ b \in Entries(p) /\ c \in Entries(p)
      BY DEF Entries
    <2>5. PICK n \in 0..Len(log) : Beginning(p, 0, n) /\ Beginning(p, n, Len(log))
      BY <2>3 DEF HistoryInv, Attempts
    <2>6. CASE b <= n
      <3>1. log[a].i < log[b].i
        BY <2>1, <2>4, <2>5, <2>6 DEF Beginning
      <3> QED
        BY <2>3, <3>1
    <2>7. CASE b > n
      <3>1. log[b].i < log[c].i
        BY <2>1, <2>4, <2>5, <2>7 DEF Beginning
      <3> QED
        BY <2>3, <3>1
    <2> QED
      BY <2>1, <2>5, <2>6, <2>7
  <1> QED
    BY <1>1, HistoryAlways, PTL

(***************************************************************************)
(* Create and Update read back what they wrote: when the switch executes   *)
(* the show of an apply, the last change of the configuration is its own.  *)
(***************************************************************************)
THEOREM ReadBackIsIsolated ==
    ASSUME NoTimeouts
    PROVE  Spec => []ReadBackIsolated
  <1>1. HistoryInv => ReadBackIsolated
    <2> SUFFICES ASSUME HistoryInv, running.op = "show", Op[running.by] = "apply"
                 PROVE  log # <<>> /\ log[Len(log)].by = running.by
      BY DEF ReadBackIsolated
    <2>1. running # NoCommand /\ SessionInv
      BY DEF NoCommand, HistoryInv
    <2>2. SentOp = "show" /\ running.by = mu /\ mu \in Proc
      BY <2>1, RunningAt, SentFacts DEF InFlight, SessionInv
    <2>3. call.at = "single" /\ call.kind = "show"
      <3>1. CASE call.at = "line"
        <4>1. call.k \in 1..Len(Batch[mu]) /\ Batch[mu] \in Seq(BatchCommand)
          BY <2>1, <2>2, <3>1, ProgramAssumption DEF SessionInv, Purpose
        <4>2. Batch[mu][call.k] \in BatchCommand
          BY <4>1, ElementOfSeq
        <4> QED
          BY <2>2, <3>1, <4>2 DEF SentOp, BatchCommand, ConfigOp
      <3>2. CASE call.at # "line" /\ call.at # "single"
        BY <2>2, <3>2 DEF SentOp
      <3>3. CASE call.at = "single"
        BY <2>1, <2>2, <3>3 DEF SentOp, SessionInv, Purpose
      <3> QED
        BY <3>1, <3>2, <3>3
    <2>4. step[mu] = 1 /\ phase[mu] = "running" /\ opMu = mu
      BY <2>2, <2>3, ChangingCalls, ProcAssumption DEF HistoryInv, LockDiscipline, Locked
    <2>5. Len(log) \in Nat /\ DOMAIN log = 1..Len(log)
      BY LenProperties DEF HistoryInv, SessionInv, IInv, TypeOK
    <2>6. PICK n \in 0..Len(log) : AcceptedUpTo(mu, n, Len(Batch[mu]))
      BY <2>2, <2>4 DEF HistoryInv, Completed
    <2>7. PICK k \in DOMAIN Batch[mu] : Batch[mu][k].op \in ConfigOp
      BY <2>2, BatchAssumption
    <2>8. k \in { i \in 1..Len(Batch[mu]) : Batch[mu][i].op \in ConfigOp }
      <3>1. DOMAIN Batch[mu] = 1..Len(Batch[mu])
        BY <2>2, LenProperties, ProgramAssumption
      <3> QED
        BY <2>7, <3>1
    <2>9. \E j \in (n + 1)..Len(log) : log[j].by = mu
      BY <2>6, <2>8 DEF AcceptedUpTo
    <2>10. Entries(mu) # {}
      BY <2>5, <2>9 DEF Entries
    <2>11. log # <<>>
      BY <2>5, <2>9
    <2> QED
      BY <2>2, <2>4, <2>10, <2>11, ProcAssumption DEF HistoryInv, Isolated
  <1> QED
    BY <1>1, HistoryAlways, PTL

-----------------------------------------------------------------------------
(***************************************************************************)
(* CiscoClient implements SerialClient.                                    *)
(***************************************************************************)
\* What SerialClient sees of the log, in terms of its entries.
LEMMA SerialRuns ==
    ASSUME log \in Seq(Entry), NEW p \in Proc, NEW m \in Nat, NEW n \in 0..Len(log)
    PROVE  /\ Serial!Run(p, m, n) = { j \in Entries(p) : m < j /\ j <= n }
           /\ Beginning(p, m, n) => Serial!Beginning(p, m, n)
  <1>1. Len(log) \in Nat /\ DOMAIN log = 1..Len(log)
    BY LenProperties
  <1>2. Serial!Run(p, m, n) = { j \in Entries(p) : m < j /\ j <= n }
    BY <1>1 DEF Serial!Run, Entries
  <1> SUFFICES ASSUME Beginning(p, m, n) PROVE Serial!Beginning(p, m, n)
    BY <1>2
  <1>3. \A a, b \in Serial!Run(p, m, n) : a < b => log[a].i < log[b].i
    BY <1>2 DEF Beginning
  <1>4. \A b \in Serial!Run(p, m, n), i \in WritesOf(p) :
           i < log[b].i => \E a \in Serial!Run(p, m, n) : log[a].i = i
    BY <1>2 DEF Beginning
  <1> QED
    BY <1>3, <1>4 DEF Serial!Beginning

\* Two runs of beginnings are what SerialClient allows, in every state.
RunsAreLegal ==
    \A p \in Proc, n \in Nat :
        /\ log \in Seq(Entry) /\ n \in 0..Len(log) /\ (Op[p] = "save" => n = 0)
        /\ Beginning(p, 0, n) /\ Beginning(p, n, Len(log))
        => Serial!Legal(p)

LEMMA SerialLegal == RunsAreLegal
  <1> SUFFICES ASSUME NEW p \in Proc, NEW n \in Nat, log \in Seq(Entry), n \in 0..Len(log),
                      Op[p] = "save" => n = 0, Beginning(p, 0, n), Beginning(p, n, Len(log))
               PROVE  Serial!Legal(p)
    BY DEF RunsAreLegal
  <1>1. n \in Nat /\ Len(log) \in Nat /\ Len(log) \in 0..Len(log)
    BY LenProperties
  <1>2. Serial!Beginning(p, 0, n) /\ Serial!Beginning(p, n, Len(log))
    BY <1>1, SerialRuns
  <1> QED
    BY <1>2 DEF Serial!Legal

\* An operation that reports success has left its whole list.
LEMMA SerialComplete ==
    ASSUME HistoryInv, NEW p \in Proc, phase[p] = "running", step[p] = Len(Calls(p))
    PROVE  Serial!Complete(p)
  <1>1. log \in Seq(Entry) /\ Len(log) \in Nat /\ DOMAIN log = 1..Len(log) /\ Op[p] \in Operation
    BY LenProperties, ProgramAssumption DEF HistoryInv, SessionInv, IInv, TypeOK, Entry
  <1>2. step[p] >= 1
    <2>1. Calls(p) \in {<<"connect">>, <<"config", "show">>, <<"config">>, <<"show">>, <<"save">>}
      BY <1>1 DEF Calls, CallsOf, Operation
    <2> QED
      BY <2>1
  <1>3. CASE Op[p] \in {"apply", "delete"}
    <2>1. PICK n \in 0..Len(log) : AcceptedUpTo(p, n, Len(Batch[p]))
      BY <1>2, <1>3 DEF HistoryInv, Completed
    <2>2. /\ { log[j].i : j \in Serial!Run(p, n, Len(log)) } = WritesOf(p)
          /\ \A a, b \in Serial!Run(p, n, Len(log)) : a < b => log[a].i < log[b].i
      <3>1. WritesOf(p) = { i \in 1..Len(Batch[p]) : Batch[p][i].op \in ConfigOp }
        <4>1. DOMAIN Batch[p] = 1..Len(Batch[p])
          BY LenProperties, ProgramAssumption
        <4> QED
          BY <1>3, <4>1 DEF WritesOf
      <3> QED
        BY <2>1, <3>1 DEF AcceptedUpTo, Serial!Run
    <2>3. Serial!Beginning(p, n, Len(log))
      BY <2>2 DEF Serial!Beginning
    <2> QED
      BY <2>2, <2>3 DEF Serial!Complete
  <1>4. CASE Op[p] = "save"
    <2>1. PICK j \in DOMAIN log : Entries(p) = {j} /\ log[j].i = 0
      BY <1>2, <1>4 DEF HistoryInv, Completed, Saved
    <2>2. Serial!Run(p, 0, Len(log)) = {j} /\ 0 \in 0..Len(log)
      BY <1>1, <2>1, SerialRuns
    <2>3. WritesOf(p) = {0}
      BY <1>4 DEF WritesOf
    <2>4. Serial!Beginning(p, 0, Len(log))
      BY <1>1, <2>1, <2>2, <2>3 DEF Serial!Beginning
    <2> QED
      BY <2>1, <2>2, <2>3, <2>4 DEF Serial!Complete
  <1>5. CASE Op[p] \in {"configure", "read"}
    <2>1. Serial!Run(p, Len(log), Len(log)) = {} /\ Len(log) \in 0..Len(log)
      BY <1>1 DEF Serial!Run
    <2>2. WritesOf(p) = {}
      BY <1>5 DEF WritesOf
    <2>3. Serial!Beginning(p, Len(log), Len(log))
      BY <2>1 DEF Serial!Beginning
    <2> QED
      BY <2>1, <2>2, <2>3 DEF Serial!Complete
  <1> QED
    BY <1>1, <1>3, <1>4, <1>5 DEF Operation

\* The goroutines begin and leave.
LEMMA ProcImplements ==
    ASSUME HistoryInv, NEW p \in Proc, ProcStep(p)
    PROVE  Serial!Next \/ UNCHANGED Serial!vars
  <1> DEFINE Bar(f) == [q \in Proc |-> IF f[q] = "failing" THEN "running" ELSE f[q]]
  <1>1. /\ phase \in [Proc -> {"idle", "running", "failing"} \cup Ended]
        /\ Locked(p) <=> p \in { q \in Proc : Op[q] \in {"apply", "delete", "save"} }
    BY DEF HistoryInv, SessionInv, IInv, TypeOK, Locked
  <1>2. CASE Start(p)
    <2>1. phase[p] = "idle" /\ phase' = [phase EXCEPT ![p] = "running"] /\ log' = log
          /\ (Locked(p) => opMu = NoProc) /\ opMu' = IF Locked(p) THEN p ELSE opMu
      BY <1>2 DEF Start, switchVars
    <2>2. Bar(phase)[p] = "idle" /\ Bar(phase') = [Bar(phase) EXCEPT ![p] = "running"]
      BY <1>1, <2>1
    <2>3. Serial!Begin(p)
      BY <1>1, <2>1, <2>2 DEF Serial!Begin
    <2> QED
      BY <2>3 DEF Serial!Next
  <1>3. CASE StartCall(p)
    BY <1>3 DEF StartCall, procVars, switchVars, Serial!vars
  <1>4. CASE Finish(p)
    <2>1. /\ phase' = [phase EXCEPT ![p] = IF @ = "running" THEN "done" ELSE "failed"]
          /\ log' = log /\ opMu' = IF opMu = p THEN NoProc ELSE opMu
          /\ \/ phase[p] = "running" /\ step[p] = Len(Calls(p))
             \/ phase[p] = "failing"
      BY <1>4 DEF Finish, switchVars
    <2>2. CASE phase[p] = "running" /\ step[p] = Len(Calls(p))
      <3>1. Bar(phase)[p] = "running" /\ Bar(phase') = [Bar(phase) EXCEPT ![p] = "done"]
        BY <1>1, <2>1, <2>2
      <3>2. Serial!Leave(p, "done")
        BY <2>1, <3>1 DEF Serial!Leave
      <3>3. Serial!Complete(p)
        BY <2>2, SerialComplete
      <3> QED
        BY <3>2, <3>3 DEF Serial!Succeed, Serial!Next
    <2>3. CASE phase[p] = "failing"
      <3>1. Bar(phase)[p] = "running" /\ Bar(phase') = [Bar(phase) EXCEPT ![p] = "failed"]
        BY <1>1, <2>1, <2>3
      <3>2. Serial!Leave(p, "failed")
        BY <2>1, <3>1 DEF Serial!Leave
      <3> QED
        BY <3>2 DEF Serial!Fail, Serial!Next
    <2> QED
      BY <2>1, <2>2, <2>3
  <1> QED
    BY <1>2, <1>3, <1>4 DEF ProcStep

\* What the switch accepts is written.
LEMMA AcceptImplements ==
    ASSUME HistoryInv, HistoryInv', NEW to \in PromptMode, SwitchAccepts(to)
    PROVE  Serial!Next \/ UNCHANGED Serial!vars
  <1>1. /\ UNCHANGED <<call, mu, phase, step, opMu>> /\ mu \in Proc
        /\ log' \in Seq(Entry) /\ Len(log') \in Nat
    BY AcceptCases, LenProperties DEF HistoryInv, SessionInv, IInv, TypeOK, Entry
  <1>2. ASSUME NEW n \in 0..Len(log'), Op[mu] = "save" => n = 0,
               Beginning(mu, 0, n)', Beginning(mu, n, Len(log))'
        PROVE  Serial!Legal(mu)'
    <2>1. RunsAreLegal'
      BY SerialLegal, PTL
    <2> QED
      BY <1>1, <1>2, <2>1 DEF RunsAreLegal
  <1>3. CASE log' = log
    BY <1>1, <1>3 DEF Serial!vars
  <1>4. CASE call.at = "line" /\ call.kind = "config" /\ Batch[mu][call.k].op \in ConfigOp
             /\ log' = Append(log, [by |-> mu, i |-> call.k])
    <2>1. Op[mu] \in {"apply", "delete"} /\ opMu = mu
      BY <1>1, <1>4, ChangingCalls DEF HistoryInv
    <2>2. call.k \in WritesOf(mu)
      <3>1. call.k \in 1..Len(Batch[mu]) /\ DOMAIN Batch[mu] = 1..Len(Batch[mu])
        BY <1>1, <1>4, LenProperties, ProgramAssumption DEF HistoryInv, SessionInv, Purpose
      <3> QED
        BY <1>4, <2>1, <3>1 DEF WritesOf
    <2>3. PICK n \in 0..Len(log') : Beginning(mu, 0, n)' /\ Beginning(mu, n, Len(log))'
      BY <1>1 DEF HistoryInv, Attempts
    <2>4. Serial!Legal(mu)'
      BY <1>2, <2>1, <2>3
    <2>5. Serial!Write(mu, call.k)
      BY <1>1, <1>4, <2>1, <2>4 DEF Serial!Write
    <2> QED
      BY <1>1, <2>2, <2>5 DEF Serial!Next
  <1>5. CASE call.at = "single" /\ call.kind = "save" /\ log' = Append(log, [by |-> mu, i |-> 0])
    <2>1. Op[mu] = "save" /\ opMu = mu
      BY <1>1, <1>5, ChangingCalls DEF HistoryInv
    <2>2. 0 \in WritesOf(mu)
      BY <2>1 DEF WritesOf
    <2>3. Beginning(mu, 0, 0)' /\ Beginning(mu, 0, Len(log))'
      BY <1>5, AcceptSave
    <2>4. Serial!Legal(mu)'
      BY <1>1, <1>2, <2>3
    <2>5. Serial!Write(mu, 0)
      BY <1>1, <1>5, <2>1, <2>4 DEF Serial!Write
    <2> QED
      BY <1>1, <2>2, <2>5 DEF Serial!Next
  <1> QED
    BY <1>3, <1>4, <1>5, AcceptCases

\* The client, its reads and the faults leave what SerialClient sees alone:
\* an operation whose call has failed still runs.
LEMMA OtherStepsStutter ==
    ASSUME HistoryInv, NoTimeouts, ClientStep \/ Answering \/ UNCHANGED vars
    PROVE  UNCHANGED Serial!vars
  <1>1. CASE Answering
    BY <1>1, AnsweringKeeps DEF HistoryInv, Serial!vars
  <1>2. CASE UNCHANGED vars
    BY <1>2 DEF vars, procVars, switchVars, Serial!vars
  <1>3. CASE ClientStep
    <2>1. /\ log' = log /\ opMu' = opMu /\ mu \in Proc
          /\ Stays \/ \E ok \in BOOLEAN : Leaves(ok)
      BY <1>3, ClientStepFacts
    <2>2. phase[mu] = "running" /\ phase \in [Proc -> {"idle", "running", "failing"} \cup Ended]
      BY <2>1, ProcAssumption DEF HistoryInv, LockDiscipline, SessionInv, IInv, TypeOK
    <2>3. phase' = phase \/ phase' = [phase EXCEPT ![mu] = "failing"]
      BY <2>1 DEF Stays, Leaves
    <2>4. [p \in Proc |-> IF phase[p] = "failing" THEN "running" ELSE phase[p]]'
             = [p \in Proc |-> IF phase[p] = "failing" THEN "running" ELSE phase[p]]
      BY <2>2, <2>3
    <2> QED
      BY <2>1, <2>4 DEF Serial!vars
  <1> QED
    BY <1>1, <1>2, <1>3

(***************************************************************************)
(* Whatever the session does, as long as no answer is late, the switch     *)
(* sees operations one after the other, each a beginning of its batch or   *)
(* two, and the whole batch when the operation reports success: every      *)
(* behaviour of the client is one of SerialClient.                         *)
(***************************************************************************)
THEOREM ClientIsSerial ==
    ASSUME NoTimeouts
    PROVE  Spec => SerialOperations
  <1>1. Init => Serial!Init
    <2> SUFFICES ASSUME Init PROVE Serial!Init
      OBVIOUS
    <2>1. phase = [p \in Proc |-> "idle"] /\ opMu = NoProc /\ log = <<>>
      BY DEF Init
    <2>2. [p \in Proc |-> IF phase[p] = "failing" THEN "running" ELSE phase[p]]
             = [p \in Proc |-> "idle"]
      BY <2>1
    <2> QED
      BY <2>1, <2>2 DEF Serial!Init
  <1>2. HistoryInv /\ HistoryInv' /\ [Next]_vars => [Serial!Next]_(Serial!vars)
    <2> SUFFICES ASSUME HistoryInv, HistoryInv', [Next]_vars
                 PROVE  Serial!Next \/ UNCHANGED Serial!vars
      OBVIOUS
    <2>1. ASSUME NEW p \in Proc, ProcStep(p) PROVE Serial!Next \/ UNCHANGED Serial!vars
      BY <2>1, ProcImplements
    <2>2. ASSUME NEW to \in PromptMode, SwitchAccepts(to)
          PROVE  Serial!Next \/ UNCHANGED Serial!vars
      BY <2>2, AcceptImplements
    <2> QED
      BY <2>1, <2>2, OtherStepsStutter DEF Next, Terminated, Answering, SwitchStep
  <1> QED
    BY <1>1, <1>2, HistoryAlways, PTL DEF Spec, SerialOperations, Serial!Spec

=============================================================================
