---------------------------- MODULE ProtocolProofs ----------------------------
(***************************************************************************)
(* The session of CiscoClient while no command times out: one command at a *)
(* time, its own answer, and a mode the client is right about.             *)
(***************************************************************************)
EXTENDS CiscoClientProofs

\* With no command timing out, every answer is read to its prompt.
NoTimeouts == Budget["timeout"] = 0

Busy     == reply.tag = "awaiting"
InFlight == toSwitch # <<>> \/ running # NoCommand
Answer   == toClient[Len(toClient)]
Prompted == toClient # <<>> /\ Answer.kind = "prompt"

\* The command that is sent at each position of a call; the greeting of a new
\* session answers none.
SentOp ==
    CASE call.at = "end"    -> "end"
      [] call.at = "exit"   -> "exit"
      [] call.at = "conft"  -> "configure"
      [] call.at = "line"   -> Batch[mu][call.k].op
      [] call.at = "single" -> IF call.kind = "show" THEN "show" ELSE "write"
      [] call.at = "enable" -> "enable"
      [] call.at = "paging" -> "paging"
      [] OTHER              -> "none"
SentIndex == IF call.at = "line" THEN call.k ELSE 0
Sent == IF call.at = "banner" THEN NoCommand
        ELSE [by |-> mu, op |-> SentOp, i |-> SentIndex]

\* All of a piece of output answers command c; its prompt ends it.
AnswersTo(s, c) == \A i \in DOMAIN s : s[i].of = c
PromptLast(s)   == \A i \in DOMAIN s : s[i].kind = "prompt" => i = Len(s)

(***************************************************************************)
(* At most one command is between the two ends, and only while the client  *)
(* waits for its answer; the answer ends with the only prompt on the way.  *)
(***************************************************************************)
Pipe ==
    /\ ~Busy => ~InFlight /\ toClient = <<>>
    /\ InFlight => link = "up"
    /\ toSwitch # <<>> => toSwitch = <<Sent>> /\ running = NoCommand
    /\ running # NoCommand => running = Sent
    /\ AnswersTo(toClient, Sent) /\ PromptLast(toClient)
    /\ Prompted => ~InFlight
    /\ call.at \in AnswerAt => AnswersTo(got, Sent)

(***************************************************************************)
(* The goal of returnToPrivilegedMode and the position in the call are     *)
(* those of the method that was called, and the position in the batch is   *)
(* one that exists.                                                        *)
(***************************************************************************)
Purpose ==
    /\ call.goal = "show" => call.kind = "show"
    /\ call.goal \in {"enter", "rollback", "final"} => call.kind = "config"
    /\ call.at \in {"conft", "send", "line"} => call.kind = "config"
    /\ call.at = "single" => call.kind \in {"show", "save"}
    /\ call.at = "send" => call.k \in 1..Len(Batch[mu]) + 1
    /\ call.at = "line" => call.k \in 1..Len(Batch[mu])

(***************************************************************************)
(* How a session comes and goes: while none has been set up, a call is     *)
(* about to fail, is dialling, or prepares the new session.                *)
(***************************************************************************)
SettingUp == {"dial", "banner", "enable", "paging"}
Session ==
    /\ reply.tag # "timeout"
    /\ reply.tag = "lost" => link # "up"
    /\ link = "none" => ~connected /\ call.at \in {"idle", "begin", "dial"}
    /\ call.goal = "paging" => call.at \in {"unwind", "unwound", "paging"}
    /\ ~connected => \/ call.at \in {"idle", "begin", "dial"} /\ link # "up"
                     \/ call.at \in {"banner", "enable", "paging"}
                     \/ call.at \in {"unwind", "unwound"} /\ call.goal = "paging"
    /\ connected => call.at \notin SettingUp /\ call.goal # "paging"
    /\ call.at \in {"unwind", "unwound"} /\ call.goal = "paging" => currentMode = "privileged"
    /\ call.at = "banner" => /\ reply.tag = "ok" => currentMode \in {"user", "privileged"}
                             /\ Prompted => Answer.mode \in {"user", "privileged"}
    /\ call.at = "paging" => currentMode = "privileged"

(***************************************************************************)
(* The mode of the client and that of the switch.                          *)
(***************************************************************************)
Modes ==
    link = "up" =>
        /\ Prompted => Answer.mode = mode
        /\ ~Busy /\ call.at # "enable" => currentMode = mode
        /\ call.at = "enable" => /\ InFlight => mode = "user"
                                 /\ ~Busy \/ Prompted => mode = "privileged"
        /\ call.at = "paging" => mode = "privileged"

SessionInv == IInv /\ Purpose /\ Pipe /\ Session

-----------------------------------------------------------------------------
(***************************************************************************)
(* Output: what a read takes, and what the switch adds.                    *)
(***************************************************************************)
LEMMA OutputAppended ==
    ASSUME NEW s \in Seq(Chunk), NEW c, NEW e \in Chunk,
           AnswersTo(s, c), PromptLast(s), e.of = c,
           s = <<>> \/ s[Len(s)].kind # "prompt"
    PROVE  /\ Append(s, e) \in Seq(Chunk) /\ Append(s, e) # <<>>
           /\ Append(s, e)[Len(Append(s, e))] = e
           /\ AnswersTo(Append(s, e), c) /\ PromptLast(Append(s, e))
  <1> DEFINE t == Append(s, e)
  <1>1. /\ t \in Seq(Chunk) /\ Len(t) = Len(s) + 1 /\ t[Len(t)] = e
        /\ \A i \in 1..Len(s) : t[i] = s[i]
    BY AppendProperties
  <1>2. DOMAIN s = 1..Len(s) /\ DOMAIN t = 1..Len(t) /\ Len(s) \in Nat
    BY <1>1, LenProperties
  <1>3. \A i \in DOMAIN s : s[i].kind # "prompt"
    BY <1>2 DEF PromptLast
  <1>4. \A i \in DOMAIN t : i \in DOMAIN s \/ i = Len(t)
    BY <1>1, <1>2
  <1>5. AnswersTo(t, c)
    BY <1>1, <1>2, <1>4 DEF AnswersTo
  <1>6. PromptLast(t)
    BY <1>1, <1>2, <1>3, <1>4 DEF PromptLast
  <1>7. t # <<>>
    BY <1>1, <1>2
  <1> QED
    BY <1>1, <1>5, <1>6, <1>7

LEMMA OutputTaken ==
    ASSUME NEW s \in Seq(Chunk), NEW c, AnswersTo(s, c), PromptLast(s),
           NEW a \in 1..Len(s) + 1, NEW b \in 0..Len(s)
    PROVE  /\ SubSeq(s, a, b) \in Seq(Chunk) /\ AnswersTo(SubSeq(s, a, b), c)
           /\ SubSeq(s, a, b) # <<>> /\ b = Len(s) =>
                 SubSeq(s, a, b)[Len(SubSeq(s, a, b))] = s[Len(s)]
           /\ PromptLast(SubSeq(s, a, b))
  <1> DEFINE t == SubSeq(s, a, b)
  <1>1. DOMAIN s = 1..Len(s) /\ Len(s) \in Nat
    BY LenProperties
  <1>2. \A i \in a..b : s[i] \in Chunk
    BY <1>1, ElementOfSeq
  <1>3. /\ t \in Seq(Chunk) /\ Len(t) = IF a <= b THEN b - a + 1 ELSE 0
        /\ \A i \in 1..(b - a + 1) : t[i] = s[a + i - 1]
    BY <1>2, <1>1, SubSeqProperties
  <1>4. DOMAIN t = 1..Len(t) /\ Len(t) \in Nat
    BY <1>3, LenProperties
  <1>5. \A i \in DOMAIN t : a + i - 1 \in DOMAIN s /\ t[i] = s[a + i - 1]
    BY <1>1, <1>3, <1>4
  <1>6. AnswersTo(t, c)
    BY <1>5 DEF AnswersTo
  <1>7. PromptLast(t)
    BY <1>1, <1>3, <1>4, <1>5 DEF PromptLast
  <1>8. t # <<>> /\ b = Len(s) => t[Len(t)] = s[Len(s)]
    BY <1>1, <1>3, <1>4
  <1> QED
    BY <1>3, <1>6, <1>7, <1>8

LEMMA OutputJoined ==
    ASSUME NEW s \in Seq(Chunk), NEW t \in Seq(Chunk), NEW c,
           AnswersTo(s, c), AnswersTo(t, c)
    PROVE  AnswersTo(s \o t, c)
  <1>1. /\ s \o t \in Seq(Chunk) /\ Len(s \o t) = Len(s) + Len(t)
        /\ \A i \in 1..(Len(s) + Len(t)) :
              (s \o t)[i] = IF i <= Len(s) THEN s[i] ELSE t[i - Len(s)]
    BY ConcatProperties
  <1>2. DOMAIN s = 1..Len(s) /\ DOMAIN t = 1..Len(t) /\ DOMAIN (s \o t) = 1..Len(s \o t)
        /\ Len(s) \in Nat /\ Len(t) \in Nat
    BY <1>1, LenProperties
  <1> QED
    BY <1>1, <1>2 DEF AnswersTo

\* No command is sent where the greeting is awaited.
LEMMA SentFacts ==
    ASSUME IInv, Pipe
    PROVE  /\ NoCommand \notin Command
           /\ InFlight => call.at # "banner" /\ Sent \in Command /\ Sent.by = mu
           /\ InFlight => Busy /\ mu \in Proc
  <1>1. NoCommand \notin Command
    BY DEF NoCommand, Command, SwitchOp
  <1>2. CASE running # NoCommand
    <2>1. running \in Command /\ running = Sent
      BY <1>2 DEF Pipe, IInv, TypeOK
    <2>2. call.at # "banner"
      BY <1>1, <2>1 DEF Sent
    <2> QED
      BY <1>1, <2>1, <2>2 DEF Sent, Pipe, InFlight, Command
  <1>3. CASE toSwitch # <<>>
    <2>1. toSwitch = <<Sent>> /\ toSwitch \in Seq(Command)
      BY <1>3 DEF Pipe, IInv, TypeOK
    <2>2. Sent \in Command
      BY <2>1, ElementOfSeq
    <2>3. call.at # "banner"
      BY <1>1, <2>2 DEF Sent
    <2> QED
      BY <1>1, <2>2, <2>3 DEF Sent, Pipe, InFlight, Command
  <1> QED
    BY <1>1, <1>2, <1>3 DEF InFlight


-----------------------------------------------------------------------------
(***************************************************************************)
(* Pipe over the three ways a step of the client ends.                     *)
(***************************************************************************)
\* The pipe is empty whenever the client takes a step of its own.
LEMMA QuietWhenStepping ==
    ASSUME SessionInv, ClientStep
    PROVE  /\ ~Busy /\ ~InFlight /\ toClient = <<>> /\ toSwitch = <<>> /\ running = NoCommand
           /\ mu \in Proc /\ call \in Call
  <1>1. ~Busy
    BY DEF ClientStep, BeginDisconnected, BeginConnect, BeginShow, BeginConfig, BeginSave,
           Unwind, EndAnswered, ExitAnswered, Unwound, ConfigureAnswered, SendLine,
           LineAnswered, ShowAnswered, SaveAnswered, GiveUp, Reconnect, Dial, DialFails,
           SetupFails, BannerAnswered, EnableAnswered, PagingAnswered, Answered,
           SessionInv, IInv, WellFormed, Busy, AnswerAt
  <1>2. mu \in Proc /\ call \in Call
    BY ClientStepLocks, ClientFacts DEF SessionInv
  <1> QED
    BY <1>1, <1>2 DEF SessionInv, Pipe, InFlight

LEMMA SendPipe ==
    ASSUME SessionInv, ~Busy, mu \in Proc, NEW op, NEW i, Send(op, i, call'),
           call'.at \in AnswerAt, call'.at # "banner",
           Sent' = [by |-> mu, op |-> op, i |-> i], UNCHANGED running
    PROVE  Pipe'
  <1>1. toClient = <<>> /\ toSwitch = <<>> /\ running = NoCommand
    BY DEF SessionInv, Pipe, InFlight
  <1>2. toClient' = <<>> /\ got' = <<>> /\ running' = NoCommand /\ link' = link
    BY <1>1 DEF Send
  <1>3. AnswersTo(<<>>, Sent') /\ PromptLast(<<>>)
    BY DEF AnswersTo, PromptLast
  <1>4. CASE link = "up"
    <2>1. reply' = Awaiting /\ toSwitch' = <<Sent'>>
      BY <1>1, <1>4 DEF Send
    <2> QED
      BY <1>2, <1>3, <1>4, <2>1 DEF Pipe, Busy, Awaiting, Prompted, InFlight
  <1>5. CASE link # "up"
    <2>1. toSwitch' = <<>>
      BY <1>1, <1>5 DEF Send
    <2> QED
      BY <1>2, <1>3, <2>1 DEF Pipe, InFlight, Prompted
  <1> QED
    BY <1>4, <1>5

LEMMA GoToPipe ==
    ASSUME SessionInv, ~Busy, GoTo(call'), call'.at \notin AnswerAt, UNCHANGED running
    PROVE  Pipe'
  <1>1. toClient' = <<>> /\ toSwitch' = <<>> /\ running' = NoCommand
    BY DEF SessionInv, Pipe, InFlight, GoTo, pipeVars
  <1> QED
    BY <1>1 DEF Pipe, InFlight, AnswersTo, PromptLast, Prompted

LEMMA ReturnPipe ==
    ASSUME SessionInv, ~Busy, NEW ok, Return(ok), UNCHANGED running
    PROVE  Pipe'
  <1>1. toClient' = <<>> /\ toSwitch' = <<>> /\ running' = NoCommand /\ got' = <<>>
    BY DEF SessionInv, Pipe, InFlight, Return, pipeVars
  <1> QED
    BY <1>1 DEF Pipe, InFlight, AnswersTo, PromptLast, Prompted

-----------------------------------------------------------------------------
(***************************************************************************)
(* What a step of the call that holds mu does to the pipe: it sends the    *)
(* command of its next position, moves on, returns, or changes the session.*)
(***************************************************************************)
Sends(op, i) ==
    /\ Send(op, i, call') /\ call'.at \in AnswerAt \ {"banner"}
    /\ mu' = mu /\ UNCHANGED switchVars
    /\ Sent' = [by |-> mu, op |-> op, i |-> i]
Moves   == GoTo(call') /\ call'.at \notin AnswerAt /\ mu' = mu /\ UNCHANGED switchVars
Returns == (\E ok \in BOOLEAN : Return(ok)) /\ UNCHANGED switchVars

LEMMA BeginShape ==
    ASSUME SessionInv, ClientStep,
           BeginDisconnected \/ BeginConnect \/ BeginShow \/ BeginConfig \/ BeginSave
    PROVE  Returns \/ Moves \/ \E op, i : Sends(op, i)
  <1>0. mu \in Proc /\ call \in Call
    BY QuietWhenStepping
  <1>1. CASE BeginDisconnected \/ BeginConnect \/ BeginShow \/ BeginConfig
    BY <1>0, <1>1 DEF BeginDisconnected, BeginConnect, BeginShow, BeginConfig, Returns, Moves,
                      Stay, Frame, GoTo, Call, AnswerAt
  <1>2. CASE BeginSave
    <2>1. /\ Send("write", 0, call') /\ call'.at = "single" /\ call'.kind = "save"
          /\ mu' = mu /\ UNCHANGED switchVars
      BY <1>0, <1>2 DEF BeginSave, Send, Stay, Frame, Call
    <2>2. Sends("write", 0)
      BY <2>1 DEF Sends, Sent, SentOp, SentIndex, AnswerAt
    <2> QED
      BY <2>2
  <1> QED
    BY <1>1, <1>2

LEMMA UnwindShape ==
    ASSUME SessionInv, ClientStep, Unwind \/ EndAnswered \/ ExitAnswered
    PROVE  Moves \/ \E op, i : Sends(op, i)
  <1>0. mu \in Proc /\ call \in Call
    BY QuietWhenStepping
  <1>1. mu' = mu /\ UNCHANGED switchVars
    BY DEF Unwind, EndAnswered, ExitAnswered, Stay, Frame
  <1>2. \/ GoTo(call') /\ call'.at \in {"unwound", "failed"}
        \/ Send("end", 0, call') /\ call'.at = "end"
        \/ Send("exit", 0, call') /\ call'.at = "exit"
    BY <1>0 DEF Unwind, EndAnswered, ExitAnswered, Answered, UnwindFails, Fail, GoTo, Send, Call
  <1>3. call'.at \in {"end", "exit"} => Sent' = [by |-> mu, op |-> call'.at, i |-> 0]
    BY <1>1 DEF Sent, SentOp, SentIndex
  <1> QED
    BY <1>1, <1>2, <1>3 DEF Moves, Sends, AnswerAt

LEMMA UnwoundShape ==
    ASSUME SessionInv, ClientStep, Unwound
    PROVE  Returns \/ Moves \/ \E op, i : Sends(op, i)
  <1>0. mu \in Proc /\ call \in Call /\ UNCHANGED switchVars
    BY QuietWhenStepping DEF Unwound, Frame
  <1>1. CASE call.goal = "show"
    <2>1. /\ Send("show", 0, call') /\ call'.at = "single" /\ call'.kind = call.kind /\ mu' = mu
      BY <1>0, <1>1 DEF Unwound, Stay, Send, Call
    <2>2. Sends("show", 0)
      BY <1>0, <1>1, <2>1 DEF SessionInv, Purpose, Sends, Sent, SentOp, SentIndex, AnswerAt
    <2> QED
      BY <2>2
  <1>2. CASE call.goal \in {"enter", "paging"}
    <2>1. /\ mu' = mu
          /\ \/ Send("configure", 0, call') /\ call'.at = "conft"
             \/ Send("paging", 0, call') /\ call'.at = "paging"
      BY <1>0, <1>2 DEF Unwound, Stay, Send, Call
    <2>2. Sends("configure", 0) \/ Sends("paging", 0)
      BY <1>0, <2>1 DEF Sends, Sent, SentOp, SentIndex, AnswerAt
    <2> QED
      BY <2>2
  <1>3. CASE call.goal \in {"rollback", "final"}
    BY <1>0, <1>3 DEF Unwound, Stay, Returns, Moves, GoTo, Call, AnswerAt
  <1> QED
    BY <1>1, <1>2, <1>3 DEF Unwound

LEMMA BatchShape ==
    ASSUME SessionInv, ClientStep, ConfigureAnswered \/ SendLine \/ LineAnswered
    PROVE  Moves \/ \E op, i : Sends(op, i)
  <1>0. mu \in Proc /\ call \in Call
    BY QuietWhenStepping
  <1>1. mu' = mu /\ UNCHANGED switchVars
    BY DEF ConfigureAnswered, SendLine, LineAnswered, Stay, Frame
  <1>2. CASE SendLine /\ call.k <= Len(Batch[mu])
    <2>1. /\ Send(Batch[mu][call.k].op, call.k, call') /\ call'.at = "line" /\ call'.k = call.k
      BY <1>0, <1>2 DEF SendLine, Send, Call
    <2>2. Sends(Batch[mu][call.k].op, call.k)
      BY <1>1, <2>1 DEF Sends, Sent, SentOp, SentIndex, AnswerAt
    <2> QED
      BY <2>2
  <1>3. CASE ~(SendLine /\ call.k <= Len(Batch[mu]))
    <2>1. GoTo(call') /\ call'.at \in {"failed", "send", "unwind"}
      BY <1>0, <1>3 DEF ConfigureAnswered, SendLine, LineAnswered, Fail, GoTo, Call
    <2> QED
      BY <1>1, <2>1 DEF Moves, AnswerAt
  <1> QED
    BY <1>2, <1>3

LEMMA SetupShape ==
    ASSUME SessionInv, ClientStep, BannerAnswered \/ EnableAnswered \/ PagingAnswered
    PROVE  Returns \/ Moves \/ \E op, i : Sends(op, i)
  <1>0. mu \in Proc /\ call \in Call /\ UNCHANGED switchVars
    BY QuietWhenStepping DEF BannerAnswered, EnableAnswered, PagingAnswered, Frame
  <1>1. CASE BannerAnswered
    <2>1. /\ mu' = mu
          /\ \/ Send("enable", 0, call') /\ call'.at = "enable"
             \/ GoTo(call') /\ call'.at = "unwind"
      BY <1>0, <1>1 DEF BannerAnswered, Stay, Send, GoTo, Call
    <2>2. call'.at = "enable" => Sent' = [by |-> mu, op |-> "enable", i |-> 0]
      BY <2>1 DEF Sent, SentOp, SentIndex
    <2> QED
      BY <1>0, <2>1, <2>2 DEF Moves, Sends, AnswerAt
  <1>2. CASE EnableAnswered
    <2>1. mu' = mu /\ Send("paging", 0, call') /\ call'.at = "paging"
      BY <1>0, <1>2 DEF EnableAnswered, Stay, Send, Call
    <2>2. Sends("paging", 0)
      BY <1>0, <2>1 DEF Sends, Sent, SentOp, SentIndex, AnswerAt
    <2> QED
      BY <2>2
  <1>3. CASE PagingAnswered
    <2>1. Return(TRUE) \/ (mu' = mu /\ GoTo(call') /\ call'.at = "begin")
      BY <1>0, <1>3 DEF PagingAnswered, Stay, GoTo, NoCall, Call
    <2> QED
      BY <1>0, <2>1 DEF Moves, Returns, AnswerAt
  <1> QED
    BY <1>1, <1>2, <1>3

LEMMA ClientStepShape ==
    ASSUME SessionInv, ClientStep
    PROVE  \/ Returns \/ Moves \/ \E op, i : Sends(op, i)
           \/ Reconnect \/ \E first \in {"user", "privileged"} : Dial(first)
  <1>0. mu \in Proc /\ call \in Call
    BY QuietWhenStepping
  <1>1. CASE BeginDisconnected \/ BeginConnect \/ BeginShow \/ BeginConfig \/ BeginSave
    BY <1>1, BeginShape
  <1>2. CASE Unwind \/ EndAnswered \/ ExitAnswered
    BY <1>2, UnwindShape
  <1>3. CASE Unwound
    BY <1>3, UnwoundShape
  <1>4. CASE ConfigureAnswered \/ SendLine \/ LineAnswered
    BY <1>4, BatchShape
  <1>5. CASE ShowAnswered \/ SaveAnswered
    <2>1. \/ \E ok \in BOOLEAN : Return(ok)
          \/ mu' = mu /\ GoTo(call') /\ call'.at = "failed"
      BY <1>0, <1>5, Zenon DEF ShowAnswered, SaveAnswered, Stay, Fail, GoTo, Call
    <2> QED
      BY <1>5, <2>1 DEF ShowAnswered, SaveAnswered, Frame, Returns, Moves, AnswerAt
  <1>6. CASE GiveUp \/ DialFails \/ SetupFails
    <2>1. Return(FALSE) /\ UNCHANGED switchVars
      BY <1>6 DEF GiveUp, DialFails, SetupFails, Frame
    <2> QED
      BY <2>1 DEF Returns
  <1>7. CASE BannerAnswered \/ EnableAnswered \/ PagingAnswered
    BY <1>7, SetupShape
  <1> QED
    BY <1>1, <1>2, <1>3, <1>4, <1>5, <1>6, <1>7 DEF ClientStep

LEMMA SessionChangePipe ==
    ASSUME SessionInv, ~Busy,
           Reconnect \/ \E first \in {"user", "privileged"} : Dial(first)
    PROVE  Pipe'
  <1>0. call \in Call
    BY DEF SessionInv, IInv, TypeOK
  <1>1. CASE Reconnect
    <2>1. /\ toSwitch' = <<>> /\ toClient' = <<>> /\ running' = NoCommand
          /\ call'.at = "dial"
      BY <1>0, <1>1 DEF Reconnect, Call
    <2> QED
      BY <2>1 DEF Pipe, InFlight, Prompted, AnswersTo, PromptLast, AnswerAt
  <1>2. ASSUME NEW first \in {"user", "privileged"}, Dial(first) PROVE Pipe'
    <2>1. /\ toSwitch' = <<>> /\ running' = NoCommand /\ reply' = Awaiting /\ got' = <<>>
          /\ toClient' = <<[of |-> NoCommand, kind |-> "prompt", mode |-> first, err |-> FALSE]>>
          /\ call'.at = "banner"
      BY <1>0, <1>2 DEF Dial, Call
    <2>2. Sent' = NoCommand
      BY <2>1 DEF Sent
    <2> QED
      BY <2>1, <2>2 DEF Pipe, InFlight, Busy, Awaiting, AnswersTo, PromptLast, AnswerAt
  <1> QED
    BY <1>1, <1>2

LEMMA ClientStepPipe ==
    ASSUME SessionInv, ClientStep
    PROVE  Pipe'
  <1>0. ~Busy /\ mu \in Proc
    BY QuietWhenStepping
  <1>1. CASE Returns
    BY <1>0, <1>1, ReturnPipe DEF Returns, switchVars
  <1>2. CASE Moves
    BY <1>0, <1>2, GoToPipe DEF Moves, switchVars
  <1>3. ASSUME NEW op, NEW i, Sends(op, i) PROVE Pipe'
    BY <1>0, <1>3, SendPipe DEF Sends, switchVars
  <1> QED
    BY <1>0, <1>1, <1>2, <1>3, SessionChangePipe, ClientStepShape

-----------------------------------------------------------------------------
(***************************************************************************)
(* Pipe over the reads, the switch, the link and the goroutines.           *)
(***************************************************************************)
LEMMA ReadOutput ==
    ASSUME SessionInv, NEW n \in 1..Len(toClient), Read(n)
    PROVE  /\ Busy /\ call.at \in AnswerAt /\ Sent' = Sent
           /\ AnswersTo(got', Sent) /\ AnswersTo(toClient', Sent) /\ PromptLast(toClient')
           /\ Prompted' => Prompted /\ Answer' = Answer
           /\ toClient[n].kind = "prompt" => Prompted /\ toClient[n] = Answer /\ toClient' = <<>>
  <1>1. /\ toClient \in Seq(Chunk) /\ got \in Seq(Chunk) /\ Len(toClient) \in Nat
        /\ DOMAIN toClient = 1..Len(toClient)
    BY LenProperties DEF SessionInv, IInv, TypeOK
  <1>2. Busy /\ call.at \in AnswerAt /\ AnswersTo(got, Sent) /\ AnswersTo(toClient, Sent)
        /\ PromptLast(toClient)
    BY DEF Read, SessionInv, IInv, WellFormed, Pipe, Busy
  <1>3. UNCHANGED <<call, mu>> /\ Sent' = Sent
    BY DEF Read, Sent, SentOp, SentIndex
  <1>4. AnswersTo(SubSeq(toClient, 1, n), Sent) /\ SubSeq(toClient, 1, n) \in Seq(Chunk)
    BY <1>1, <1>2, OutputTaken
  <1>5. AnswersTo(got', Sent)
    BY <1>1, <1>2, <1>4, OutputJoined DEF Read
  <1> DEFINE rest == SubSeq(toClient, n + 1, Len(toClient))
  <1>6. /\ AnswersTo(rest, Sent) /\ PromptLast(rest)
        /\ rest # <<>> => rest[Len(rest)] = toClient[Len(toClient)]
    <2>1. n + 1 \in 1..Len(toClient) + 1 /\ Len(toClient) \in 0..Len(toClient)
      BY <1>1
    <2> QED
      BY <1>1, <1>2, <2>1, OutputTaken
  <1>7. toClient' = rest
    BY DEF Read
  <1>8. toClient[n].kind = "prompt" => Prompted /\ toClient[n] = Answer /\ toClient' = <<>>
    <2>1. ASSUME toClient[n].kind = "prompt" PROVE n = Len(toClient)
      BY <1>1, <1>2, <2>1 DEF PromptLast
    <2>2. ASSUME n = Len(toClient) PROVE rest = <<>>
      BY <1>1, <2>2, SubSeqProperties
    <2>3. toClient # <<>>
      BY <1>1
    <2> QED
      BY <1>7, <2>1, <2>2, <2>3 DEF Prompted, Answer
  <1>9. Prompted' => Prompted /\ Answer' = Answer
    <2>1. toClient # <<>>
      BY <1>1
    <2> QED
      BY <1>6, <1>7, <2>1 DEF Prompted, Answer
  <1> QED
    BY <1>2, <1>3, <1>5, <1>6, <1>7, <1>8, <1>9

LEMMA ReadPartWaits ==
    ASSUME IInv, NoTimeouts, NEW n \in 1..Len(toClient), ReadPart(n)
    PROVE  reply' = reply
  <1>1. spent["timeout"] \in Nat /\ Budget["timeout"] = 0
    BY DEF IInv, TypeOK, Fault, NoTimeouts
  <1>2. ~CanFault("timeout")
    BY <1>1 DEF CanFault
  <1> QED
    BY <1>2 DEF ReadPart

LEMMA ReadPipe ==
    ASSUME SessionInv, NoTimeouts, ClientRead
    PROVE  Pipe'
  <1>1. ASSUME NEW n \in 1..Len(toClient), ReadPrompt(n) PROVE Pipe'
    <2>1. Read(n) /\ toClient[n].kind = "prompt" /\ UNCHANGED <<call, toSwitch, running>>
      BY <1>1 DEF ReadPrompt, Read, switchVars
    <2>2. /\ Sent' = Sent /\ AnswersTo(got', Sent) /\ Prompted /\ toClient' = <<>>
      BY <2>1, ReadOutput
    <2>3. ~InFlight /\ ~InFlight'
      BY <2>1, <2>2 DEF SessionInv, Pipe, InFlight
    <2> QED
      BY <2>1, <2>2, <2>3 DEF Pipe, InFlight, Prompted, AnswersTo, PromptLast
  <1>2. ASSUME NEW n \in 1..Len(toClient), ReadPart(n) PROVE Pipe'
    <2>1. Read(n) /\ reply' = reply /\ UNCHANGED <<call, link, toSwitch, running>>
      BY <1>2, ReadPartWaits DEF ReadPart, Read, switchVars, SessionInv
    <2>2. /\ Busy /\ Sent' = Sent /\ AnswersTo(got', Sent) /\ AnswersTo(toClient', Sent)
          /\ PromptLast(toClient') /\ (Prompted' => Prompted)
      BY <2>1, ReadOutput
    <2> QED
      BY <2>1, <2>2 DEF SessionInv, Pipe, InFlight, Busy
  <1>3. CASE ReadError
    <2>1. /\ UNCHANGED <<call, mu, got, link, toSwitch, toClient, running>>
          /\ toClient = <<>> /\ call.at \in AnswerAt /\ ~InFlight
      BY <1>3 DEF ReadError, clientVars, switchVars, pipeVars, SessionInv, Pipe, IInv, WellFormed
    <2>2. Sent' = Sent
      BY <2>1 DEF Sent, SentOp, SentIndex
    <2> QED
      BY <2>1, <2>2 DEF SessionInv, Pipe, InFlight, Prompted, Answer
  <1> QED
    BY <1>1, <1>2, <1>3 DEF ClientRead

\* What the switch writes after the command it is running.
LEMMA PromptOutput ==
    ASSUME SessionInv, running # NoCommand, NEW to \in PromptMode, NEW err \in BOOLEAN,
           toClient' = Append(toClient, Prompt(to, err)), UNCHANGED <<call, mu>>
    PROVE  /\ Busy /\ Sent' = Sent /\ toSwitch = <<>>
           /\ AnswersTo(toClient', Sent) /\ PromptLast(toClient')
           /\ Prompted' /\ Answer' = Prompt(to, err)
  <1>1. running \in Command /\ running = Sent /\ toSwitch = <<>> /\ Busy /\ ~Prompted
    BY DEF SessionInv, IInv, TypeOK, Pipe, InFlight
  <1> DEFINE e == Prompt(to, err)
  <1>2. e \in Chunk /\ e.of = Sent /\ e.kind = "prompt"
    BY <1>1 DEF Prompt, Chunk
  <1>3. toClient \in Seq(Chunk) /\ AnswersTo(toClient, Sent) /\ PromptLast(toClient)
        /\ (toClient = <<>> \/ toClient[Len(toClient)].kind # "prompt")
    BY <1>1 DEF SessionInv, IInv, TypeOK, Pipe, Prompted, Answer
  <1> HIDE DEF e
  <1>4. toClient' = Append(toClient, e)
    BY DEF e
  <1>5. /\ toClient' # <<>> /\ toClient'[Len(toClient')] = e
        /\ AnswersTo(toClient', Sent) /\ PromptLast(toClient')
    BY <1>2, <1>3, <1>4, OutputAppended
  <1>6. Sent' = Sent
    BY DEF Sent, SentOp, SentIndex
  <1> QED
    BY <1>1, <1>2, <1>5, <1>6 DEF Prompted, Answer, e

LEMMA EchoOutput ==
    ASSUME SessionInv, SwitchEcho
    PROVE  /\ Busy /\ Sent' = Sent /\ running' = Sent /\ toSwitch' = <<>>
           /\ AnswersTo(toClient', Sent) /\ PromptLast(toClient') /\ ~Prompted /\ ~Prompted'
  <1>1. toSwitch = <<Sent>> /\ Sent \in Command /\ Busy /\ ~Prompted /\ mode \in PromptMode
    BY SentFacts DEF SwitchEcho, SessionInv, IInv, WellFormed, Pipe, InFlight
  <1>2. Head(toSwitch) = Sent /\ Tail(toSwitch) = <<>>
    BY <1>1
  <1> DEFINE e == [of |-> Sent, kind |-> "echo", mode |-> mode, err |-> FALSE]
  <1>3. e \in Chunk /\ e.of = Sent /\ e.kind # "prompt"
    BY <1>1 DEF Chunk
  <1>4. toClient' = Append(toClient, e)
    BY <1>2 DEF SwitchEcho
  <1>5. toClient \in Seq(Chunk) /\ AnswersTo(toClient, Sent) /\ PromptLast(toClient)
        /\ (toClient = <<>> \/ toClient[Len(toClient)].kind # "prompt")
    BY <1>1 DEF SessionInv, IInv, TypeOK, Pipe, Prompted, Answer
  <1> HIDE DEF e
  <1>6. /\ toClient' # <<>> /\ toClient'[Len(toClient')] = e
        /\ AnswersTo(toClient', Sent) /\ PromptLast(toClient')
    BY <1>3, <1>4, <1>5, OutputAppended
  <1>7. Sent' = Sent
    BY DEF SwitchEcho, clientVars, Sent, SentOp, SentIndex
  <1> QED
    BY <1>1, <1>2, <1>3, <1>6, <1>7 DEF SwitchEcho, Prompted, Answer

LEMMA SwitchPipe ==
    ASSUME SessionInv, SwitchStep
    PROVE  Pipe'
  <1>1. CASE SwitchEcho
    <2>1. UNCHANGED <<call, reply, got, link>> /\ link = "up"
      BY <1>1 DEF SwitchEcho, clientVars, readVars
    <2> QED
      BY <1>1, <2>1, EchoOutput DEF SessionInv, Pipe, InFlight, Busy
  <1>2. ASSUME NEW to \in PromptMode, NEW err \in BOOLEAN, running # NoCommand,
               toClient' = Append(toClient, Prompt(to, err)), running' = NoCommand,
               UNCHANGED <<clientVars, readVars, toSwitch>>
        PROVE  Pipe'
    <2>1. UNCHANGED <<call, mu, reply, got>>
      BY <1>2 DEF clientVars, readVars
    <2>2. toSwitch' = <<>> /\ Sent' = Sent /\ Busy /\ AnswersTo(toClient', Sent)
          /\ PromptLast(toClient')
      BY <1>2, <2>1, PromptOutput
    <2> QED
      BY <1>2, <2>1, <2>2 DEF SessionInv, Pipe, InFlight, Busy
  <1>3. ASSUME NEW to \in PromptMode, SwitchAccepts(to) PROVE Pipe'
    BY <1>2, <1>3 DEF SwitchAccepts
  <1>4. CASE SwitchRejects
    <2>1. mode \in PromptMode
      BY <1>4 DEF SwitchRejects, SessionInv, IInv, WellFormed
    <2> QED
      BY <1>2, <1>4, <2>1 DEF SwitchRejects
  <1>5. CASE SwitchLogsOut
    <2>1. /\ UNCHANGED <<call, mu, reply, got, toClient>> /\ ~InFlight' /\ Busy /\ Busy'
      BY <1>5 DEF SwitchLogsOut, clientVars, readVars, SessionInv, Pipe, InFlight, Busy
    <2>2. Sent' = Sent
      BY <2>1 DEF Sent, SentOp, SentIndex
    <2> QED
      BY <2>1, <2>2 DEF SessionInv, Pipe, InFlight, Prompted, Answer
  <1> QED
    BY <1>1, <1>3, <1>4, <1>5 DEF SwitchStep

LEMMA DropPipe ==
    ASSUME SessionInv, NEW n \in 0..Len(toClient), Drop(n)
    PROVE  Pipe'
  <1>1. UNCHANGED <<call, mu, reply, got>> /\ ~InFlight'
    BY DEF Drop, clientVars, readVars, InFlight
  <1>2. Sent' = Sent
    BY <1>1 DEF Sent, SentOp, SentIndex
  <1>3. AnswersTo(toClient', Sent) /\ PromptLast(toClient') /\ (toClient = <<>> => toClient' = <<>>)
    <2>1. toClient \in Seq(Chunk) /\ Len(toClient) \in Nat
      BY LenProperties DEF SessionInv, IInv, TypeOK
    <2>2. AnswersTo(toClient, Sent) /\ PromptLast(toClient) /\ 1 \in 1..Len(toClient) + 1
      BY <2>1 DEF SessionInv, Pipe
    <2>3. AnswersTo(SubSeq(toClient, 1, n), Sent) /\ PromptLast(SubSeq(toClient, 1, n))
      BY <2>1, <2>2, OutputTaken
    <2>4. toClient = <<>> => SubSeq(toClient, 1, n) = <<>>
      BY <2>1, SubSeqProperties
    <2> QED
      BY <2>3, <2>4 DEF Drop
  <1> QED
    BY <1>1, <1>2, <1>3 DEF SessionInv, Pipe, InFlight, Busy

\* A step of a goroutine between two calls: nothing is sent, nothing awaited.
LEMMA ProcStepFacts ==
    ASSUME SessionInv, NEW p \in Proc, ProcStep(p)
    PROVE  /\ UNCHANGED <<connected, currentMode, readVars, switchVars, pipeVars, seen, spent>>
           /\ \/ UNCHANGED <<call, mu>>
              \/ /\ ~Busy /\ mu = NoProc /\ call.at = "idle" /\ mu' = p
                 /\ call' \in Call /\ call'.at = "begin" /\ call'.goal = "none"
                 /\ call'.attempt = 0 /\ call'.failure = "none"
                 /\ call'.kind = Calls(p)[step[p] + 1]
  <1>1. CASE Start(p) \/ Finish(p)
    BY <1>1 DEF Start, Finish, clientVars
  <1>2. CASE StartCall(p)
    <2>1. call' = [NoCall EXCEPT !.kind = Calls(p)[step[p] + 1], !.at = "begin"]
      BY <1>2 DEF StartCall
    <2>2. /\ call'.at = "begin" /\ call'.goal = "none" /\ call'.attempt = 0
          /\ call'.failure = "none" /\ call'.kind = Calls(p)[step[p] + 1]
      BY <2>1 DEF NoCall
    <2>3. call' \in Call
      BY <1>2, StartCallStep DEF SessionInv, IInv, TypeOK
    <2>4. ~Busy /\ call.at = "idle"
      BY <1>2 DEF StartCall, SessionInv, IInv, WellFormed, Busy, AnswerAt
    <2> QED
      BY <1>2, <2>2, <2>3, <2>4 DEF StartCall
  <1> QED
    BY <1>1, <1>2 DEF ProcStep

LEMMA StutterPipe ==
    ASSUME Pipe, UNCHANGED <<mu, call, readVars, running, pipeVars>>
    PROVE  Pipe'
  <1>1. UNCHANGED <<mu, call, reply, got, running, link, toSwitch, toClient>>
    BY DEF readVars, pipeVars
  <1>2. Sent' = Sent
    BY <1>1 DEF Sent, SentOp, SentIndex
  <1> QED
    BY <1>1, <1>2 DEF Pipe, InFlight, Prompted, Answer, Busy

LEMMA NextPipe ==
    ASSUME SessionInv, NoTimeouts, [Next]_vars
    PROVE  Pipe'
  <1>1. ASSUME NEW p \in Proc, ProcStep(p) PROVE Pipe'
    <2>1. CASE UNCHANGED <<call, mu>>
      BY <1>1, <2>1, ProcStepFacts, StutterPipe DEF SessionInv, switchVars
    <2>2. CASE ~UNCHANGED <<call, mu>>
      <3>1. /\ ~Busy /\ call'.at \notin AnswerAt /\ UNCHANGED <<readVars, switchVars, pipeVars>>
        BY <1>1, <2>2, ProcStepFacts DEF AnswerAt
      <3> QED
        BY <3>1, GoToPipe DEF GoTo, switchVars
    <2> QED
      BY <2>1, <2>2
  <1>2. CASE UNCHANGED vars
    BY <1>2, StutterPipe DEF SessionInv, vars, clientVars, switchVars
  <1> QED
    BY <1>1, <1>2, ClientStepPipe, ReadPipe, SwitchPipe, DropPipe DEF Next, Terminated

-----------------------------------------------------------------------------
(***************************************************************************)
(* The edges of a call: where each step of the client leads, and what it   *)
(* remembers on the way.                                                   *)
(***************************************************************************)
Edge(at, goal, k, failure) ==
    /\ call'.at = at /\ call'.goal = goal /\ call'.k = k /\ call'.failure = failure
    /\ call'.kind = call.kind /\ call'.attempt = call.attempt
    /\ mu' = mu /\ UNCHANGED <<link, toClient, phase, step>> /\ UNCHANGED switchVars
Walks(at)  == Edge(at, call.goal, call.k, call.failure) /\ reply' = reply
Writes(at) == /\ Edge(at, call.goal, call.k, call.failure)
              /\ reply'.tag \in {"awaiting", "lost"} /\ (reply'.tag = "lost" => link # "up")
Aims(goal) == Edge("unwind", goal, call.k, call.failure) /\ reply' = reply
Fails(failure) == Edge("failed", call.goal, call.k, failure) /\ reply' = reply
Left == /\ call' = NoCall /\ reply' = IdleReply /\ mu' = NoProc
        /\ UNCHANGED <<link, toClient>> /\ UNCHANGED switchVars
Leaves(ok) ==
    /\ Left
    /\ step' = [step EXCEPT ![mu] = @ + 1]
    /\ phase' = IF ok THEN phase ELSE [phase EXCEPT ![mu] = "failing"]
Restarts ==
    /\ call'.at = "begin" /\ call'.goal = "none" /\ call'.failure = "none"
    /\ call'.kind = call.kind /\ call'.attempt = 1 /\ reply' = reply
    /\ mu' = mu /\ UNCHANGED <<link, toClient, phase, step>> /\ UNCHANGED switchVars

LEMMA BeginEdges ==
    ASSUME SessionInv, ClientStep
    PROVE  /\ BeginDisconnected => Leaves(FALSE) /\ UNCHANGED <<connected, currentMode>>
           /\ BeginConnect => /\ UNCHANGED <<connected, currentMode>>
                              /\ IF connected THEN Leaves(TRUE) ELSE Walks("dial")
           /\ BeginShow => UNCHANGED <<connected, currentMode>> /\ Aims("show")
           /\ BeginConfig => /\ UNCHANGED <<connected, currentMode>>
                             /\ IF currentMode = "config"
                                THEN Edge("send", call.goal, 1, call.failure) /\ reply' = reply
                                ELSE Aims("enter")
           /\ BeginSave => UNCHANGED <<connected, currentMode>> /\ Writes("single")
  <1>0. call \in Call
    BY QuietWhenStepping
  <1>1. BeginDisconnected => Leaves(FALSE) /\ UNCHANGED <<connected, currentMode>>
    BY DEF BeginDisconnected, Leaves, Left, Return, Frame, pipeVars
  <1>2. BeginConnect /\ connected => Leaves(TRUE) /\ UNCHANGED <<connected, currentMode>>
    BY DEF BeginConnect, Leaves, Left, Return, Frame, pipeVars
  <1>3. BeginConnect /\ ~connected => Walks("dial") /\ UNCHANGED <<connected, currentMode>>
    BY <1>0 DEF BeginConnect, Walks, Edge, GoTo, Stay, Frame, Call, procVars, readVars, pipeVars
  <1>4. BeginShow => UNCHANGED <<connected, currentMode>> /\ Aims("show")
    BY <1>0 DEF BeginShow, Aims, Edge, GoTo, Stay, Frame, Call, procVars, readVars, pipeVars
  <1>5. BeginConfig /\ currentMode # "config" => UNCHANGED <<connected, currentMode>> /\ Aims("enter")
    BY <1>0 DEF BeginConfig, Aims, Edge, GoTo, Stay, Frame, Call, procVars, readVars, pipeVars
  <1>6. BeginConfig /\ currentMode = "config" =>
           /\ UNCHANGED <<connected, currentMode>>
           /\ Edge("send", call.goal, 1, call.failure) /\ reply' = reply
    BY <1>0 DEF BeginConfig, Edge, GoTo, Stay, Frame, Call, procVars, readVars, pipeVars
  <1>7. BeginSave => UNCHANGED <<connected, currentMode>> /\ Writes("single")
    BY <1>0 DEF BeginSave, Writes, Edge, Send, Stay, Frame, Call, procVars, Awaiting, Lost
  <1> QED
    BY <1>1, <1>2, <1>3, <1>4, <1>5, <1>6, <1>7

LEMMA UnwindEdges ==
    ASSUME SessionInv, ClientStep
    PROVE  /\ Unwind => /\ UNCHANGED <<connected, currentMode>>
                        /\ IF currentMode = "privileged" THEN Walks("unwound") ELSE Writes("end")
           /\ EndAnswered \/ ExitAnswered =>
                 /\ UNCHANGED <<connected, currentMode>>
                 /\ \/ reply.tag = "ok" /\ currentMode = "privileged" /\ Walks("unwound")
                    \/ Writes("exit")
                    \/ call.goal = "rollback" /\ Fails(call.failure)
                    \/ Fails("other")
                    \/ reply.tag = "lost" /\ Fails("connection")
           /\ Unwound => /\ UNCHANGED <<connected, currentMode>>
                         /\ CASE call.goal = "show"     -> Writes("single")
                              [] call.goal = "enter"    -> Writes("conft")
                              [] call.goal = "paging"   -> Writes("paging")
                              [] call.goal = "rollback" -> Walks("failed")
                              [] call.goal = "final"    -> Leaves(TRUE)
                              [] OTHER                  -> FALSE
  <1>0. call \in Call
    BY QuietWhenStepping
  <1>1. Unwind /\ currentMode = "privileged" => UNCHANGED <<connected, currentMode>> /\ Walks("unwound")
    BY <1>0 DEF Unwind, Walks, Edge, GoTo, Stay, Frame, Call, procVars, readVars, pipeVars
  <1>2. Unwind /\ currentMode # "privileged" => UNCHANGED <<connected, currentMode>> /\ Writes("end")
    BY <1>0 DEF Unwind, Writes, Edge, Send, Stay, Frame, Call, procVars, Awaiting, Lost
  <1>3. ASSUME EndAnswered \/ ExitAnswered
        PROVE  /\ UNCHANGED <<connected, currentMode>>
               /\ \/ reply.tag = "ok" /\ currentMode = "privileged" /\ Walks("unwound")
                  \/ Writes("exit")
                  \/ call.goal = "rollback" /\ Fails(call.failure)
                  \/ Fails("other")
                  \/ reply.tag = "lost" /\ Fails("connection")
    <2>1. /\ UNCHANGED <<connected, currentMode>> /\ Stay /\ Frame /\ call.at \in {"end", "exit"}
          /\ \/ /\ reply.tag = "ok" /\ currentMode = "privileged"
                /\ GoTo([call EXCEPT !.at = "unwound"])
             \/ Send("exit", 0, [call EXCEPT !.at = "exit", !.exits = 1])
             \/ Send("exit", 0, [call EXCEPT !.exits = @ + 1]) /\ call.at = "exit"
             \/ UnwindFails("other")
             \/ reply.tag = "lost" /\ UnwindFails("connection")
      BY <1>3 DEF EndAnswered, ExitAnswered, Answered, Classify
    <2>2. CASE /\ reply.tag = "ok" /\ currentMode = "privileged"
               /\ GoTo([call EXCEPT !.at = "unwound"])
      BY <1>0, <2>1, <2>2 DEF Walks, Edge, GoTo, Stay, Frame, Call, procVars, readVars, pipeVars
    <2>3. CASE Send("exit", 0, [call EXCEPT !.at = "exit", !.exits = 1])
      BY <1>0, <2>1, <2>3 DEF Writes, Edge, Send, Stay, Frame, Call, procVars, Awaiting, Lost
    <2>4. CASE Send("exit", 0, [call EXCEPT !.exits = @ + 1]) /\ call.at = "exit"
      BY <1>0, <2>1, <2>4 DEF Writes, Edge, Send, Stay, Frame, Call, procVars, Awaiting, Lost
    <2>5. ASSUME NEW f, UnwindFails(f)
          PROVE  IF call.goal = "rollback" THEN Fails(call.failure) ELSE Fails(f)
      BY <1>0, <2>1, <2>5 DEF UnwindFails, Fail, Fails, Edge, GoTo, Stay, Frame, Call, procVars,
                              readVars, pipeVars
    <2> QED
      BY <2>1, <2>2, <2>3, <2>4, <2>5
  <1>4. Unwound => UNCHANGED <<connected, currentMode>>
    BY DEF Unwound
  <1>5. Unwound /\ call.goal = "show" => Writes("single")
    BY <1>0 DEF Unwound, Writes, Edge, Send, Stay, Frame, Call, procVars, Awaiting, Lost
  <1>6. Unwound /\ call.goal = "enter" => Writes("conft")
    BY <1>0 DEF Unwound, Writes, Edge, Send, Stay, Frame, Call, procVars, Awaiting, Lost
  <1>7. Unwound /\ call.goal = "paging" => Writes("paging")
    BY <1>0 DEF Unwound, Writes, Edge, Send, Stay, Frame, Call, procVars, Awaiting, Lost
  <1>8. Unwound /\ call.goal = "rollback" => Walks("failed")
    BY <1>0 DEF Unwound, Walks, Edge, GoTo, Stay, Frame, Call, procVars, readVars, pipeVars
  <1>9. Unwound /\ call.goal = "final" => Leaves(TRUE)
    BY DEF Unwound, Leaves, Left, Return, Frame, pipeVars
  <1>10. Unwound => call.goal \in {"show", "enter", "paging", "rollback", "final"}
    BY DEF Unwound
  <1> QED
    BY <1>1, <1>2, <1>3, <1>4, <1>5, <1>6, <1>7, <1>8, <1>9, <1>10

LEMMA BatchEdges ==
    ASSUME SessionInv, ClientStep
    PROVE  /\ ConfigureAnswered =>
                 /\ UNCHANGED <<connected, currentMode>>
                 /\ \/ /\ reply.tag = "ok" /\ currentMode = "config" /\ reply' = reply
                       /\ Edge("send", call.goal, 1, call.failure)
                    \/ Fails("other")
                    \/ reply.tag = "lost" /\ Fails("connection")
           /\ SendLine => /\ UNCHANGED <<connected, currentMode>>
                          /\ IF call.k <= Len(Batch[mu]) THEN Writes("line") ELSE Aims("final")
           /\ LineAnswered =>
                 /\ UNCHANGED <<connected, currentMode>> /\ reply' = reply
                 /\ IF reply.tag = "ok" /\ ~reply.err
                    THEN Edge("send", call.goal, call.k + 1, call.failure)
                    ELSE Edge("unwind", "rollback", call.k,
                              Classify(reply.tag, Batch[mu][call.k].eof))
  <1>0. call \in Call
    BY QuietWhenStepping
  <1>1. ASSUME ConfigureAnswered
        PROVE  \/ /\ reply.tag = "ok" /\ currentMode = "config" /\ reply' = reply
                  /\ Edge("send", call.goal, 1, call.failure)
               \/ Fails("other")
               \/ reply.tag = "lost" /\ Fails("connection")
    <2>1. /\ Stay /\ Frame
          /\ \/ /\ reply.tag = "ok" /\ currentMode = "config"
                /\ GoTo([call EXCEPT !.at = "send", !.k = 1])
             \/ Fail("other")
             \/ reply.tag = "lost" /\ Fail("connection")
      BY <1>1 DEF ConfigureAnswered, Classify
    <2>2. CASE /\ reply.tag = "ok" /\ currentMode = "config"
               /\ GoTo([call EXCEPT !.at = "send", !.k = 1])
      BY <1>0, <2>1, <2>2 DEF Edge, GoTo, Stay, Frame, Call, procVars, readVars, pipeVars
    <2>3. ASSUME NEW f, Fail(f) PROVE Fails(f)
      BY <1>0, <2>1, <2>3 DEF Fail, Fails, Edge, GoTo, Stay, Frame, Call, procVars, readVars, pipeVars
    <2> QED
      BY <2>1, <2>2, <2>3
  <1>2. ASSUME SendLine, call.k <= Len(Batch[mu]) PROVE Writes("line")
    BY <1>0, <1>2 DEF SendLine, Writes, Edge, Send, Stay, Frame, Call, procVars, Awaiting, Lost
  <1>3. ASSUME SendLine, ~(call.k <= Len(Batch[mu])) PROVE Aims("final")
    BY <1>0, <1>3 DEF SendLine, Aims, Edge, GoTo, Stay, Frame, Call, procVars, readVars, pipeVars
  <1>4. ASSUME LineAnswered, reply.tag = "ok" /\ ~reply.err
        PROVE  Edge("send", call.goal, call.k + 1, call.failure) /\ reply' = reply
    BY <1>0, <1>4 DEF LineAnswered, Edge, GoTo, Stay, Frame, Call, procVars, readVars, pipeVars
  <1>5. ASSUME LineAnswered, ~(reply.tag = "ok" /\ ~reply.err)
        PROVE  /\ Edge("unwind", "rollback", call.k, Classify(reply.tag, Batch[mu][call.k].eof))
               /\ reply' = reply
    BY <1>0, <1>5 DEF LineAnswered, Edge, GoTo, Stay, Frame, Call, procVars, readVars, pipeVars
  <1>6. ConfigureAnswered \/ SendLine \/ LineAnswered => UNCHANGED <<connected, currentMode>>
    BY DEF ConfigureAnswered, SendLine, LineAnswered
  <1> QED
    BY <1>1, <1>2, <1>3, <1>4, <1>5, <1>6

LEMMA AnswerEdges ==
    ASSUME SessionInv, ClientStep
    PROVE  /\ ShowAnswered =>
                 /\ UNCHANGED <<connected, currentMode>> /\ call.at = "single"
                 /\ \/ reply.tag = "ok" /\ Leaves(~reply.err)
                    \/ reply.tag = "lost" /\ Fails("connection")
           /\ SaveAnswered =>
                 UNCHANGED <<connected, currentMode>> /\ Leaves(reply.tag = "ok" /\ ~reply.err)
           /\ GiveUp => UNCHANGED <<connected, currentMode>> /\ Leaves(FALSE)
           /\ DialFails => UNCHANGED <<connected, currentMode>> /\ Leaves(FALSE)
           /\ SetupFails => /\ UNCHANGED <<connected, currentMode>> /\ Leaves(FALSE)
                            /\ call.at \in SettingUp /\ reply.tag = "lost"
  <1>0. call \in Call /\ reply.tag # "timeout"
    BY QuietWhenStepping DEF SessionInv, Session
  <1>1. ASSUME ShowAnswered, reply.tag = "ok" PROVE Leaves(~reply.err)
    BY <1>1 DEF ShowAnswered, Leaves, Left, Return, Frame, pipeVars
  <1>2. ASSUME ShowAnswered, reply.tag # "ok" PROVE reply.tag = "lost" /\ Fails("connection")
    <2>1. reply.tag = "lost" /\ Stay /\ GoTo([call EXCEPT !.at = "failed", !.failure = "connection"])
          /\ UNCHANGED switchVars
      BY <1>0, <1>2 DEF ShowAnswered, Answered, Classify, Fail
    <2> QED
      BY <1>0, <2>1 DEF Fails, Edge, GoTo, Stay, Call, procVars, readVars, pipeVars
  <1>3. SaveAnswered => Leaves(reply.tag = "ok" /\ ~reply.err)
    BY DEF SaveAnswered, Leaves, Left, Return, Frame, pipeVars
  <1>4. GiveUp => Leaves(FALSE)
    BY DEF GiveUp, Leaves, Left, Return, Frame, pipeVars
  <1>5. DialFails => Leaves(FALSE)
    BY DEF DialFails, Leaves, Left, Return, pipeVars
  <1>6. SetupFails => Leaves(FALSE) /\ call.at \in SettingUp /\ reply.tag = "lost"
    BY <1>0 DEF SetupFails, Answered, Leaves, Left, Return, Frame, pipeVars, SettingUp
  <1>7. /\ ShowAnswered \/ SaveAnswered \/ GiveUp \/ DialFails \/ SetupFails
             => UNCHANGED <<connected, currentMode>>
        /\ ShowAnswered => call.at = "single"
    BY DEF ShowAnswered, SaveAnswered, GiveUp, DialFails, SetupFails, Answered
  <1> QED
    BY <1>1, <1>2, <1>3, <1>4, <1>5, <1>6, <1>7

LEMMA SetupEdges ==
    ASSUME SessionInv, ClientStep
    PROVE  /\ BannerAnswered => /\ UNCHANGED <<connected, currentMode>>
                                /\ IF currentMode = "user" THEN Writes("enable") ELSE Aims("paging")
           /\ EnableAnswered => /\ UNCHANGED connected /\ currentMode' = "privileged"
                                /\ Writes("paging")
           /\ PagingAnswered =>
                 /\ connected' = TRUE /\ UNCHANGED currentMode
                 /\ \/ call.kind = "connect" /\ Leaves(TRUE)
                    \/ call.kind # "connect" /\ Restarts
  <1>0. call \in Call
    BY QuietWhenStepping
  <1>1. ASSUME BannerAnswered, currentMode = "user" PROVE Writes("enable")
    BY <1>0, <1>1 DEF BannerAnswered, Writes, Edge, Send, Stay, Frame, Call, procVars, Awaiting, Lost
  <1>2. ASSUME BannerAnswered, currentMode # "user" PROVE Aims("paging")
    BY <1>0, <1>2 DEF BannerAnswered, Aims, Edge, GoTo, Stay, Frame, Call, procVars, readVars, pipeVars
  <1>3. ASSUME EnableAnswered PROVE Writes("paging")
    BY <1>0, <1>3 DEF EnableAnswered, Writes, Edge, Send, Stay, Frame, Call, procVars, Awaiting, Lost
  <1>4. ASSUME PagingAnswered, call.kind = "connect" PROVE Leaves(TRUE)
    BY <1>4 DEF PagingAnswered, Leaves, Left, Return, Frame, pipeVars
  <1>5. ASSUME PagingAnswered, call.kind # "connect"
        PROVE  Restarts
    <2>1. call' = [NoCall EXCEPT !.kind = call.kind, !.at = "begin", !.attempt = 1]
      BY <1>5 DEF PagingAnswered, GoTo
    <2> QED
      BY <1>5, <2>1 DEF PagingAnswered, Restarts, NoCall, GoTo, Stay, Frame, procVars, readVars,
                        pipeVars
  <1>6. /\ BannerAnswered => UNCHANGED <<connected, currentMode>>
        /\ EnableAnswered => UNCHANGED connected /\ currentMode' = "privileged"
        /\ PagingAnswered => connected' = TRUE /\ UNCHANGED currentMode
    BY DEF BannerAnswered, EnableAnswered, PagingAnswered
  <1> QED
    BY <1>1, <1>2, <1>3, <1>4, <1>5, <1>6

LEMMA SessionEdges ==
    ASSUME SessionInv, ClientStep
    PROVE  /\ Reconnect =>
                 /\ connected' = FALSE /\ currentMode' = "unknown" /\ link' = "down"
                 /\ toClient' = <<>> /\ reply' = reply /\ mu' = mu /\ mode' = "closed"
                 /\ UNCHANGED <<log, seen, phase, step>>
                 /\ call'.at = "dial" /\ call'.goal = call.goal /\ call'.kind = call.kind
                 /\ call'.attempt = call.attempt /\ call'.failure = call.failure
           /\ \A first \in {"user", "privileged"} : Dial(first) =>
                 /\ UNCHANGED <<connected, currentMode, log, seen, phase, step>>
                 /\ link' = "up" /\ mode' = first /\ reply' = Awaiting /\ mu' = mu
                 /\ toClient' # <<>> /\ Prompted' /\ Answer'.mode = first
                 /\ toSwitch' = <<>> /\ running' = NoCommand
                 /\ call'.at = "banner" /\ call'.goal = call.goal /\ call'.kind = call.kind
                 /\ call'.attempt = call.attempt /\ call'.failure = call.failure
  <1>0. call \in Call
    BY QuietWhenStepping
  <1>1. ASSUME Reconnect
        PROVE  /\ connected' = FALSE /\ currentMode' = "unknown" /\ link' = "down"
               /\ toClient' = <<>> /\ reply' = reply /\ mu' = mu /\ mode' = "closed"
               /\ UNCHANGED <<log, seen, phase, step>>
               /\ call'.at = "dial" /\ call'.goal = call.goal /\ call'.kind = call.kind
               /\ call'.attempt = call.attempt /\ call'.failure = call.failure
    BY <1>0, <1>1 DEF Reconnect, Stay, Call, procVars, readVars
  <1>2. ASSUME NEW first \in {"user", "privileged"}, Dial(first)
        PROVE  /\ UNCHANGED <<connected, currentMode, log, seen, phase, step>>
               /\ link' = "up" /\ mode' = first /\ reply' = Awaiting /\ mu' = mu
               /\ toClient' # <<>> /\ Prompted' /\ Answer'.mode = first
               /\ toSwitch' = <<>> /\ running' = NoCommand
               /\ call'.at = "banner" /\ call'.goal = call.goal /\ call'.kind = call.kind
               /\ call'.attempt = call.attempt /\ call'.failure = call.failure
    <2>1. toClient' = <<[of |-> NoCommand, kind |-> "prompt", mode |-> first, err |-> FALSE]>>
      BY <1>2 DEF Dial
    <2>2. toClient' # <<>> /\ Prompted' /\ Answer'.mode = first
      BY <2>1 DEF Prompted, Answer
    <2> QED
      BY <1>0, <1>2, <2>2 DEF Dial, Stay, Call, procVars
  <1> QED
    BY <1>1, <1>2

\* Where each step may be taken.
LEMMA StepGuards ==
    /\ BeginDisconnected => call.at = "begin" /\ ~connected
    /\ BeginConnect => call.at = "begin"
    /\ BeginShow \/ BeginConfig \/ BeginSave => call.at = "begin" /\ connected
    /\ BeginShow => call.kind = "show"
    /\ BeginConfig => call.kind = "config"
    /\ BeginSave => call.kind = "save"
    /\ Unwind => call.at = "unwind"
    /\ Unwound => call.at = "unwound"
    /\ EndAnswered => call.at = "end"
    /\ ExitAnswered => call.at = "exit"
    /\ EndAnswered \/ ExitAnswered => reply.tag \in {"ok", "lost", "timeout"}
    /\ ConfigureAnswered => call.at = "conft" /\ reply.tag \in {"ok", "lost", "timeout"}
    /\ SendLine => call.at = "send"
    /\ LineAnswered => call.at = "line" /\ reply.tag \in {"ok", "lost", "timeout"}
    /\ ShowAnswered => call.at = "single" /\ call.kind = "show" /\ reply.tag \in {"ok", "lost", "timeout"}
    /\ SaveAnswered => call.at = "single" /\ call.kind = "save" /\ reply.tag \in {"ok", "lost", "timeout"}
    /\ GiveUp => call.at = "failed" /\ ~Retries
    /\ Reconnect => call.at = "failed" /\ Retries
    /\ DialFails => call.at = "dial"
    /\ \A first \in {"user", "privileged"} : Dial(first) => call.at = "dial"
    /\ SetupFails => call.at \in {"banner", "enable", "paging"}
    /\ BannerAnswered => call.at = "banner" /\ reply.tag = "ok"
    /\ EnableAnswered => call.at = "enable" /\ reply.tag = "ok"
    /\ PagingAnswered => call.at = "paging" /\ reply.tag = "ok" /\ currentMode = "privileged"
BY DEF BeginDisconnected, BeginConnect, BeginShow, BeginConfig, BeginSave, Unwind, EndAnswered,
       ExitAnswered, Unwound, ConfigureAnswered, SendLine, LineAnswered, ShowAnswered,
       SaveAnswered, GiveUp, Reconnect, Dial, DialFails, SetupFails, BannerAnswered,
       EnableAnswered, PagingAnswered, Answered

\* A returned call has no position, no goal and no answer.
LEMMA LeftFacts ==
    ASSUME Left
    PROVE  /\ call'.at = "idle" /\ call'.goal = "none" /\ call'.kind = "none"
           /\ call'.failure = "none" /\ call'.attempt = 0 /\ reply'.tag = "idle"
           /\ link' = link /\ toClient' = toClient /\ UNCHANGED switchVars
  BY DEF Left, NoCall, IdleReply

-----------------------------------------------------------------------------
(***************************************************************************)
(* Purpose and Session over the steps of the call that holds mu.           *)
(***************************************************************************)
LEMMA ClientStepPurpose ==
    ASSUME SessionInv, ClientStep
    PROVE  Purpose'
  <1>0. Purpose
    BY DEF SessionInv
  <1>1. CASE BeginDisconnected \/ BeginConnect \/ BeginShow \/ BeginConfig \/ BeginSave
    BY <1>0, <1>1, BeginEdges, StepGuards, LeftFacts DEF Leaves, Purpose, Walks, Writes, Aims, Edge
  <1>2. CASE Unwind \/ EndAnswered \/ ExitAnswered \/ Unwound
    BY <1>0, <1>2, UnwindEdges, LeftFacts DEF Leaves, Purpose, Walks, Writes, Fails, Edge
  <1>3. CASE ConfigureAnswered \/ SendLine \/ LineAnswered
    <2>1. Len(Batch[mu]) \in Nat /\ call.k \in Nat
      <3>1. mu \in Proc /\ call \in Call
        BY QuietWhenStepping
      <3> QED
        BY <3>1, LenProperties DEF Call
    <2> QED
      BY <1>0, <1>3, <2>1, BatchEdges, StepGuards DEF Purpose, Writes, Aims, Fails, Edge
  <1>4. CASE ShowAnswered \/ SaveAnswered \/ GiveUp \/ DialFails \/ SetupFails
    BY <1>0, <1>4, AnswerEdges, LeftFacts DEF Leaves, Purpose, Fails, Edge
  <1>5. CASE BannerAnswered \/ EnableAnswered \/ PagingAnswered
    BY <1>0, <1>5, SetupEdges, LeftFacts DEF Leaves, Purpose, Writes, Aims, Restarts, Edge
  <1>6. CASE Reconnect \/ \E first \in {"user", "privileged"} : Dial(first)
    BY <1>0, <1>6, SessionEdges DEF Purpose
  <1> QED
    BY <1>1, <1>2, <1>3, <1>4, <1>5, <1>6 DEF ClientStep

LEMMA ClientStepSession ==
    ASSUME SessionInv, ClientStep
    PROVE  Session'
  <1>0. Session /\ toClient = <<>>
    BY QuietWhenStepping DEF SessionInv
  <1> USE DEF Session, SettingUp, Prompted
  <1>1. CASE BeginDisconnected \/ BeginConnect \/ BeginShow \/ BeginConfig \/ BeginSave
    BY <1>0, <1>1, BeginEdges, StepGuards, LeftFacts DEF Leaves, Walks, Writes, Aims, Edge
  <1>2. CASE Unwind \/ EndAnswered \/ ExitAnswered \/ Unwound
    BY <1>0, <1>2, UnwindEdges, StepGuards, LeftFacts DEF Leaves, Walks, Writes, Fails, Edge
  <1>3. CASE ConfigureAnswered \/ SendLine \/ LineAnswered
    BY <1>0, <1>3, BatchEdges, StepGuards DEF Writes, Aims, Fails, Edge
  <1>4. CASE ShowAnswered \/ SaveAnswered \/ GiveUp \/ DialFails \/ SetupFails
    BY <1>0, <1>4, AnswerEdges, StepGuards, LeftFacts DEF Leaves, Fails, Edge
  <1>5. CASE BannerAnswered \/ EnableAnswered \/ PagingAnswered
    <2>1. CASE BannerAnswered
      BY <1>0, <2>1, SetupEdges, StepGuards DEF Writes, Aims, Edge
    <2>2. CASE EnableAnswered
      BY <1>0, <2>2, SetupEdges, StepGuards DEF Writes, Edge
    <2>3. CASE PagingAnswered
      BY <1>0, <2>3, SetupEdges, StepGuards, LeftFacts DEF Leaves, Restarts
    <2> QED
      BY <1>5, <2>1, <2>2, <2>3
  <1>6. CASE Reconnect
    BY <1>0, <1>6, SessionEdges, StepGuards DEF Retries
  <1>7. ASSUME NEW first \in {"user", "privileged"}, Dial(first) PROVE Session'
    <2>1. /\ call'.at = "banner" /\ call'.goal = call.goal /\ link' = "up" /\ Answer'.mode = first
          /\ reply'.tag = "awaiting" /\ connected' = connected /\ call.at = "dial"
      BY <1>7, SessionEdges, StepGuards DEF Awaiting
    <2> QED
      BY <1>0, <2>1
  <1> QED
    BY <1>1, <1>2, <1>3, <1>4, <1>5, <1>6, <1>7 DEF ClientStep

-----------------------------------------------------------------------------
(***************************************************************************)
(* Session over the reads, the switch, the link and the goroutines.        *)
(***************************************************************************)
LEMMA ReadSession ==
    ASSUME SessionInv, NoTimeouts, ClientRead
    PROVE  Session'
  <1>0. Session
    BY DEF SessionInv
  <1>1. ASSUME NEW n \in 1..Len(toClient), ReadPrompt(n) PROVE Session'
    <2>1. Read(n) /\ toClient[n].kind = "prompt" /\ UNCHANGED <<call, connected, link>>
          /\ reply'.tag = "ok"
          /\ currentMode' = IF call.at \in {"enable", "paging"} THEN currentMode
                                                               ELSE toClient[n].mode
      BY <1>1 DEF ReadPrompt, Read
    <2>2. call.at \in AnswerAt /\ Prompted /\ toClient[n] = Answer /\ toClient' = <<>>
      BY <2>1, ReadOutput
    <2> QED
      BY <1>0, <2>1, <2>2 DEF Session, SettingUp, AnswerAt, Prompted
  <1>2. ASSUME NEW n \in 1..Len(toClient), ReadPart(n) PROVE Session'
    <2>1. Read(n) /\ reply' = reply /\ UNCHANGED <<call, connected, currentMode, link>>
      BY <1>2, ReadPartWaits DEF ReadPart, Read, SessionInv
    <2>2. Prompted' => Prompted /\ Answer' = Answer
      BY <2>1, ReadOutput
    <2> QED
      BY <1>0, <2>1, <2>2 DEF Session
  <1>3. CASE ReadError
    <2>1. /\ UNCHANGED <<call, connected, currentMode, link, toClient>> /\ link = "down"
          /\ reply'.tag = "lost"
      BY <1>3 DEF ReadError, clientVars, pipeVars, Lost
    <2> QED
      BY <1>0, <2>1 DEF Session, Prompted, Answer
  <1> QED
    BY <1>1, <1>2, <1>3 DEF ClientRead

LEMMA SwitchSession ==
    ASSUME SessionInv, SwitchStep
    PROVE  Session'
  <1>0. Session /\ UNCHANGED <<call, connected, currentMode, reply>>
    BY DEF SessionInv, SwitchStep, SwitchEcho, SwitchRejects, SwitchLogsOut, SwitchAccepts,
           clientVars, readVars
  <1>1. call.at # "banner"
    <2>1. InFlight
      BY DEF SwitchStep, SwitchEcho, SwitchRejects, SwitchLogsOut, SwitchAccepts, InFlight
    <2> QED
      BY <2>1, SentFacts DEF SessionInv
  <1>2. link' = link \/ (link' = "down" /\ link = "up")
    BY DEF SwitchStep, SwitchEcho, SwitchRejects, SwitchLogsOut, SwitchAccepts, SessionInv, IInv,
           WellFormed
  <1> QED
    BY <1>0, <1>1, <1>2 DEF Session

\* What is left of the output when the session drops.
LEMMA DropOutput ==
    ASSUME SessionInv, NEW n \in 0..Len(toClient), Drop(n), Prompted'
    PROVE  Prompted /\ Answer' = Answer
  <1>1. toClient \in Seq(Chunk) /\ Len(toClient) \in Nat /\ PromptLast(toClient)
        /\ DOMAIN toClient = 1..Len(toClient)
    BY LenProperties DEF SessionInv, IInv, TypeOK, Pipe
  <1>2. \A i \in 1..n : toClient[i] \in Chunk
    BY <1>1, ElementOfSeq
  <1>3. toClient' = SubSeq(toClient, 1, n)
    BY DEF Drop
  <1>4. n >= 1 /\ Len(toClient') = n /\ toClient'[n] = toClient[n]
    BY <1>1, <1>2, <1>3, SubSeqProperties DEF Prompted
  <1>5. n = Len(toClient)
    <2>1. toClient'[Len(toClient')].kind = "prompt"
      BY DEF Prompted, Answer
    <2>2. toClient[n].kind = "prompt" /\ n \in DOMAIN toClient
      BY <1>1, <1>4, <2>1
    <2> QED
      BY <1>1, <2>2 DEF PromptLast
  <1> QED
    BY <1>1, <1>4, <1>5 DEF Prompted, Answer

LEMMA DropSession ==
    ASSUME SessionInv, NEW n \in 0..Len(toClient), Drop(n)
    PROVE  Session'
  <1>1. /\ UNCHANGED <<call, connected, currentMode, reply>> /\ link = "up" /\ link' = "down"
        /\ Session
    BY DEF Drop, clientVars, readVars, SessionInv
  <1> QED
    BY <1>1, DropOutput DEF Session

LEMMA ProcSession ==
    ASSUME SessionInv, NEW p \in Proc, ProcStep(p)
    PROVE  Session'
  <1>1. /\ UNCHANGED <<connected, currentMode, reply, link, toClient>>
        /\ \/ call' = call
           \/ call.at = "idle" /\ call'.at = "begin" /\ call'.goal = "none"
    BY ProcStepFacts DEF readVars, pipeVars
  <1>2. Prompted' <=> Prompted
    BY <1>1 DEF Prompted, Answer
  <1>3. Answer' = Answer
    BY <1>1 DEF Answer
  <1> QED
    BY <1>1, <1>2, <1>3 DEF SessionInv, Session, SettingUp

LEMMA NextPurpose ==
    ASSUME SessionInv, [Next]_vars
    PROVE  Purpose'
  <1>0. Purpose
    BY DEF SessionInv
  <1>1. CASE ClientStep
    BY <1>1, ClientStepPurpose
  <1>2. ASSUME NEW p \in Proc, ProcStep(p) PROVE Purpose'
    BY <1>0, <1>2, ProcStepFacts DEF Purpose
  <1>3. CASE call' = call /\ mu' = mu
    BY <1>0, <1>3 DEF Purpose
  <1>4. CASE ClientRead
    BY <1>3, <1>4 DEF ClientRead, ReadPrompt, ReadPart, Read, ReadError, clientVars
  <1>5. CASE SwitchStep
    BY <1>3, <1>5 DEF SwitchStep, SwitchEcho, SwitchRejects, SwitchLogsOut, SwitchAccepts,
                      clientVars
  <1>6. ASSUME NEW n \in 0..Len(toClient), Drop(n) PROVE Purpose'
    BY <1>3, <1>6 DEF Drop, clientVars
  <1>7. CASE UNCHANGED vars
    BY <1>3, <1>7 DEF vars, clientVars
  <1> QED
    BY <1>1, <1>2, <1>4, <1>5, <1>6, <1>7 DEF Next, Terminated

LEMMA NextSession ==
    ASSUME SessionInv, NoTimeouts, [Next]_vars
    PROVE  Session'
  <1>1. CASE UNCHANGED vars
    <2>1. UNCHANGED <<call, connected, currentMode, reply, link, toClient>>
      BY <1>1 DEF vars, clientVars, readVars, pipeVars
    <2> QED
      BY <2>1 DEF SessionInv, Session, Prompted, Answer
  <1> QED
    BY <1>1, ProcSession, ClientStepSession, ReadSession, SwitchSession, DropSession
       DEF Next, Terminated

LEMMA InitSession == Init => SessionInv
  <1> SUFFICES ASSUME Init PROVE SessionInv
    OBVIOUS
  <1>1. Purpose
    BY DEF Init, Purpose, NoCall
  <1>2. Pipe
    BY DEF Init, Pipe, Busy, InFlight, Prompted, AnswersTo, PromptLast, NoCall, IdleReply, AnswerAt
  <1>3. Session
    BY DEF Init, Session, SettingUp, NoCall, IdleReply, Prompted
  <1> QED
    BY <1>1, <1>2, <1>3, InitIInv DEF SessionInv

LEMMA NextSessionInv ==
    ASSUME NoTimeouts
    PROVE  SessionInv /\ [Next]_vars => SessionInv'
BY NextIInv, NextPurpose, NextPipe, NextSession DEF SessionInv

LEMMA SessionAlways ==
    ASSUME NoTimeouts
    PROVE  Spec => []SessionInv
BY InitSession, NextSessionInv, PTL DEF Spec

(***************************************************************************)
(* Commands of different goroutines never interleave on the switch: with   *)
(* no command timing out, whatever is on its way to the switch or being    *)
(* executed was sent by the call that holds mu.                            *)
(***************************************************************************)
THEOREM CommandsNeverInterleave ==
    ASSUME NoTimeouts
    PROVE  Spec => []NeverInterleaved
  <1>1. SessionInv => NeverInterleaved
    <2> SUFFICES ASSUME SessionInv PROVE NeverInterleaved
      OBVIOUS
    <2>1. running # NoCommand => running.by = mu
      BY SentFacts DEF SessionInv, Pipe, InFlight
    <2>2. ASSUME NEW i \in DOMAIN toSwitch PROVE toSwitch[i].by = mu
      <3>1. toSwitch # <<>>
        BY <2>2
      <3>2. toSwitch = <<Sent>> /\ Sent.by = mu
        BY <3>1, SentFacts DEF SessionInv, Pipe, InFlight
      <3> QED
        BY <2>2, <3>2
    <2> QED
      BY <2>1, <2>2 DEF NeverInterleaved
  <1> QED
    BY <1>1, SessionAlways, PTL

(***************************************************************************)
(* What an operation parses is the output of its own show command.         *)
(***************************************************************************)
LEMMA NextOwnAnswer ==
    ASSUME SessionInv, OwnAnswer, [Next]_vars
    PROVE  OwnAnswer'
  <1>1. CASE seen' = seen
    BY <1>1 DEF OwnAnswer
  <1>2. CASE ShowAnswered /\ reply.tag = "ok"
    <2>1. call.at = "single" /\ call.kind = "show" /\ call.at \in AnswerAt
      BY <1>2 DEF ShowAnswered, Answered, AnswerAt
    <2>2. Sent = [by |-> mu, op |-> "show", i |-> 0] /\ AnswersTo(got, Sent)
      BY <2>1 DEF SessionInv, Pipe, Sent, SentOp, SentIndex
    <2>3. seen' = [seen EXCEPT ![mu] = { got[i].of : i \in DOMAIN got }]
      BY <1>2 DEF ShowAnswered
    <2>4. seen \in [Proc -> SUBSET (Command \cup {NoCommand})]
      BY DEF SessionInv, IInv, TypeOK
    <2>5. ASSUME NEW p \in Proc PROVE seen'[p] \subseteq {[by |-> p, op |-> "show", i |-> 0]}
      <3>1. CASE p = mu
        <4>1. seen'[p] = { got[i].of : i \in DOMAIN got }
          BY <2>3, <2>4, <3>1
        <4> QED
          BY <2>2, <3>1, <4>1 DEF AnswersTo
      <3>2. CASE p # mu
        BY <2>3, <2>4, <3>2 DEF OwnAnswer
      <3> QED
        BY <3>1, <3>2
    <2> QED
      BY <2>5 DEF OwnAnswer
  <1>3. seen' = seen \/ (ShowAnswered /\ reply.tag = "ok")
    <2>1. CASE ClientStep
      BY <2>1 DEF ClientStep, BeginDisconnected, BeginConnect, BeginShow, BeginConfig, BeginSave,
           Unwind, EndAnswered, ExitAnswered, Unwound, ConfigureAnswered, SendLine,
           LineAnswered, ShowAnswered, SaveAnswered, GiveUp, Reconnect, Dial, DialFails,
           SetupFails, BannerAnswered, EnableAnswered, PagingAnswered, Frame
    <2>2. CASE \E p \in Proc : ProcStep(p)
      BY <2>2 DEF ProcStep, Start, StartCall, Finish
    <2>3. CASE ClientRead \/ SwitchStep \/ \E n \in 0..Len(toClient) : Drop(n)
      BY <2>3 DEF ClientRead, ReadPrompt, ReadPart, Read, ReadError, SwitchStep, SwitchEcho,
                  SwitchRejects, SwitchLogsOut, SwitchAccepts, Drop
    <2> QED
      BY <2>1, <2>2, <2>3 DEF Next, Terminated, vars
  <1> QED
    BY <1>1, <1>2, <1>3

THEOREM AnswersAreOwn ==
    ASSUME NoTimeouts
    PROVE  Spec => []OwnAnswer
  <1>1. Init => OwnAnswer
    BY DEF Init, OwnAnswer
  <1>2. SessionInv /\ OwnAnswer /\ [Next]_vars => OwnAnswer'
    BY NextOwnAnswer
  <1> QED
    BY <1>1, <1>2, SessionAlways, PTL DEF Spec

-----------------------------------------------------------------------------
(***************************************************************************)
(* The mode of the client and the mode of the switch.                      *)
(***************************************************************************)
EnableAccepted == "enable" \notin Rejectable

LEMMA EnableTargets ==
    Targets("enable", "user") = {"privileged"} /\ ~Unknown("enable", "user")
BY DEF Targets, Unknown, Accepted, SwitchMode, PromptMode

LEMMA PagingTargets ==
    ASSUME NEW from, NEW to \in Targets("paging", from)
    PROVE  to = from
BY DEF Targets, Accepted

LEMMA ClientStepModes ==
    ASSUME SessionInv, Modes, ClientStep
    PROVE  Modes'
  <1>0. Session /\ ~Busy /\ toClient = <<>> /\ toSwitch = <<>> /\ running = NoCommand
    BY QuietWhenStepping DEF SessionInv
  <1> USE DEF Modes, Prompted, Busy
  <1>1. CASE BeginDisconnected \/ BeginConnect \/ BeginShow \/ BeginConfig \/ BeginSave
    BY <1>0, <1>1, BeginEdges, StepGuards, LeftFacts
       DEF Leaves, Walks, Writes, Aims, Edge, switchVars
  <1>2. CASE Unwind \/ EndAnswered \/ ExitAnswered \/ Unwound
    BY <1>0, <1>2, UnwindEdges, StepGuards, LeftFacts
       DEF Leaves, Walks, Writes, Fails, Edge, Session, switchVars
  <1>3. CASE ConfigureAnswered \/ SendLine \/ LineAnswered
    BY <1>0, <1>3, BatchEdges, StepGuards DEF Writes, Aims, Fails, Edge, switchVars
  <1>4. CASE ShowAnswered \/ SaveAnswered \/ GiveUp \/ DialFails \/ SetupFails
    BY <1>0, <1>4, AnswerEdges, StepGuards, LeftFacts
       DEF Leaves, Fails, Edge, Session, switchVars, SettingUp
  <1>5. CASE BannerAnswered \/ EnableAnswered \/ PagingAnswered
    BY <1>0, <1>5, SetupEdges, StepGuards, LeftFacts
       DEF Leaves, Writes, Aims, Restarts, Edge, Session, switchVars
  <1>6. CASE Reconnect
    BY <1>0, <1>6, SessionEdges
  <1>7. ASSUME NEW first \in {"user", "privileged"}, Dial(first) PROVE Modes'
    <2>1. /\ mode' = first /\ Answer'.mode = first /\ call'.at = "banner"
          /\ reply'.tag = "awaiting"
      BY <1>7, SessionEdges DEF Awaiting
    <2> QED
      BY <2>1
  <1> QED
    BY <1>1, <1>2, <1>3, <1>4, <1>5, <1>6, <1>7 DEF ClientStep

LEMMA ReadModes ==
    ASSUME SessionInv, NoTimeouts, Modes, ClientRead
    PROVE  Modes'
  <1>1. ASSUME NEW n \in 1..Len(toClient), ReadPrompt(n) PROVE Modes'
    <2>1. Read(n) /\ toClient[n].kind = "prompt" /\ UNCHANGED <<call, link, mode, running, toSwitch>>
          /\ currentMode' = IF call.at \in {"enable", "paging"} THEN currentMode
                                                               ELSE toClient[n].mode
      BY <1>1 DEF ReadPrompt, Read, switchVars
    <2>2. Prompted /\ toClient[n] = Answer /\ toClient' = <<>>
      BY <2>1, ReadOutput
    <2> QED
      BY <2>1, <2>2 DEF Modes, InFlight, Prompted, SessionInv, Session, Pipe
  <1>2. ASSUME NEW n \in 1..Len(toClient), ReadPart(n) PROVE Modes'
    <2>1. Read(n) /\ reply' = reply /\ UNCHANGED <<call, currentMode, link, mode, running, toSwitch>>
      BY <1>2, ReadPartWaits DEF ReadPart, Read, switchVars, SessionInv
    <2>2. Prompted' => Prompted /\ Answer' = Answer
      BY <2>1, ReadOutput
    <2> QED
      BY <2>1, <2>2 DEF Modes, InFlight, Busy
  <1>3. CASE ReadError
    BY <1>3 DEF ReadError, pipeVars, Modes
  <1> QED
    BY <1>1, <1>2, <1>3 DEF ClientRead

\* The command the switch runs is the one the client waits for.
LEMMA RunningAt ==
    ASSUME SessionInv, running # NoCommand
    PROVE  /\ Busy /\ link = "up" /\ call.at # "banner"
           /\ running = Sent /\ running.op = SentOp /\ running.by = mu
           /\ call.at = "enable" => running.op = "enable"
           /\ call.at = "paging" => running.op = "paging"
  <1>1. running = Sent /\ call.at # "banner" /\ Busy
    BY SentFacts DEF SessionInv, Pipe, InFlight
  <1>2. running.op = SentOp /\ running.by = mu
    BY <1>1 DEF Sent
  <1>3. call.at = "enable" => SentOp = "enable"
    BY DEF SentOp
  <1>4. call.at = "paging" => SentOp = "paging"
    BY DEF SentOp
  <1> QED
    BY <1>1, <1>2, <1>3, <1>4 DEF SessionInv, IInv, WellFormed

LEMMA SwitchModes ==
    ASSUME SessionInv, EnableAccepted, Modes, SwitchStep
    PROVE  Modes'
  <1>1. CASE SwitchEcho
    <2>1. ~Prompted' /\ Busy /\ ~Prompted /\ toSwitch # <<>>
          /\ UNCHANGED <<call, currentMode, reply, link, mode>>
      BY <1>1, EchoOutput DEF SwitchEcho, clientVars, readVars
    <2> QED
      BY <2>1 DEF Modes, InFlight, Busy
  <1>2. ASSUME NEW to \in PromptMode, SwitchAccepts(to) PROVE Modes'
    <2>1. /\ running # NoCommand /\ to \in Targets(running.op, mode) /\ running' = NoCommand
          /\ mode' = to /\ toClient' = Append(toClient, Prompt(to, FALSE))
          /\ UNCHANGED <<call, mu, currentMode, reply, link, toSwitch>>
      BY <1>2 DEF SwitchAccepts, clientVars, readVars
    <2>2. Busy /\ Prompted' /\ Answer'.mode = to /\ toSwitch = <<>>
      <3>1. Busy /\ Prompted' /\ Answer' = Prompt(to, FALSE) /\ toSwitch = <<>>
        BY <2>1, PromptOutput
      <3> QED
        BY <3>1 DEF Prompt
    <2>3. call.at = "enable" => mode' = "privileged"
      BY <2>1, EnableTargets, RunningAt DEF Modes, InFlight
    <2>4. call.at = "paging" => mode' = mode
      BY <2>1, PagingTargets, RunningAt
    <2> QED
      BY <2>1, <2>2, <2>3, <2>4 DEF Modes, InFlight, Busy
  <1>3. CASE SwitchRejects
    <2>1. /\ running # NoCommand /\ running' = NoCommand /\ mode \in PromptMode
          /\ toClient' = Append(toClient, Prompt(mode, TRUE))
          /\ UNCHANGED <<call, mu, currentMode, reply, link, toSwitch, mode>>
      BY <1>3 DEF SwitchRejects, clientVars, readVars, SessionInv, IInv, WellFormed
    <2>2. Busy /\ Prompted' /\ Answer'.mode = mode /\ toSwitch = <<>>
      <3>1. Busy /\ Prompted' /\ Answer' = Prompt(mode, TRUE) /\ toSwitch = <<>>
        BY <2>1, PromptOutput
      <3> QED
        BY <3>1 DEF Prompt
    <2>3. call.at # "enable"
      <3>1. Unknown(running.op, mode) \/ running.op \in Rejectable
        BY <1>3 DEF SwitchRejects
      <3> QED
        BY <2>1, <3>1, EnableTargets, RunningAt DEF Modes, InFlight, EnableAccepted
    <2> QED
      BY <2>1, <2>2, <2>3 DEF Modes, Busy
  <1>4. CASE SwitchLogsOut
    BY <1>4 DEF SwitchLogsOut, Modes
  <1> QED
    BY <1>1, <1>2, <1>3, <1>4 DEF SwitchStep

LEMMA NextModes ==
    ASSUME SessionInv, NoTimeouts, EnableAccepted, Modes, [Next]_vars
    PROVE  Modes'
  <1>1. ASSUME NEW p \in Proc, ProcStep(p) PROVE Modes'
    <2>1. /\ UNCHANGED <<currentMode, reply, mode, running, link, toSwitch, toClient>>
          /\ \/ call' = call
             \/ ~Busy /\ call.at = "idle" /\ call'.at = "begin"
      BY <1>1, ProcStepFacts DEF readVars, switchVars, pipeVars
    <2>2. Prompted' = Prompted /\ Answer' = Answer
      BY <2>1 DEF Prompted, Answer
    <2> QED
      BY <2>1, <2>2 DEF Modes, Busy, InFlight
  <1>2. ASSUME NEW n \in 0..Len(toClient), Drop(n) PROVE Modes'
    BY <1>2 DEF Drop, Modes
  <1>3. CASE UNCHANGED vars
    <2>1. UNCHANGED <<call, currentMode, reply, mode, running, link, toSwitch, toClient>>
      BY <1>3 DEF vars, clientVars, readVars, switchVars, pipeVars
    <2> QED
      BY <2>1 DEF Modes, Busy, InFlight, Prompted, Answer
  <1> QED
    BY <1>1, <1>2, <1>3, ClientStepModes, ReadModes, SwitchModes DEF Next, Terminated

(***************************************************************************)
(* Whenever the client looks at the mode it tracks, on a live session with *)
(* no answer outstanding, that is the mode the session is in, however many *)
(* sessions have dropped; provided "enable" is never refused, because the  *)
(* client does not look at the answer of "enable".                         *)
(***************************************************************************)
THEOREM ModesAgree ==
    ASSUME NoTimeouts, EnableAccepted
    PROVE  Spec => []ModeAgreement
  <1>1. Init => Modes
    BY DEF Init, Modes
  <1>2. SessionInv /\ Modes /\ [Next]_vars => Modes'
    BY NextModes
  <1>3. SessionInv /\ Modes => ModeAgreement
    BY DEF SessionInv, Session, SettingUp, Modes, ModeAgreement, Busy
  <1> QED
    BY <1>1, <1>2, <1>3, SessionAlways, PTL DEF Spec

=============================================================================
