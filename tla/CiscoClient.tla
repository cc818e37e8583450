----------------------------- MODULE CiscoClient -----------------------------
(***************************************************************************)
(* The SSH client of the provider (internal/provider/client): one session  *)
(* shared by every resource operation of a Terraform run, the two mutexes  *)
(* that serialise them, the mode the client believes the switch is in, the *)
(* retry after a dropped session, and the bytes in flight between the two  *)
(* ends.  The goroutines Terraform runs are the elements of Proc.          *)
(***************************************************************************)
EXTENDS SwitchCli, FiniteSets, Sequences

CONSTANTS
    Proc,        \* the goroutines: one resource operation each
    NoProc,      \* the owner of a free mutex
    Op,          \* Proc -> the operation it runs
    Batch,       \* Proc -> the commands its ExecuteConfigCommands sends
    Rejectable,  \* the ops the switch may refuse although the mode knows them
    Budget,      \* Fault -> how often each fault may happen
    MaxExits     \* the "exit" loop of returnToPrivilegedMode: 5 in the code

Fault     == {"drop", "dial", "reject", "timeout"}
Operation == {"configure", "apply", "delete", "read", "save"}

\* A command of a batch.  eof: its text contains one of the words that
\* isConnectionError looks for in an error message.
BatchCommand == [op : ConfigOp \cup {"end"}, eof : BOOLEAN]

ASSUME ProcAssumption == NoProc \notin Proc /\ IsFiniteSet(Proc)
ASSUME ProgramAssumption ==
    /\ Op \in [Proc -> Operation]
    /\ Batch \in [Proc -> Seq(BatchCommand)]
    /\ Rejectable \subseteq SwitchOp
\* A batch enters an object before it writes into it, and the resources that
\* read back always write something.
ASSUME BatchAssumption ==
    \A p \in Proc :
        /\ \A k \in DOMAIN Batch[p] :
              Batch[p][k].op = "line" => k > 1 /\ Batch[p][k - 1].op \in {"open", "line"}
        /\ Op[p] = "apply" => \E k \in DOMAIN Batch[p] : Batch[p][k].op \in ConfigOp
ASSUME BoundAssumption == Budget \in [Fault -> Nat] /\ MaxExits \in Nat \ {0}

\* The client calls an operation makes, in order; Create and Update read back
\* what they wrote.
CallsOf == [configure |-> <<"connect">>, apply |-> <<"config", "show">>,
            delete |-> <<"config">>, read |-> <<"show">>, save |-> <<"save">>]
Calls(p) == CallsOf[Op[p]]

\* Create, Update and Delete take Lock(); Read, ImportState, the data source
\* and the provider's Configure do not.
LockedButCreate(p) == Op[p] \in {"delete", "save"}   \* mutant: Create forgets Lock()
Locked(p) == Op[p] \in {"apply", "delete", "save"}

VARIABLES
    \* the goroutines
    phase,       \* idle, running, failing (a call returned an error), done, failed
    step,        \* how many calls of the operation have returned
    \* the client
    opMu, mu,    \* the owners of the two mutexes
    connected, currentMode,
    call,        \* the call that holds mu: where it is and what it remembers
    reply,       \* what readUntilPrompt has returned for the command sent last
    got,         \* what it has read so far
    \* the session and the switch
    link,        \* none, up, down
    toSwitch,    \* commands written, not yet read by the switch
    running,     \* the command the switch is executing
    toClient,    \* output written, not yet read by the client
    mode, ctx,   \* the mode of the session and who opened its sub-mode
    \* history and bounds
    log,         \* the configuration commands and saves the switch has accepted
    seen,        \* the commands whose output the last show call returned
    spent        \* Fault -> how often it has happened

procVars    == <<phase, step, opMu>>
clientVars  == <<mu, connected, currentMode, call>>
readVars    == <<reply, got>>
switchVars  == <<running, mode, ctx, log>>
pipeVars    == <<link, toSwitch, toClient>>
vars == <<procVars, clientVars, readVars, switchVars, pipeVars, seen, spent>>

\* i is the position of a batch command, 0 for every other command.
Command   == [by : Proc, op : SwitchOp, i : Nat]
NoCommand == [by |-> NoProc, op |-> "none", i |-> 0]

LoggedOp == ConfigOp \cup {"write"}

\* A piece of output: the echo of a command, or what follows it up to the
\* next prompt.  The greeting of a new session is a prompt of no command.
Chunk == [of : Command \cup {NoCommand}, kind : {"echo", "prompt"},
          mode : PromptMode, err : BOOLEAN]

NoCall == [kind |-> "none", at |-> "idle", attempt |-> 0, goal |-> "none",
           k |-> 0, exits |-> 0, failure |-> "none"]

\* readUntilPrompt returns ok (a prompt was read), lost ("read error") or
\* timeout ("timeout waiting for prompt").
Reply == [tag : {"idle", "awaiting", "ok", "lost", "timeout"}, err : BOOLEAN]
IdleReply == [tag |-> "idle", err |-> FALSE]
Awaiting  == [tag |-> "awaiting", err |-> FALSE]
Lost      == [tag |-> "lost", err |-> FALSE]
TimedOut  == [tag |-> "timeout", err |-> FALSE]

Init ==
    /\ phase = [p \in Proc |-> "idle"] /\ step = [p \in Proc |-> 0]
    /\ opMu = NoProc /\ mu = NoProc
    /\ connected = FALSE /\ currentMode = "unknown"
    /\ call = NoCall /\ reply = IdleReply /\ got = <<>>
    /\ link = "none" /\ toSwitch = <<>> /\ running = NoCommand /\ toClient = <<>>
    /\ mode = "closed" /\ ctx = NoProc
    /\ log = <<>> /\ seen = [p \in Proc |-> {}]
    /\ spent = [f \in Fault |-> 0]

CanFault(f) == spent[f] < Budget[f]
Spend(f) == spent' = [spent EXCEPT ![f] = @ + 1]

-----------------------------------------------------------------------------
(***************************************************************************)
(* The goroutines.  Terraform calls a resource only after the provider's   *)
(* Configure has succeeded.                                                *)
(***************************************************************************)
Configured == \A p \in Proc : Op[p] = "configure" => phase[p] = "done"

Start(p) ==
    /\ phase[p] = "idle"
    /\ Op[p] = "configure" \/ Configured
    /\ Locked(p) => opMu = NoProc
    /\ opMu' = IF Locked(p) THEN p ELSE opMu
    /\ phase' = [phase EXCEPT ![p] = "running"]
    /\ UNCHANGED <<step, clientVars, readVars, switchVars, pipeVars, seen, spent>>

StartCall(p) ==
    /\ phase[p] = "running" /\ step[p] < Len(Calls(p))
    /\ mu = NoProc
    /\ mu' = p
    /\ call' = [NoCall EXCEPT !.kind = Calls(p)[step[p] + 1], !.at = "begin"]
    /\ UNCHANGED <<procVars, connected, currentMode, readVars, switchVars, pipeVars,
                   seen, spent>>

\* mutant: Unlock() not deferred, so skipped on an error return
FinishKeepsLock(p) ==
    /\ mu # p
    /\ \/ phase[p] = "running" /\ step[p] = Len(Calls(p))
       \/ phase[p] = "failing"
    /\ phase' = [phase EXCEPT ![p] = IF @ = "running" THEN "done" ELSE "failed"]
    /\ opMu' = IF opMu = p /\ phase[p] = "running" THEN NoProc ELSE opMu
    /\ UNCHANGED <<step, clientVars, readVars, switchVars, pipeVars, seen, spent>>

Finish(p) ==
    /\ mu # p
    /\ \/ phase[p] = "running" /\ step[p] = Len(Calls(p))
       \/ phase[p] = "failing"
    /\ phase' = [phase EXCEPT ![p] = IF @ = "running" THEN "done" ELSE "failed"]
    /\ opMu' = IF opMu = p THEN NoProc ELSE opMu
    /\ UNCHANGED <<step, clientVars, readVars, switchVars, pipeVars, seen, spent>>

-----------------------------------------------------------------------------
(***************************************************************************)
(* Building blocks of the steps taken while mu is held.                    *)
(***************************************************************************)
\* stdin.Write.  On a dead session the write fails, or it goes nowhere and the
\* read after it fails; either way the error is a connection error.
Send(op, i, c) ==
    /\ call' = c
    /\ reply' \in IF link = "up" THEN {Awaiting} ELSE {Awaiting, Lost}
    /\ got' = <<>>
    /\ toSwitch' = IF link = "up" THEN Append(toSwitch, [by |-> mu, op |-> op, i |-> i])
                                 ELSE toSwitch
    /\ UNCHANGED <<link, toClient>>

GoTo(c) == call' = c /\ UNCHANGED <<readVars, pipeVars>>

\* The call returns and releases mu; an error ends the operation.
Return(ok) ==
    /\ mu' = NoProc /\ call' = NoCall
    /\ reply' = IdleReply /\ got' = <<>>
    /\ step' = [step EXCEPT ![mu] = @ + 1]
    /\ phase' = IF ok THEN phase ELSE [phase EXCEPT ![mu] = "failing"]
    /\ UNCHANGED <<opMu, pipeVars>>

Stay == UNCHANGED <<procVars, mu>>

\* isConnectionError on the error of a command: it looks for words in the
\* message, and the message of a batch command quotes the command.
Classify(tag, eof) == IF tag = "lost" \/ eof THEN "connection" ELSE "other"

Fail(failure) == GoTo([call EXCEPT !.at = "failed", !.failure = failure])

\* The client has its answer to the command sent at position at.
Answered(at) == call.at = at /\ reply.tag \in {"ok", "lost", "timeout"}
Frame == UNCHANGED <<switchVars, seen, spent>>

-----------------------------------------------------------------------------
(***************************************************************************)
(* ExecuteCommand, ExecuteConfigCommands, WriteMemory and Connect: the     *)
(* head of the attempt loop.                                               *)
(***************************************************************************)
BeginDisconnected ==
    /\ call.at = "begin" /\ ~connected /\ call.kind # "connect"
    /\ Return(FALSE)
    /\ UNCHANGED <<connected, currentMode>> /\ Frame

BeginConnect ==
    /\ call.at = "begin" /\ call.kind = "connect"
    /\ IF connected THEN Return(TRUE)
                    ELSE Stay /\ GoTo([call EXCEPT !.at = "dial"])
    /\ UNCHANGED <<connected, currentMode>> /\ Frame

BeginShow ==
    /\ call.at = "begin" /\ connected /\ call.kind = "show"
    /\ GoTo([call EXCEPT !.at = "unwind", !.goal = "show"])
    /\ Stay /\ UNCHANGED <<connected, currentMode>> /\ Frame

\* enterConfigMode
BeginConfig ==
    /\ call.at = "begin" /\ connected /\ call.kind = "config"
    /\ GoTo(IF currentMode = "config"
            THEN [call EXCEPT !.at = "send", !.k = 1]
            ELSE [call EXCEPT !.at = "unwind", !.goal = "enter"])
    /\ Stay /\ UNCHANGED <<connected, currentMode>> /\ Frame

\* writeMemory looks at no mode
BeginSave ==
    /\ call.at = "begin" /\ connected /\ call.kind = "save"
    /\ Send("write", 0, [call EXCEPT !.at = "single"])
    /\ Stay /\ UNCHANGED <<connected, currentMode>> /\ Frame

-----------------------------------------------------------------------------
(***************************************************************************)
(* returnToPrivilegedMode, called with a goal: what its caller does next.  *)
(* The caller "rollback" (a batch command failed) ignores its result.      *)
(***************************************************************************)
UnwindFails(failure) ==
    Fail(IF call.goal = "rollback" THEN call.failure ELSE failure)

Unwind ==
    /\ call.at = "unwind"
    /\ IF currentMode = "privileged"
       THEN GoTo([call EXCEPT !.at = "unwound"])
       ELSE Send("end", 0, [call EXCEPT !.at = "end"])
    /\ Stay /\ UNCHANGED <<connected, currentMode>> /\ Frame

EndAnswered ==
    /\ Answered("end")
    /\ IF reply.tag # "ok" THEN UnwindFails(Classify(reply.tag, FALSE))
       ELSE IF currentMode = "privileged" THEN GoTo([call EXCEPT !.at = "unwound"])
       ELSE Send("exit", 0, [call EXCEPT !.at = "exit", !.exits = 1])
    /\ Stay /\ UNCHANGED <<connected, currentMode>> /\ Frame

\* mutant: for i := 0; i <= 5; i++
ExitOnceMore ==
    /\ Answered("exit")
    /\ IF reply.tag = "ok" /\ currentMode = "privileged"
       THEN GoTo([call EXCEPT !.at = "unwound"])
       ELSE IF call.exits <= MaxExits
       THEN Send("exit", 0, [call EXCEPT !.exits = @ + 1])
       ELSE UnwindFails("other")
    /\ Stay /\ UNCHANGED <<connected, currentMode>> /\ Frame

\* An exit that fails is ignored; the error after the loop is "stuck in".
ExitAnswered ==
    /\ Answered("exit")
    /\ IF reply.tag = "ok" /\ currentMode = "privileged"
       THEN GoTo([call EXCEPT !.at = "unwound"])
       ELSE IF call.exits < MaxExits
       THEN Send("exit", 0, [call EXCEPT !.exits = @ + 1])
       ELSE UnwindFails("other")
    /\ Stay /\ UNCHANGED <<connected, currentMode>> /\ Frame

\* Back in privileged mode, as far as the client knows.
Unwound ==
    /\ call.at = "unwound"
    /\ \/ call.goal = "show" /\ Stay /\ Send("show", 0, [call EXCEPT !.at = "single"])
       \/ call.goal = "enter" /\ Stay /\ Send("configure", 0, [call EXCEPT !.at = "conft"])
       \/ call.goal = "paging" /\ Stay /\ Send("paging", 0, [call EXCEPT !.at = "paging"])
       \/ call.goal = "rollback" /\ Stay /\ GoTo([call EXCEPT !.at = "failed"])
       \/ call.goal = "final" /\ Return(TRUE)
    /\ UNCHANGED <<connected, currentMode>> /\ Frame

-----------------------------------------------------------------------------
(***************************************************************************)
(* runConfigCommands                                                       *)
(***************************************************************************)
ConfigureAnswered ==
    /\ Answered("conft")
    /\ IF reply.tag # "ok" THEN Fail(Classify(reply.tag, FALSE))
       ELSE IF currentMode # "config" THEN Fail("other")
       ELSE GoTo([call EXCEPT !.at = "send", !.k = 1])
    /\ Stay /\ UNCHANGED <<connected, currentMode>> /\ Frame

SendLine ==
    /\ call.at = "send"
    /\ IF call.k <= Len(Batch[mu])
       THEN Send(Batch[mu][call.k].op, call.k, [call EXCEPT !.at = "line"])
       ELSE GoTo([call EXCEPT !.at = "unwind", !.goal = "final"])
    /\ Stay /\ UNCHANGED <<connected, currentMode>> /\ Frame

\* mutant: IsErrorOutput not consulted
LineAlwaysAccepted ==
    /\ Answered("line")
    /\ IF reply.tag = "ok"
       THEN GoTo([call EXCEPT !.at = "send", !.k = @ + 1])
       ELSE GoTo([call EXCEPT !.at = "unwind", !.goal = "rollback",
                    !.failure = Classify(reply.tag, Batch[mu][call.k].eof)])
    /\ Stay /\ UNCHANGED <<connected, currentMode>> /\ Frame

\* A failed or refused command abandons the batch after an attempt to leave
\* configuration mode.
LineAnswered ==
    /\ Answered("line")
    /\ IF reply.tag = "ok" /\ ~reply.err
       THEN GoTo([call EXCEPT !.at = "send", !.k = @ + 1])
       ELSE GoTo([call EXCEPT !.at = "unwind", !.goal = "rollback",
                    !.failure = Classify(reply.tag, Batch[mu][call.k].eof)])
    /\ Stay /\ UNCHANGED <<connected, currentMode>> /\ Frame

-----------------------------------------------------------------------------
(***************************************************************************)
(* The answer to a show command or to "write memory".  Only an error of    *)
(* the show's own transport is retried.                                    *)
(***************************************************************************)
ShowAnswered ==
    /\ Answered("single") /\ call.kind = "show"
    /\ IF reply.tag = "ok"
       THEN /\ Return(~reply.err)
            /\ seen' = [seen EXCEPT ![mu] = { got[i].of : i \in DOMAIN got }]
       ELSE Stay /\ Fail(Classify(reply.tag, FALSE)) /\ UNCHANGED seen
    /\ UNCHANGED <<connected, currentMode, switchVars, spent>>

\* mutant: the output of "write memory" not looked at
SaveUnchecked ==
    /\ Answered("single") /\ call.kind = "save"
    /\ Return(reply.tag = "ok")
    /\ UNCHANGED <<connected, currentMode>> /\ Frame

SaveAnswered ==
    /\ Answered("single") /\ call.kind = "save"
    /\ Return(reply.tag = "ok" /\ ~reply.err)
    /\ UNCHANGED <<connected, currentMode>> /\ Frame

\* mutant: the attempt is not counted
RetriesForever == call.failure = "connection" /\ call.goal # "paging"

\* A connection error is retried once; connect itself is not.
Retries == /\ call.attempt = 0 /\ call.failure = "connection"
           /\ call.goal # "paging"

GiveUp ==
    /\ call.at = "failed" /\ ~Retries
    /\ Return(FALSE)
    /\ UNCHANGED <<connected, currentMode>> /\ Frame

-----------------------------------------------------------------------------
(***************************************************************************)
(* reconnect and connect                                                   *)
(***************************************************************************)
\* disconnect, the first half of reconnect: closes the session.
Reconnect ==
    /\ call.at = "failed" /\ Retries
    /\ connected' = FALSE /\ currentMode' = "unknown"
    /\ call' = [call EXCEPT !.at = "dial"]
    /\ link' = "down" /\ toSwitch' = <<>> /\ toClient' = <<>>
    /\ running' = NoCommand /\ mode' = "closed" /\ ctx' = NoProc
    /\ Stay /\ UNCHANGED <<readVars, log, seen, spent>>

\* Up to session.Shell(); then readUntilPrompt waits for the first prompt.
Dial(first) ==
    /\ call.at = "dial"
    /\ link' = "up" /\ toSwitch' = <<>> /\ running' = NoCommand
    /\ mode' = first /\ ctx' = NoProc
    /\ toClient' = <<[of |-> NoCommand, kind |-> "prompt", mode |-> first, err |-> FALSE]>>
    /\ call' = [call EXCEPT !.at = "banner"]
    /\ reply' = Awaiting /\ got' = <<>>
    /\ Stay /\ UNCHANGED <<connected, currentMode, log, seen, spent>>

\* An error while dialling closes what was opened; nothing is left.
DialFails ==
    /\ call.at = "dial" /\ CanFault("dial") /\ Spend("dial")
    /\ Return(FALSE)
    /\ UNCHANGED <<connected, currentMode, switchVars, seen>>

\* From here on an error returns without closing the session.
SetupFails ==
    /\ \E at \in {"banner", "enable", "paging"} : Answered(at)
    /\ reply.tag # "ok"
    /\ Return(FALSE)
    /\ UNCHANGED <<connected, currentMode>> /\ Frame

\* disablePaging
BannerAnswered ==
    /\ Answered("banner") /\ reply.tag = "ok"
    /\ IF currentMode = "user"
       THEN Send("enable", 0, [call EXCEPT !.at = "enable"])
       ELSE GoTo([call EXCEPT !.at = "unwind", !.goal = "paging"])
    /\ Stay /\ UNCHANGED <<connected, currentMode>> /\ Frame

EnableAnswered ==
    /\ Answered("enable") /\ reply.tag = "ok"
    /\ currentMode' = "privileged"
    /\ Send("paging", 0, [call EXCEPT !.at = "paging"])
    /\ Stay /\ UNCHANGED connected /\ Frame

\* enterPrivilegedMode finds the mode that disablePaging has set and the
\* interrupted call starts its second attempt.
PagingAnswered ==
    /\ Answered("paging") /\ reply.tag = "ok"
    /\ currentMode = "privileged"
    /\ connected' = TRUE
    /\ IF call.kind = "connect" THEN Return(TRUE)
       ELSE Stay /\ GoTo([NoCall EXCEPT !.kind = call.kind, !.at = "begin", !.attempt = 1])
    /\ UNCHANGED currentMode /\ Frame

-----------------------------------------------------------------------------
(***************************************************************************)
(* readUntilPrompt.  One Read returns any part of what has arrived.  Only  *)
(* the last line is compared with the prompt patterns, and the timer is    *)
(* looked at only between two Reads: never before the first, and never     *)
(* while one blocks.                                                       *)
(***************************************************************************)
Read(n) ==
    /\ reply.tag = "awaiting"
    /\ got' = got \o SubSeq(toClient, 1, n)
    /\ toClient' = SubSeq(toClient, n + 1, Len(toClient))
    /\ UNCHANGED <<procVars, mu, connected, call, link, toSwitch, switchVars, seen>>

\* mutant: any line may be the prompt
ReadAnyLine(n) ==
    /\ Read(n)
    /\ reply' = [tag |-> "ok", err |-> \E i \in DOMAIN got' : got'[i].err]
    /\ currentMode' = IF call.at \in {"enable", "paging"} THEN currentMode
                                                         ELSE toClient[n].mode
    /\ UNCHANGED spent

\* mutant: sendCommand does not update currentMode
ReadKeepsMode(n) ==
    /\ Read(n)
    /\ toClient[n].kind = "prompt"
    /\ reply' = [tag |-> "ok", err |-> \E i \in DOMAIN got' : got'[i].err]
    /\ currentMode' = IF call.at = "banner" THEN toClient[n].mode ELSE currentMode
    /\ UNCHANGED spent

\* sendCommand and connect take the mode from the prompt; disablePaging does
\* not.
ReadPrompt(n) ==
    /\ Read(n)
    /\ toClient[n].kind = "prompt"
    /\ reply' = [tag |-> "ok", err |-> \E i \in DOMAIN got' : got'[i].err]
    /\ currentMode' = IF call.at \in {"enable", "paging"} THEN currentMode
                                                         ELSE toClient[n].mode
    /\ UNCHANGED spent

ReadPart(n) ==
    /\ Read(n)
    /\ toClient[n].kind # "prompt"
    /\ \/ reply' = reply /\ UNCHANGED spent
       \/ /\ CanFault("timeout") /\ Spend("timeout")
          /\ reply' = TimedOut
    /\ UNCHANGED currentMode

ReadError ==
    /\ reply.tag = "awaiting" /\ link = "down" /\ toClient = <<>>
    /\ reply' = Lost
    /\ UNCHANGED <<procVars, clientVars, got, switchVars, pipeVars, seen, spent>>

-----------------------------------------------------------------------------
(***************************************************************************)
(* The switch: it echoes a command as soon as it has read it, executes it  *)
(* and writes the next prompt.                                             *)
(***************************************************************************)
SwitchEcho ==
    /\ link = "up" /\ running = NoCommand /\ toSwitch # <<>>
    /\ running' = Head(toSwitch) /\ toSwitch' = Tail(toSwitch)
    /\ toClient' = Append(toClient, [of |-> Head(toSwitch), kind |-> "echo",
                                     mode |-> mode, err |-> FALSE])
    /\ UNCHANGED <<procVars, clientVars, readVars, link, mode, ctx, log, seen, spent>>

Prompt(to, err) == [of |-> running, kind |-> "prompt", mode |-> to, err |-> err]

SwitchAccepts(to) ==
    /\ running # NoCommand /\ to \in Targets(running.op, mode) \ {"closed"}
    /\ running' = NoCommand /\ mode' = to
    /\ ctx' = IF to # "sub" THEN NoProc
              ELSE IF running.op = "open" THEN running.by ELSE ctx
    /\ log' = IF running.op \in LoggedOp
              THEN Append(log, [by |-> running.by, i |-> running.i]) ELSE log
    /\ toClient' = Append(toClient, Prompt(to, FALSE))
    /\ UNCHANGED <<procVars, clientVars, readVars, link, toSwitch, seen, spent>>

SwitchRejects ==
    /\ running # NoCommand
    /\ \/ Unknown(running.op, mode) /\ UNCHANGED spent
       \/ /\ running.op \in Rejectable /\ ~Unknown(running.op, mode)
          /\ CanFault("reject") /\ Spend("reject")
    /\ running' = NoCommand
    /\ toClient' = Append(toClient, Prompt(mode, TRUE))
    /\ UNCHANGED <<procVars, clientVars, readVars, link, toSwitch, mode, ctx, log, seen>>

SwitchLogsOut ==
    /\ running # NoCommand /\ "closed" \in Targets(running.op, mode)
    /\ running' = NoCommand /\ mode' = "closed" /\ ctx' = NoProc
    /\ link' = "down" /\ toSwitch' = <<>>
    /\ UNCHANGED <<procVars, clientVars, readVars, toClient, log, seen, spent>>

\* The session drops: what the switch has not executed is lost, and what it
\* has written may arrive in part.
Drop(n) ==
    /\ link = "up" /\ CanFault("drop") /\ Spend("drop")
    /\ link' = "down" /\ toSwitch' = <<>>
    /\ toClient' = SubSeq(toClient, 1, n)
    /\ running' = NoCommand /\ mode' = "closed" /\ ctx' = NoProc
    /\ UNCHANGED <<procVars, clientVars, readVars, log, seen>>

-----------------------------------------------------------------------------
ClientStep ==
    \/ BeginDisconnected \/ BeginConnect \/ BeginShow \/ BeginConfig \/ BeginSave
    \/ Unwind \/ EndAnswered \/ ExitAnswered \/ Unwound
    \/ ConfigureAnswered \/ SendLine \/ LineAnswered
    \/ ShowAnswered \/ SaveAnswered \/ GiveUp
    \/ Reconnect \/ (\E first \in {"user", "privileged"} : Dial(first)) \/ DialFails
    \/ SetupFails \/ BannerAnswered \/ EnableAnswered \/ PagingAnswered

ClientRead ==
    \/ \E n \in 1..Len(toClient) : ReadPrompt(n) \/ ReadPart(n)
    \/ ReadError

SwitchStep ==
    \/ SwitchEcho \/ SwitchRejects \/ SwitchLogsOut
    \/ \E to \in PromptMode : SwitchAccepts(to)

ProcStep(p) == Start(p) \/ StartCall(p) \/ Finish(p)

Ended == {"done", "failed"}

\* Nothing is left to do: every operation has returned, or Configure failed
\* and Terraform runs none.
Terminated ==
    /\ \A p \in Proc : phase[p] \in Ended \/ (phase[p] = "idle" /\ ~Configured)
    /\ \E p \in Proc : phase[p] \in Ended
    /\ UNCHANGED vars

Next ==
    \/ \E p \in Proc : ProcStep(p)
    \/ ClientStep \/ ClientRead \/ SwitchStep
    \/ \E n \in 0..Len(toClient) : Drop(n)
    \/ Terminated

Spec == Init /\ [][Next]_vars


\* Terraform waits for every goroutine; Go's mutexes hand over to a waiter;
\* the client's code runs on; the switch answers what it has read.
Fairness ==
    /\ \A p \in Proc : WF_vars(ProcStep(p))
    /\ WF_vars(ClientStep)
    /\ WF_vars(ClientRead)
SwitchAnswers == WF_vars(SwitchStep)

FairSpec == Spec /\ Fairness /\ SwitchAnswers

\* The same client in front of a switch that may fall silent.
SilentSwitchSpec == Spec /\ Fairness

-----------------------------------------------------------------------------
Position == {"idle", "begin", "unwind", "end", "exit", "unwound", "conft", "send",
             "line", "single", "failed", "dial", "banner", "enable", "paging"}
Call == [kind : {"none", "connect", "config", "show", "save"}, at : Position,
         attempt : {0, 1}, k : Nat, exits : 0..MaxExits,
         goal : {"none", "show", "enter", "final", "rollback", "paging"},
         failure : {"none", "connection", "other"}]

\* The types of the variables, among them: one retry, and at most MaxExits
\* times "exit".
TypeOK ==
    /\ phase \in [Proc -> {"idle", "running", "failing"} \cup Ended]
    /\ step \in [Proc -> Nat]
    /\ opMu \in Proc \cup {NoProc} /\ mu \in Proc \cup {NoProc}
    /\ connected \in BOOLEAN /\ currentMode \in CLIMode
    /\ call \in Call /\ reply \in Reply /\ got \in Seq(Chunk)
    /\ link \in {"none", "up", "down"}
    /\ toSwitch \in Seq(Command) /\ running \in Command \cup {NoCommand}
    /\ toClient \in Seq(Chunk)
    /\ mode \in SwitchMode /\ ctx \in Proc \cup {NoProc}
    /\ log \in Seq([by : Proc, i : Nat])
    /\ seen \in [Proc -> SUBSET (Command \cup {NoCommand})]
    /\ spent \in [Fault -> Nat]

InProgress(p) == phase[p] \in {"running", "failing"}

(***************************************************************************)
(* The lock protocol of client.go: opMu is held by exactly the operation   *)
(* that has to hold it, from its start to its end on every path, and mu is *)
(* only taken by a running operation that already holds opMu if it needs   *)
(* it ("Always acquire opMu before mu").                                   *)
(***************************************************************************)
LockDiscipline ==
    /\ \A p \in Proc : opMu = p <=> Locked(p) /\ InProgress(p)
    /\ mu # NoProc => phase[mu] = "running" /\ (Locked(mu) => opMu = mu)

(***************************************************************************)
(* What client.go promises of its mutexes: commands of different           *)
(* goroutines never interleave on the switch.  Whatever the switch has     *)
(* still to execute comes from the call that holds mu.                     *)
(***************************************************************************)
NeverInterleaved ==
    /\ running # NoCommand => running.by = mu
    /\ \A i \in DOMAIN toSwitch : toSwitch[i].by = mu

(***************************************************************************)
(* The promise of opMu alone: while one Create, Update or Delete runs, the *)
(* switch executes no command of another one.                              *)
(***************************************************************************)
SerialisedOperations ==
    running # NoCommand /\ Locked(running.by) /\ opMu # NoProc => running.by = opMu

(***************************************************************************)
(* Create and Update read back what they wrote: when the switch executes   *)
(* the show of an apply, no other operation has changed the configuration  *)
(* since that apply's last command.                                        *)
(***************************************************************************)
ReadBackIsolated ==
    running.op = "show" /\ Op[running.by] = "apply" =>
        log # <<>> /\ log[Len(log)].by = running.by

(***************************************************************************)
(* A sub-mode command (name X, ip address ...) reaches the switch in the   *)
(* sub-mode its own batch has opened: never on another resource's object,  *)
(* and never after the opening command was refused.                        *)
(***************************************************************************)
ContextSafety == running.op = "line" => mode = "sub" /\ ctx = running.by

\* What the switch has accepted of p since entry n of the log is the
\* configuration commands of its batch up to the k-th, each once and in order.
AcceptedUpTo(p, n, k) ==
    LET new == { j \in (n + 1)..Len(log) : log[j].by = p }
    IN  /\ { log[j].i : j \in new } = { i \in 1..k : Batch[p][i].op \in ConfigOp }
        /\ \A a, b \in new : a < b => log[a].i < log[b].i

(***************************************************************************)
(* A resource operation that reports success has had its whole batch       *)
(* accepted, in order and with nothing after it, however often the session *)
(* dropped on the way.                                                     *)
(***************************************************************************)
SuccessMeansApplied ==
    \A p \in Proc : phase[p] = "done" /\ Op[p] \in {"apply", "delete"} =>
        \E n \in 0..Len(log) : AcceptedUpTo(p, n, Len(Batch[p]))

(***************************************************************************)
(* WriteMemory "saves the running-config to startup-config": when it       *)
(* reports success, the switch has executed its "write memory".            *)
(***************************************************************************)
SaveMeansSaved ==
    \A p \in Proc : phase[p] = "done" /\ Op[p] = "save" =>
        \E j \in DOMAIN log : log[j].by = p

(***************************************************************************)
(* The output an operation parses is that of its own show command and of   *)
(* nothing else: no answer of an earlier command, no answer of another     *)
(* goroutine.                                                              *)
(***************************************************************************)
OwnAnswer ==
    \A p \in Proc : seen[p] \subseteq {[by |-> p, op |-> "show", i |-> 0]}

(***************************************************************************)
(* The mode the client tracks is the mode the session is in whenever it    *)
(* looks at it: connected, on a live session, with no answer outstanding.  *)
(***************************************************************************)
ModeAgreement ==
    connected /\ link = "up" /\ reply.tag # "awaiting" => currentMode = mode

(***************************************************************************)
(* The retry after a dropped session re-executes a batch, but the switch   *)
(* never executes a command of it more than twice.                         *)
(***************************************************************************)
AtMostTwice ==
    ~\E a, b, c \in DOMAIN log : /\ a < b /\ b < c
                                 /\ log[a] = log[b] /\ log[b] = log[c]

(***************************************************************************)
(* "Configurable timeouts with proper cleanup": outside a call, a client   *)
(* that is not connected holds no session.  An error before the shell is   *)
(* started closes what was opened; a timeout after it does not.            *)
(***************************************************************************)
ProperCleanup == mu = NoProc /\ ~connected => link # "up"

(***************************************************************************)
(* The comment on isConnectionError: "errors that indicate the SSH session *)
(* has dropped".  A call reconnects only because its session has gone.     *)
(***************************************************************************)
RetriesOnlyLostSessions ==
    [][call.at = "failed" /\ call'.at = "dial" => link = "down"]_vars

(***************************************************************************)
(* Every operation that starts returns, with its mutexes released.         *)
(***************************************************************************)
EveryOperationReturns ==
    \A p \in Proc : phase[p] = "running" ~> phase[p] \in Ended /\ opMu # p /\ mu # p

(***************************************************************************)
(* A command that waits for its answer gets one, or a timeout, or an error.*)
(***************************************************************************)
EveryCommandReturns == reply.tag = "awaiting" ~> reply.tag # "awaiting"

(***************************************************************************)
(* "Persistent SSH connection with automatic reconnection": a call that    *)
(* finds the client without a session dials again.                         *)
(***************************************************************************)
AutomaticReconnection ==
    [][call.at = "begin" /\ ~connected /\ call'.at # "begin" => call'.at = "dial"]_vars

=============================================================================
