------------------------------ MODULE SwitchCli ------------------------------
(***************************************************************************)
(* The command line at the far end of the SSH session: which EXEC or       *)
(* configuration mode a command is accepted in, and the mode the next      *)
(* prompt shows.  The switch itself is not part of the provider; this is   *)
(* tests/mock/mock_switch.go, completed with the reactions of real IOS     *)
(* that the client's error patterns and its "exit" loop are written for.   *)
(***************************************************************************)
EXTENDS Naturals

\* CLIMode of client.go.  ModeConfigIf, ModeConfigVlan, ModeConfigDhcp and
\* ModeConfigNacl are the one mode "sub": the client only ever compares the
\* current mode with ModeUser, ModePrivileged and ModeConfig.
PromptMode == {"user", "privileged", "config", "sub"}
CLIMode    == PromptMode \cup {"unknown"}

\* A logged out session has no prompt any more.
SwitchMode == PromptMode \cup {"closed"}

\* What the client can type.  "open" enters a sub-mode (vlan 10, interface
\* Gi1/0/1, ip dhcp pool P), "line" is a command of that sub-mode, "global" a
\* command of the configuration mode (no vlan 10, ip route ...), "paging" is
\* "terminal length 0", "write" is "write memory".
SwitchOp == {"enable", "paging", "configure", "end", "exit",
             "show", "write", "open", "line", "global"}

\* The operations that change the running configuration.
ConfigOp == {"open", "line", "global"}

(***************************************************************************)
(* <<op, from, to>>: op is accepted in mode from and leaves the session in *)
(* mode to.  "exit" in a sub-mode goes back to privileged EXEC on the mock *)
(* and to configuration mode on IOS; in privileged EXEC the mock drops to  *)
(* user EXEC and IOS logs out.                                             *)
(***************************************************************************)
Accepted ==
    { <<"enable", "user", "privileged">>,
      <<"configure", "privileged", "config">>,
      <<"write", "privileged", "privileged">>,
      <<"exit", "config", "privileged">>,
      <<"exit", "sub", "privileged">>, <<"exit", "sub", "config">>,
      <<"exit", "privileged", "user">>, <<"exit", "privileged", "closed">>,
      <<"exit", "user", "closed">>,
      <<"line", "sub", "sub">> }
    \cup { <<op, from, from>> : op \in {"show", "paging"}, from \in PromptMode }
    \cup { <<"end", from, "privileged">> : from \in {"config", "sub"} }
    \cup { <<"open", from, "sub">> : from \in {"config", "sub"} }
    \cup { <<"global", from, "config">> : from \in {"config", "sub"} }

\* The modes an accepted op may lead to; empty when the mode does not know op.
Targets(op, from) == { to \in SwitchMode : <<op, from, to>> \in Accepted }

\* "% Invalid input detected": a command unknown to the mode.  The mock does
\* not log out of user EXEC, it rejects "exit" there.
Unknown(op, from) == \/ Targets(op, from) = {}
                     \/ op = "exit" /\ from = "user"

=============================================================================
