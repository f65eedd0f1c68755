---------------------------- MODULE MCDaemonShell ----------------------------
(* Instances of DaemonShell for TLC: command lines with the options named. *)
EXTENDS DaemonShell

Line(options) == [o \in {"fork", "pid", "wait", "jail", "user", "seccomp", "keyfile", "query"}
                    |-> o \in options]

\* Every option with and without the others it interacts with.
Lines == {Line({"fork", "pid", "wait"}), Line({"pid", "user", "keyfile"}),
          Line({"jail", "pid", "wait"}), Line({"pid", "seccomp"}),
          Line({"query", "jail", "fork"})}

QueryLine == {Line({"query"})}
==============================================================================
