----------------------------- MODULE MCProcTree -----------------------------
(* Small instances of ProcTree. *)
EXTENDS ProcTree

CONSTANTS i, t1, t2, t3

(* Forks that sleep, exits and waits in any order; the pids wrap. *)
Family ==
    [ops |-> {"fork", "exit", "waitpid"}, options |-> {{}}, sigs |-> {}, copySleeps |-> TRUE,
     slots |-> {i, t1, t2, t3}, firstPid |-> 7, lastPid |-> 5]

(* Sessions, groups and stopped jobs: a shell and its job. *)
Jobs ==
    [ops |-> AllOps, options |-> {{"WUNTRACED"}}, sigs |-> {SIGSTOP}, copySleeps |-> FALSE,
     slots |-> {i, t1, t2}, firstPid |-> 6, lastPid |-> 2]

MCScenes == {Family, Jobs}
=============================================================================
