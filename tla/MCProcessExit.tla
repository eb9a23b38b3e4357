--------------------------- MODULE MCProcessExit ---------------------------
(* Instances of ProcessExit for TLC.                                       *)
EXTENDS ProcessExit, TLC

CONSTANTS a, b, c, d

\* One thread ends the process while another creates a third, which computes,
\* and exits; the parent waits or kills.
Mixed == (a :> {"exit_group"} @@ b :> {"clone", "exit"} @@ c :> {} @@
          Parent :> {"waitpid", "kill"})

\* Every kind of ending at once.
Everything == (a :> {"exit_group", "exit"} @@ b :> {"exit", "fatal"} @@
               c :> {"exit_group"} @@ Parent :> {"waitpid", "kill", "end"})

\* Two threads call exit_group.
TwoGroups == (a :> {"exit_group"} @@ b :> {"exit_group"} @@ Parent :> {"waitpid"})

=============================================================================
