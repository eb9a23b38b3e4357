--------------------------- MODULE MCMappedLeases ---------------------------
(***************************************************************************)
(* A small instance of MappedLeases: two threads of the first process and  *)
(* one of the process that a clone makes.                                  *)
(***************************************************************************)
EXTENDS MappedLeases, TLC

CONSTANTS p, q, a, b, c

TheProcs == {p, q}
TheThreads == {a, b, c}
TheProc == (a :> p) @@ (b :> p) @@ (c :> q)
TheMay == (a :> {"clone", "exit"}) @@ (b :> {"unmap", "exec"})
       @@ (c :> {"store", "write", "msync", "mmap", "replace"})
=============================================================================
