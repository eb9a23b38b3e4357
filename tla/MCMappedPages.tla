---------------------------- MODULE MCMappedPages ----------------------------
(***************************************************************************)
(* A small instance of MappedPages: a thread that faults, stores to the     *)
(* page and to other memory and flushes, one that writes from the mapped   *)
(* page and faults on it, and one that maps the address anew, truncates    *)
(* the file and writes to it from other memory.                            *)
(***************************************************************************)
EXTENDS MappedPages, TLC

CONSTANTS a, b, c, f1, f2

TheThreads == {a, b, c}
TheFiles == {f1, f2}
TheMay == (a :> {<<"touch">>, <<"store">>, <<"fill">>, <<"msync", f1>>})
       @@ (b :> {<<"writeMapped", f1>>})
       @@ (c :> {<<"mmap", f2>>, <<"truncate", f2>>, <<"write", f2>>})
=============================================================================
