---------------------------- MODULE MCOSMemory ----------------------------
(***************************************************************************)
(* Programs for TLC: one that initialises its mutex again after destroying *)
(* it, one with two mutexes that are not initialised again, and one that   *)
(* also creates its second thread after the mutex is gone.                 *)
(***************************************************************************)
EXTENDS OSMemory

MCPrograms == {[threads |-> 3, mutexes |-> 1, after |-> {"init"}],
               [threads |-> 3, mutexes |-> 2, after |-> {}],
               [threads |-> 2, mutexes |-> 1, after |-> {"init", "create"}]}
=============================================================================
