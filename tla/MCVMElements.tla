---------------------------- MODULE MCVMElements ----------------------------
(***************************************************************************)
(* Workloads for TLC.                                                      *)
(***************************************************************************)
EXTENDS VMElements

\* Small elements that stay.
Small == [sizes |-> {1, 2, 3}, free |-> FALSE, held |-> 3, others |-> TRUE]

\* Requests of one size that fill a page, released in any order; the rest is as
\* large as a header or there is none.
Filling(size) == [sizes |-> {size}, free |-> TRUE, held |-> 4, others |-> TRUE]

\* A thread that runs alone and needs a second page, which is joined.
Joining == [sizes |-> {10, 11}, free |-> FALSE, held |-> 2, others |-> FALSE]

\* One size, released, by a thread whose page is never moved.
Releasing == [sizes |-> {2}, free |-> TRUE, held |-> 2, others |-> FALSE]

MCWorkloads == {Small, Filling(16), Filling(18), Joining, Releasing}
=============================================================================
