---------------------------- MODULE MCMyPthread ----------------------------
(***************************************************************************)
(* Values for the constants of MyPthread.                                  *)
(***************************************************************************)
EXTENDS MyPthread

\* The timer signal strikes anywhere.
Anywhere == Points

\* It spares the three windows and the two instructions of testAndSet.
OutsideWindows == Points \ (Windows \union {"tas"})
=============================================================================
