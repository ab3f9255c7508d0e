----------------------------- MODULE Scheduler -----------------------------
(***************************************************************************)
(* What the thread library promises about where threads are: one has the   *)
(* CPU, the others are ready, wait for a thread to exit or wait for a      *)
(* mutex.  Which of the ready threads runs next is left open, and so is    *)
(* when the CPU changes hands.                                             *)
(***************************************************************************)
CONSTANTS Thread, Mutex, main

VARIABLES
  known,     \* the threads that were created
  current,   \* the thread that has the CPU
  ready,
  joiners,   \* for each thread those that wait for it to exit
  waiters,   \* for each mutex those that wait for it
  done,      \* the threads that have exited
  alive      \* the process runs

vars == <<known, current, ready, joiners, waiters, done, alive>>

Init ==
  /\ known = {main} /\ current = main /\ ready = {} /\ done = {} /\ alive = TRUE
  /\ joiners = [t \in Thread |-> {}] /\ waiters = [m \in Mutex |-> {}]

\* One of the threads r gets the CPU, the others are ready.
Dispatch(r) == current' \in r /\ ready' = r \ {current'}

Create ==
  /\ \E t \in Thread \ known : known' = known \union {t} /\ ready' = ready \union {t}
  /\ UNCHANGED <<current, joiners, waiters, done>>

\* The CPU is taken from a thread, or given up.
Switch ==
  /\ current' \in ready /\ ready' = (ready \ {current'}) \union {current}
  /\ UNCHANGED <<known, joiners, waiters, done>>

Join(t) ==
  /\ t \in known \ done
  /\ joiners' = [joiners EXCEPT ![t] = @ \union {current}]
  /\ Dispatch(ready)
  /\ UNCHANGED <<known, waiters, done>>

\* All who wait for the thread are ready.  With nobody to run it keeps the CPU.
Exit ==
  LET woken == ready \union joiners[current] IN
  /\ done' = done \union {current}
  /\ joiners' = [joiners EXCEPT ![current] = {}]
  /\ IF woken = {} THEN UNCHANGED <<current, ready>> ELSE Dispatch(woken)
  /\ UNCHANGED <<known, waiters>>

Wait(m) ==
  /\ waiters' = [waiters EXCEPT ![m] = @ \union {current}]
  /\ Dispatch(ready)
  /\ UNCHANGED <<known, joiners, done>>

\* One or all of the threads that wait for a mutex are ready.
Wake(m) ==
  \E woken \in {{t} : t \in waiters[m]} \union {waiters[m]} :
    /\ ready' = ready \union woken
    /\ waiters' = [waiters EXCEPT ![m] = @ \ woken]
    /\ UNCHANGED <<known, current, joiners, done>>

\* The process ends or dies.
Next ==
  /\ alive
  /\ \/ ~alive'
     \/ /\ alive'
        /\ \/ Create \/ Switch \/ Exit
           \/ \E t \in Thread : Join(t)
           \/ \E m \in Mutex : Wait(m) \/ Wake(m)

Spec == Init /\ [][Next]_vars
=============================================================================
