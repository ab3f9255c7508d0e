-------------------------- MODULE SchedulerProofs --------------------------
(***************************************************************************)
(* The thread library implements the abstract scheduler, for any number of *)
(* threads and mutexes and wherever the timer signal strikes.              *)
(***************************************************************************)
EXTENDS QueueProofs

Joiners == [t \in Thread |-> Range(waitJoin[t])]
Waiters == [m \in Mutex |-> Range(wait[m])]
Step == [Abstract!Next]_(Abstract!vars)

\* A step that moves no thread, or ends the process.
LEMMA QuietImplements ==
  ASSUME \/ status = "ok" /\ status' # "ok"
         \/ UNCHANGED <<run, running, nextId, finished, waitJoin, wait, status>>
  PROVE  Step
<1>1. CASE status = "ok" /\ status' # "ok"
  BY <1>1 DEF Step, Abstract!Next
<1>2. CASE UNCHANGED <<run, running, nextId, finished, waitJoin, wait, status>>
  BY <1>2 DEF Step, Abstract!vars, created
<1> QED
  BY <1>1, <1>2

\* Identifiers are given out in order.
LEMMA CreatedAreThreads == ASSUME TypeInv PROVE created \subseteq Thread
  BY NThreadsAssumption DEF TypeInv, TypeOK, created, Thread

\* The abstract initial state.
LEMMA InitImplements == Init => Abstract!Init
<1> SUFFICES ASSUME Init PROVE Abstract!Init
  OBVIOUS
<1>1. Range(<< >>) = {}
  BY DEF Range
<1>2. created = {main} /\ running = main /\ Range(run) = {} /\ status = "ok"
  BY <1>1 DEF Init, created, main
<1>3. {t \in created : finished[t]} = {}
  BY <1>2, MainIsAThread DEF Init, main
<1>4. Joiners = [t \in Thread |-> {}] /\ Waiters = [m \in Mutex |-> {}]
  BY <1>1 DEF Init, Joiners, Waiters
<1> QED
  BY <1>2, <1>3, <1>4 DEF Abstract!Init, Joiners, Waiters

\* A scheduler call gives the CPU to a ready thread, or to nobody else.
LEMMA RotateImplements ==
  ASSUME QueueInv, status = "ok", Rotates,
         UNCHANGED <<nextId, finished, waitJoin, wait>>
  PROVE  Step
<1>1. NoDuplicate
  BY DEF QueueInv, Conservation
<1>2. /\ Range(run') \union {running'} = Range(run) \union {running}
      /\ running \notin Range(run) /\ running' \notin Range(run')
  BY <1>1 DEF Rotates, NoDuplicate
<1>3. CASE status' # "ok"
  BY <1>3, QuietImplements
<1>4. CASE status' = "ok" /\ running' = running
  <2>1. Range(run') = Range(run)
    BY <1>2, <1>4
  <2> QED
    BY <1>4, <2>1 DEF Step, Abstract!vars, created
<1>5. CASE status' = "ok" /\ running' # running
  <2>1. running' \in Range(run)
        /\ Range(run') = (Range(run) \ {running'}) \union {running}
    BY <1>2, <1>5
  <2>2. Abstract!Switch
    BY <2>1 DEF Abstract!Switch, created
  <2> QED
    BY <1>5, <2>2 DEF Step, Abstract!Next
<1> QED
  BY <1>3, <1>4, <1>5

\* my_pthread_create makes one new thread ready.
LEMMA CreateImplements ==
  ASSUME TypeInv, my_pthread_create
  PROVE  Step
<1>1. nextId \in Thread /\ nextId \notin created /\ created' = created \union {nextId}
  <2>1. nextId \in 2..(NThreads + 1) /\ nextId' = nextId + 1
    BY DEF TypeInv, TypeOK, my_pthread_create
  <2> QED
    BY <2>1, CreatesAThread, NThreadsAssumption DEF created
<1>2. Adds(pushOrdered(priority', run, nextId), Thread, run, nextId)
  BY <1>1, PushOrderedAdds DEF TypeInv, TypeOK
<1>3. Range(run') = Range(run) \union {nextId}
  BY <1>2 DEF Adds, my_pthread_create
<1>4. UNCHANGED <<running, waitJoin, wait, status>> /\ status = "ok"
  BY DEF my_pthread_create, locks, Executing
<1>5. {t \in created : finished[t]}' = {t \in created : finished[t]}
  <2>1. finished' = [finished EXCEPT ![nextId] = FALSE] /\ finished \in [Thread -> BOOLEAN]
    BY DEF my_pthread_create, TypeInv, TypeOK
  <2>2. ~finished'[nextId] /\ \A t \in created : finished'[t] = finished[t]
    BY <1>1, <2>1, CreatedAreThreads
  <2> QED
    BY <1>1, <2>2
<1>6. Abstract!Create
  BY <1>1, <1>3, <1>4, <1>5 DEF Abstract!Create
<1> QED
  BY <1>4, <1>6 DEF Step, Abstract!Next

\* An exit makes all of the joiners ready and gives the CPU to a ready thread.
LEMMA ExitImplements ==
  ASSUME TypeInv, QueueInv, status = "ok", NEW v \in Results, threadExit(v),
         UNCHANGED <<nextId, wait>>
  PROVE  Step
<1>1. NoDuplicate
  BY DEF QueueInv, Conservation
<1>2. Merges(Wakened, Thread, run, waitJoin[running])
  BY PushAllMerges DEF TypeInv, TypeOK, Wakened
<1>3. running \in Thread /\ finished \in [Thread -> BOOLEAN]
      /\ waitJoin \in [Thread -> Seq(Thread)] /\ running \in created
  BY <1>1 DEF TypeInv, TypeOK, NoDuplicate, Active
<1> DEFINE woken == Range(run) \union Range(waitJoin[running])
<1>4. Range(Wakened) = woken /\ IsInjective(Wakened) /\ Wakened \in Seq(Thread)
  BY <1>1, <1>2, <1>3 DEF Merges, NoDuplicate, Active
<1>5. {t \in created : finished[t]}' = {t \in created : finished[t]} \union {running}
  <2>1. finished' = [finished EXCEPT ![running] = TRUE] /\ created' = created
    BY DEF threadExit, created
  <2>2. finished'[running] /\ \A t \in created : t # running => finished'[t] = finished[t]
    BY <1>3, <2>1, CreatedAreThreads
  <2> QED
    BY <1>3, <2>1, <2>2
<1>6. Joiners' = [Joiners EXCEPT ![running] = {}]
  <2>1. \A u \in Thread : waitJoin'[u] = IF u = running THEN << >> ELSE waitJoin[u]
    BY <1>3 DEF threadExit
  <2>2. Range(<< >>) = {}
    BY DEF Range
  <2> QED
    BY <1>3, <2>1, <2>2 DEF Joiners
<1>7. Joiners[running] = Range(waitJoin[running])
  BY <1>3 DEF Joiners
<1>8. IF woken = {} THEN running' = running /\ Range(run') = Range(run)
      ELSE running' \in woken /\ Range(run') = woken \ {running'}
  <2>1. CASE Wakened = << >>
    <3>1. Range(<< >>) = {}
      BY DEF Range
    <3>2. woken = {} /\ running' = running /\ run' = << >>
      BY <1>4, <2>1, <3>1 DEF threadExit
    <3> QED
      BY <3>1, <3>2
  <2>2. CASE Wakened # << >>
    <3>1. Removes(run', Thread, Wakened, running')
      BY <1>4, <2>2, PopRemoves DEF threadExit
    <3> QED
      BY <1>4, <3>1 DEF Removes
  <2> QED
    BY <2>1, <2>2
<1>9. created' = created /\ Waiters' = Waiters
  BY DEF created, Waiters
<1>10. Abstract!Exit
  BY <1>5, <1>6, <1>7, <1>8, <1>9
  DEF Abstract!Exit, Abstract!Dispatch, Joiners, Waiters
<1>11. CASE status' = "ok"
  BY <1>10, <1>11 DEF Step, Abstract!Next
<1>12. CASE status' # "ok"
  BY <1>12, QuietImplements
<1> QED
  BY <1>11, <1>12

\* A join of a thread that has not exited waits for it.
LEMMA JoinImplements ==
  ASSUME TypeInv, QueueInv, NEW u \in Thread, NEW want, JoinBlocks(u, want)
  PROVE  Step
<1>1. NoDuplicate /\ status = "ok" /\ u \in created /\ ~finished[u]
  BY DEF QueueInv, Conservation, JoinBlocks, MayJoin, Executing
<1>2. running \in Thread /\ run \in Seq(Thread)
      /\ waitJoin \in [Thread -> Seq(Thread)] /\ waitJoin[u] \in Seq(Thread)
  BY DEF TypeInv, TypeOK
<1>3. Adds(pushOrdered(priority, waitJoin[u], running), Thread, waitJoin[u], running)
  BY <1>2, PushOrderedAdds
<1>4. Removes(run', Thread, run, running')
  BY <1>2, PopRemoves DEF JoinBlocks
<1>5. running' \in Range(run) /\ Range(run') = Range(run) \ {running'}
  BY <1>1, <1>4 DEF Removes, NoDuplicate
<1>6. Joiners' = [Joiners EXCEPT ![u] = @ \union {running}]
  <2>1. \A w \in Thread : Range(waitJoin'[w]) =
          IF w = u THEN Range(waitJoin[u]) \union {running} ELSE Range(waitJoin[w])
    BY <1>2, <1>3 DEF JoinBlocks, Adds
  <2> QED
    BY <2>1 DEF Joiners
<1>7. UNCHANGED <<nextId, finished, wait, status>>
  BY DEF JoinBlocks, locks
<1>8. Abstract!Join(u)
  BY <1>1, <1>5, <1>6, <1>7 DEF Abstract!Join, Abstract!Dispatch, Joiners, created
<1> QED
  BY <1>1, <1>7, <1>8 DEF Step, Abstract!Next

\* A thread that finds the mutex taken waits for it.
LEMMA LockImplements ==
  ASSUME TypeInv, QueueInv, LockBlocks
  PROVE  Step
<1> DEFINE l == lockArg[self]
<1>1. NoDuplicate /\ status = "ok" /\ l \in live
  BY DEF QueueInv, Conservation, LockBlocks, Executing
<1>2. running \in Thread /\ run \in Seq(Thread) /\ l \in Mutex
      /\ wait \in [Mutex -> Seq(Thread)] /\ wait[l] \in Seq(Thread)
  BY <1>1 DEF TypeInv, TypeOK
<1>3. Adds(Append(wait[l], running), Thread, wait[l], running)
  BY <1>2, PushAdds
<1>4. CASE run = << >>
  BY <1>1, <1>4, QuietImplements DEF LockBlocks, End
<1>5. CASE run # << >>
  <2>1. Removes(run', Thread, run, running')
    BY <1>2, <1>5, PopRemoves DEF LockBlocks
  <2>2. running' \in Range(run) /\ Range(run') = Range(run) \ {running'}
    BY <1>1, <2>1 DEF Removes, NoDuplicate
  <2>3. /\ wait' = [wait EXCEPT ![l] = Append(wait[l], running)]
        /\ UNCHANGED <<finished, waitJoin, nextId, status>>
    BY <1>5 DEF LockBlocks, threads
  <2> HIDE DEF l
  <2>4. Waiters' = [Waiters EXCEPT ![l] = @ \union {running}]
    <3>1. \A m \in Mutex : Range(wait'[m]) =
            IF m = l THEN Range(wait[l]) \union {running} ELSE Range(wait[m])
      BY <1>2, <1>3, <2>3 DEF Adds
    <3> QED
      BY <3>1 DEF Waiters
  <2>5. Abstract!Wait(l)
    BY <2>2, <2>3, <2>4 DEF Abstract!Wait, Abstract!Dispatch, Waiters, created
  <2> QED
    BY <1>1, <1>2, <2>3, <2>5 DEF Step, Abstract!Next
<1> QED
  BY <1>4, <1>5

\* Threads that waited for a mutex become ready: one or all of them.
LEMMA WakeImplements ==
  ASSUME TypeInv, status = "ok", NEW m \in Mutex, NEW woken,
         woken = Range(wait[m]) \/ \E t \in Range(wait[m]) : woken = {t},
         Range(run') = Range(run) \union woken,
         wait' = [wait EXCEPT ![m] = wait'[m]],
         Range(wait'[m]) = Range(wait[m]) \ woken,
         UNCHANGED <<running, nextId, finished, waitJoin, status>>
  PROVE  Step
<1>1. wait \in [Mutex -> Seq(Thread)]
  BY DEF TypeInv, TypeOK
<1>2. \A n \in Mutex : n # m => wait'[n] = wait[n]
  BY <1>1
<1>3. Waiters' = [Waiters EXCEPT ![m] = @ \ woken]
  BY <1>2 DEF Waiters
<1>4. woken \in {{t} : t \in Waiters[m]} \union {Waiters[m]}
  BY DEF Waiters
<1>5. Abstract!Wake(m)
  BY <1>3, <1>4 DEF Abstract!Wake, Waiters, created
<1> QED
  BY <1>5 DEF Step, Abstract!Next

\* my_pthread_mutex_unlock makes one waiter ready, if there is one.
LEMMA UnlockImplements ==
  ASSUME TypeInv, QueueInv, NEW m \in Mutex, my_pthread_mutex_unlock(m)
  PROVE  Step
<1>1. status = "ok" /\ UNCHANGED <<running, nextId, finished, waitJoin, status>>
  BY DEF my_pthread_mutex_unlock, Executing, threads
<1>2. CASE wait[m] = << >>
  BY <1>1, <1>2, QuietImplements DEF my_pthread_mutex_unlock
<1>3. CASE wait[m] # << >>
  <2> DEFINE t == Head(wait[m])
  <2>1. wait \in [Mutex -> Seq(Thread)] /\ wait[m] \in Seq(Thread) /\ run \in Seq(Thread)
    BY DEF TypeInv, TypeOK
  <2>2. Removes(Tail(wait[m]), Thread, wait[m], t)
    BY <1>3, <2>1, PopRemoves
  <2>3. Adds(pushOrdered(priority, run, t), Thread, run, t)
    BY <2>1, <2>2, PushOrderedAdds DEF Removes
  <2>4. run' = pushOrdered(priority, run, t) /\ wait' = [wait EXCEPT ![m] = Tail(wait[m])]
    BY <1>3 DEF my_pthread_mutex_unlock
  <2> HIDE DEF t
  <2>5. wait'[m] = Tail(wait[m]) /\ wait' = [wait EXCEPT ![m] = wait'[m]]
    BY <2>1, <2>4
  <2>6. IsInjective(wait[m])
    BY <1>1 DEF QueueInv, Conservation, NoDuplicate
  <2>7. t \in Range(wait[m]) /\ Range(wait'[m]) = Range(wait[m]) \ {t}
    BY <2>2, <2>5, <2>6 DEF Removes
  <2>8. Range(run') = Range(run) \union {t}
    BY <2>3, <2>4 DEF Adds
  <2> QED
    BY <1>1, <2>5, <2>7, <2>8, WakeImplements
<1> QED
  BY <1>2, <1>3

\* my_pthread_mutex_destroy makes all waiters ready.
LEMMA DestroyImplements ==
  ASSUME TypeInv, NEW m \in Mutex, my_pthread_mutex_destroy(m)
  PROVE  Step
<1>1. status = "ok" /\ UNCHANGED <<running, nextId, finished, waitJoin, status>>
  BY DEF my_pthread_mutex_destroy, Executing, threads
<1>2. wait \in [Mutex -> Seq(Thread)] /\ wait[m] \in Seq(Thread) /\ run \in Seq(Thread)
  BY DEF TypeInv, TypeOK
<1>3. Merges(PushAll(priority, run, wait[m]), Thread, run, wait[m])
  BY <1>2, PushAllMerges
<1>4. /\ wait'[m] = << >> /\ wait' = [wait EXCEPT ![m] = wait'[m]]
      /\ run' = PushAll(priority, run, wait[m])
  BY <1>2 DEF my_pthread_mutex_destroy
<1>5. Range(<< >>) = {}
  BY DEF Range
<1>6. Range(run') = Range(run) \union Range(wait[m])
  BY <1>3, <1>4 DEF Merges
<1>7. Range(wait'[m]) = Range(wait[m]) \ Range(wait[m])
  BY <1>4, <1>5
<1> QED
  BY <1>1, <1>4, <1>6, <1>7, WakeImplements

\* Initialising a mutex moves nobody: the queue it empties is empty.
LEMMA InitMutexImplements ==
  ASSUME TypeInv, QueueInv, NEW m \in Mutex, my_pthread_mutex_init(m)
  PROVE  Step
<1>1. m \notin live /\ status = "ok" /\ wait[m] = << >>
  BY DEF QueueInv, my_pthread_mutex_init, Executing
<1>2. wait' = wait
  BY <1>1 DEF my_pthread_mutex_init, TypeInv, TypeOK
<1>3. UNCHANGED <<run, running, nextId, finished, waitJoin, status>>
  BY DEF my_pthread_mutex_init, queues, threads
<1> QED
  BY <1>2, <1>3, QuietImplements

\* Every step of the library is a step of the abstract scheduler.
LEMMA NextImplements == TypeInv /\ QueueInv /\ [Next]_vars => Step
<1> SUFFICES ASSUME TypeInv, QueueInv, [Next]_vars PROVE Step
  OBVIOUS
<1> USE DEF queues, threads, locks, Executing
<1>1. CASE Preempt
  <2>1. Rotates /\ status = "ok"
    BY <1>1, InterruptRotates DEF Preempt, TypeInv, TypeOK
  <2> QED
    BY <1>1, <2>1, RotateImplements DEF Preempt
<1>2. CASE my_pthread_yield
  <2>1. [priority EXCEPT ![running] = IF @ > 0 THEN @ - 1 ELSE @] \in [Thread -> Nat]
    BY DEF TypeInv, TypeOK
  <2>2. Rotates /\ status = "ok"
    BY <1>2, <2>1, InterruptRotates DEF my_pthread_yield
  <2> QED
    BY <1>2, <2>2, RotateImplements DEF my_pthread_yield
<1>3. CASE OrderByOldestOnDirtyHeap \/ MainCallsExit \/ MainReturns \/ UsesDestroyedMutex
  BY <1>3, QuietImplements
  DEF OrderByOldestOnDirtyHeap, MainCallsExit, MainReturns, UsesDestroyedMutex, End
<1>4. CASE my_pthread_create
  BY <1>4, CreateImplements
<1>5. ASSUME NEW v \in ExitValues, my_pthread_exit(v) \/ threadRun(v) PROVE Step
  <2> DEFINE w == IF v = "null" THEN "null" ELSE "pointee"
  <2>1. v \in Results /\ w \in Results /\ status = "ok"
    BY <1>5, ExitValuesAssumption DEF Results, my_pthread_exit, threadRun, MayEnd
  <2>2. /\ threadExit(v) \/ threadExit(w)
        /\ UNCHANGED <<nextId, wait>>
    BY <1>5 DEF my_pthread_exit, threadRun
  <2> HIDE DEF w
  <2> QED
    BY <2>1, <2>2, ExitImplements
<1>6. CASE ExitSwitch \/ JoinSwitch \/ LockSwitch
  BY <1>6, QuietImplements DEF ExitSwitch, JoinSwitch, LockSwitch, Load, SwapContext
<1>7. ASSUME NEW u \in Thread, NEW want \in BOOLEAN,
             JoinFinished(u, want) \/ JoinNobodyToRun(u, want)
      PROVE  Step
  BY <1>7, QuietImplements DEF JoinFinished, JoinNobodyToRun, MayJoin, JoinReturns, End
<1>8. ASSUME NEW u \in Thread, NEW want \in BOOLEAN, JoinBlocks(u, want) PROVE Step
  BY <1>8, JoinImplements
<1>9. CASE JoinResumes \/ testAndSetRead \/ testAndSetWrite \/ LockRetries
  BY <1>9, QuietImplements
  DEF JoinResumes, JoinReturns, End, testAndSetRead, testAndSetWrite, LockRetries
<1>10. ASSUME NEW m \in Mutex, my_pthread_mutex_lock(m) PROVE Step
  BY <1>10, QuietImplements DEF my_pthread_mutex_lock
<1>11. ASSUME NEW m \in Mutex,
              \/ my_pthread_mutex_init(m) \/ my_pthread_mutex_unlock(m)
              \/ my_pthread_mutex_destroy(m)
       PROVE  Step
  BY <1>11, InitMutexImplements, UnlockImplements, DestroyImplements
<1>12. CASE LockBlocks
  BY <1>12, LockImplements
<1>13. CASE UNCHANGED vars
  BY <1>13, QuietImplements DEF vars
<1> QED
  <2>1. CASE Next
    BY <2>1, <1>1, <1>2, <1>3, <1>4, <1>5, <1>6, <1>7, <1>8, <1>9, <1>10, <1>11,
       <1>12, <1>13 DEF Next, Ended
  <2> QED
    BY <2>1, <1>13

\* For any number of threads and mutexes, and wherever SIGPROF is delivered, the
\* queues of the library implement the abstract scheduler: the CPU only goes to
\* a ready thread, an exit makes all of its joiners ready at once, and no other
\* call moves a thread from one place to another.
THEOREM LibraryImplementsScheduler == Spec => Implements
<1>1. Init => Abstract!Init
  BY InitImplements
<1>2. TypeInv /\ QueueInv /\ [Next]_vars => [Abstract!Next]_(Abstract!vars)
  BY NextImplements DEF Step
<1> QED
  BY <1>1, <1>2, InitType, NextType, QueueInvariant, PTL DEF Spec, Abstract!Spec, Implements
=============================================================================
