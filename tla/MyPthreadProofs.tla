-------------------------- MODULE MyPthreadProofs --------------------------
(***************************************************************************)
(* Proofs about MyPthread for any number of threads and mutexes and any    *)
(* set of preemption points.                                               *)
(***************************************************************************)
EXTENDS MyPthread, LinkedListProofs

\* While the process lives the CPU is on the stack of some thread.
OnStack == status = "ok" => cpu.stack \in Thread

TypeInv == TypeOK /\ OnStack

\* What a scheduler call does to the queue: the running thread and the queued
\* ones change places, and the CPU is left on a context of Contexts.
Rotates ==
  /\ run' \in Seq(Thread) /\ running' \in Thread
  /\ Range(run') \union {running'} = Range(run) \union {running}
  /\ IsInjective(run) /\ running \notin Range(run)
       => IsInjective(run') /\ running' \notin Range(run')
  /\ nSchedulings' \in 0..MaxSchedulings
  /\ priority' \in [Thread -> Nat]
  /\ context' \in [Thread -> Contexts] /\ cpu' \in Contexts
  /\ status' \in {"ok", "wild"} /\ (status' = "ok" => cpu'.stack \in Thread)

\* The thread of main has identifier 1.
LEMMA MainIsAThread == 1 \in Thread
  BY NThreadsAssumption DEF Thread

\* The mark of a context that was already resumed is a context.
LEMMA ConsumedIsAContext == Consumed \in Contexts
  BY NThreadsAssumption DEF Consumed, Contexts, Points

\* A stack and a program point make a context.
LEMMA AtIsAContext ==
  ASSUME NEW t \in Thread, NEW pc \in Points
  PROVE  At(t, pc) \in Contexts
  BY NThreadsAssumption DEF At, Contexts, Thread

\* setcontext leaves the contexts and the cpu well typed.
LEMMA LoadType ==
  ASSUME NEW ctx \in [Thread -> Contexts], NEW t \in Thread, Load(ctx, t)
  PROVE  /\ context' \in [Thread -> Contexts] /\ cpu' \in Contexts
         /\ status' \in {"ok", "wild"} /\ (status' = "ok" => cpu'.stack \in Thread)
  BY ConsumedIsAContext DEF Load

\* The whole SIGPROF handler, with or without its re-sort, makes the head of
\* the run queue running and queues the running thread, or changes neither.
LEMMA InterruptRotates ==
  ASSUME TypeInv, status = "ok", NEW prio \in [Thread -> Nat], interrupt(prio)
  PROVE  Rotates
<1> DEFINE queue == IF nSchedulings + 1 > MaxSchedulings
                    THEN orderByOldest(born, run) ELSE run
           lower == [prio EXCEPT ![running] = @ + 1]
<1>1. run \in Seq(Thread) /\ running \in Thread /\ cpu \in Contexts
      /\ context \in [Thread -> Contexts] /\ nSchedulings \in 0..MaxSchedulings
      /\ cpu.stack \in Thread
  BY DEF TypeInv, TypeOK, OnStack
<1>2. /\ queue \in Seq(Thread) /\ Range(queue) = Range(run)
      /\ IsInjective(run) => IsInjective(queue)
  <2>1. Merges(PushAll(born, << >>, run), Thread, << >>, run)
    <3>1. << >> \in Seq(Thread)
      BY EmptySeq
    <3> QED
      BY <1>1, <3>1, PushAllMerges
  <2>2. Range(<< >>) = {} /\ IsInjective(<< >>)
    BY DEF Range, IsInjective
  <2> QED
    BY <1>1, <2>1, <2>2 DEF Merges, orderByOldest
<1>3. lower \in [Thread -> Nat] /\ priority' = lower
  BY <1>1 DEF interrupt
<1>4. nSchedulings' \in 0..MaxSchedulings
  BY <1>1, BoundsAssumption DEF interrupt, Tick, Reorders
<1>5. CASE queue = << >>
  <2>1. /\ context' = [context EXCEPT ![running] = Consumed]
        /\ run' = run /\ running' = running /\ cpu' = cpu /\ status' = status
    BY <1>5 DEF interrupt, Reorders
  <2>2. context' \in [Thread -> Contexts]
    BY <1>1, <2>1, ConsumedIsAContext
  <2> QED
    BY <1>1, <1>3, <1>4, <2>1, <2>2 DEF Rotates
<1>6. CASE queue # << >>
  <2>1. /\ run' = pushOrdered(lower, Tail(queue), running)
        /\ running' = Head(queue)
        /\ Load([context EXCEPT ![running] = cpu], Head(queue))
    BY <1>6 DEF interrupt, Reorders
  <2> HIDE DEF queue, lower
  <2>2. Removes(Tail(queue), Thread, queue, Head(queue))
    BY <1>2, <1>6, PopRemoves
  <2>3. Adds(run', Thread, Tail(queue), running)
    BY <1>1, <2>1, <2>2, PushOrderedAdds DEF Removes
  <2>4. [context EXCEPT ![running] = cpu] \in [Thread -> Contexts]
    BY <1>1
  <2>5. /\ context' \in [Thread -> Contexts] /\ cpu' \in Contexts
        /\ status' \in {"ok", "wild"} /\ (status' = "ok" => cpu'.stack \in Thread)
    BY <2>1, <2>2, <2>4, LoadType DEF Removes
  <2>6. /\ Range(run') \union {running'} = Range(run) \union {running}
        /\ run' \in Seq(Thread) /\ running' \in Thread
    BY <1>2, <2>1, <2>2, <2>3 DEF Removes, Adds
  <2>7. IsInjective(run) /\ running \notin Range(run)
          => IsInjective(run') /\ running' \notin Range(run')
    BY <1>2, <2>1, <2>2, <2>3 DEF Removes, Adds
  <2> QED
    BY <1>3, <1>4, <2>5, <2>6, <2>7 DEF Rotates
<1> QED
  BY <1>5, <1>6

-----------------------------------------------------------------------------
\* Type correctness.
LEMMA InitType == Init => TypeInv
<1> SUFFICES ASSUME Init PROVE TypeInv
  OBVIOUS
<1>1. << >> \in Seq(Thread)
  BY EmptySeq
<1>2. (CHOOSE m \in Mutex : TRUE) \in Mutex
  BY MutexAssumption
<1>3. At(main, "user") \in Contexts
  BY MainIsAThread, AtIsAContext DEF main, Points
<1>4. nextId \in 2..(NThreads + 1)
  BY NThreadsAssumption DEF Init
<1> QED
  BY <1>1, <1>2, <1>3, <1>4, MainIsAThread, ConsumedIsAContext, BoundsAssumption
  DEF Init, TypeInv, TypeOK, OnStack, main, At, Results

\* threadExit leaves the thread table and the queues well typed.
LEMMA threadExitType ==
  ASSUME TypeInv, status = "ok", NEW v \in Results, threadExit(v)
  PROVE  /\ finished' \in [Thread -> BOOLEAN] /\ res' \in [Thread -> Results]
         /\ waitJoin' \in [Thread -> Seq(Thread)]
         /\ run' \in Seq(Thread) /\ running' \in Thread
         /\ Wakened \in Seq(Thread)
         /\ Range(Wakened) = Range(run) \union Range(waitJoin[running])
<1>1. Merges(Wakened, Thread, run, waitJoin[running])
  BY PushAllMerges DEF TypeInv, TypeOK, Wakened
<1>2. Wakened # << >> => Removes(Tail(Wakened), Thread, Wakened, Head(Wakened))
  BY <1>1, PopRemoves DEF Merges
<1>3. << >> \in Seq(Thread)
  BY EmptySeq
<1> QED
  BY <1>1, <1>2, <1>3 DEF TypeInv, TypeOK, threadExit, Merges, Removes

\* What the end of my_pthread_join may change.
JoinLeft ==
  /\ joined' \subseteq Thread \X Thread \X (Results \union {"none"})
  /\ cpu' \in Contexts /\ cpu'.stack = cpu.stack
  /\ status' \in {"ok", "segv"}

\* The return of my_pthread_join, with or without a place for the result.
LEMMA JoinReturnsType ==
  ASSUME TypeInv, status = "ok", NEW u \in Thread, NEW want \in BOOLEAN,
         JoinReturns(u, want)
  PROVE  JoinLeft
<1> USE DEF TypeInv, TypeOK, OnStack
<1>1. self \in Thread
  BY DEF self
<1>2. joined' \subseteq Thread \X Thread \X (Results \union {"none"})
  <2> DEFINE v == IF want THEN res[u] ELSE "none"
  <2>1. v \in Results \union {"none"}
    OBVIOUS
  <2>2. joined' \subseteq joined \union {<<self, u, v>>}
    BY DEF JoinReturns
  <2> HIDE DEF v
  <2> DEFINE Answers == Thread \X Thread \X (Results \union {"none"})
  <2>3. <<self, u, v>> \in Answers
    BY <1>1, <2>1
  <2>4. joined \subseteq Answers
    OBVIOUS
  <2> HIDE DEF Answers
  <2>5. joined' \subseteq Answers
    BY <2>2, <2>3, <2>4
  <2> QED
    BY <2>5 DEF Answers
<1>3. cpu' \in Contexts /\ cpu'.stack = cpu.stack
  BY DEF JoinReturns, End, Goto, Contexts, Points
<1>4. status' \in {"ok", "segv"}
  BY DEF JoinReturns, End
<1> QED
  BY <1>2, <1>3, <1>4 DEF JoinLeft

\* swapcontext leaves the contexts and the cpu well typed.
LEMMA SwapContextType ==
  ASSUME TypeInv, self \in Thread, NEW pc \in Points, SwapContext(pc)
  PROVE  /\ context' \in [Thread -> Contexts] /\ cpu' \in Contexts
         /\ status' \in {"ok", "wild"} /\ (status' = "ok" => cpu'.stack \in Thread)
<1>1. [context EXCEPT ![self] = At(self, pc)] \in [Thread -> Contexts]
  BY AtIsAContext DEF TypeInv, TypeOK
<1>2. running \in Thread
  BY DEF TypeInv, TypeOK
<1> QED
  BY <1>1, <1>2, LoadType DEF SwapContext

\* my_pthread_create numbers the new thread within the thread table.
LEMMA CreatesAThread ==
  ASSUME TypeInv, my_pthread_create
  PROVE  nextId \in Thread /\ nextId - 1 \in Thread /\ nextId + 1 \in 2..(NThreads + 1)
<1>1. nextId <= NThreads /\ nextId \in 2..(NThreads + 1)
  BY DEF TypeInv, TypeOK, my_pthread_create
<1> QED
  BY <1>1, NThreadsAssumption DEF Thread

\* The clock my_pthread_create reads has moved by at most one since the last call.
LEMMA ClockTicks ==
  ASSUME NEW b \in Nat, NEW time \in {b, b + 1}
  PROVE  time \in Nat
  OBVIOUS

\* Every step of the library keeps the type invariant.
LEMMA NextType == TypeInv /\ [Next]_vars => TypeInv'
<1> SUFFICES ASSUME TypeInv, [Next]_vars PROVE TypeInv'
  OBVIOUS
<1> USE DEF TypeInv, TypeOK, OnStack, queues, threads, locks, locals, client
<1>0. status = "ok" => self \in Thread
  BY DEF self
<1>1. CASE Preempt
  <2>1. Rotates
    BY <1>1, InterruptRotates DEF Preempt
  <2> QED
    BY <1>1, <2>1 DEF Preempt, Rotates
<1>2. CASE my_pthread_yield
  <2>1. [priority EXCEPT ![running] = IF @ > 0 THEN @ - 1 ELSE @] \in [Thread -> Nat]
    OBVIOUS
  <2>2. Rotates
    BY <1>2, <2>1, InterruptRotates DEF my_pthread_yield, Executing
  <2> QED
    BY <1>2, <2>2 DEF my_pthread_yield, Rotates
<1>3. CASE OrderByOldestOnDirtyHeap
  BY <1>3 DEF OrderByOldestOnDirtyHeap, End
<1>4. CASE my_pthread_create
  <2>1. nextId \in Thread /\ nextId - 1 \in Thread /\ nextId + 1 \in 2..(NThreads + 1)
    BY <1>4, CreatesAThread
  <2>2. born' \in [Thread -> Nat]
    <3>1. PICK time \in {born[nextId - 1], born[nextId - 1] + 1} :
             born' = [born EXCEPT ![nextId] = time]
      BY <1>4 DEF my_pthread_create
    <3>2. born[nextId - 1] \in Nat
      BY <2>1
    <3>3. time \in Nat
      BY <3>2, ClockTicks
    <3> QED
      BY <3>1, <3>3
  <2>3. context' \in [Thread -> Contexts]
    <3>1. At(nextId, "user") \in Contexts
      BY <2>1, AtIsAContext DEF Points
    <3> QED
      BY <1>4, <2>1, <3>1 DEF my_pthread_create
  <2>4. priority' \in [Thread -> Nat] /\ finished' \in [Thread -> BOOLEAN]
    BY <1>4, <2>1 DEF my_pthread_create
  <2>5. run' \in Seq(Thread)
    <3>1. Adds(pushOrdered(priority', run, nextId), Thread, run, nextId)
      BY <2>1, PushOrderedAdds
    <3> QED
      BY <1>4, <3>1 DEF my_pthread_create, Adds
  <2> QED
    BY <1>4, <2>1, <2>2, <2>3, <2>4, <2>5 DEF my_pthread_create, Executing
<1>5. ASSUME NEW v \in ExitValues, my_pthread_exit(v) PROVE TypeInv'
  <2>1. v \in Results /\ self \in Thread /\ status = "ok"
    BY <1>0, <1>5, ExitValuesAssumption DEF Results, my_pthread_exit, MayEnd, Executing
  <2>2. threadExit(v)
    BY <1>5 DEF my_pthread_exit
  <2>3. /\ finished' \in [Thread -> BOOLEAN] /\ res' \in [Thread -> Results]
        /\ waitJoin' \in [Thread -> Seq(Thread)]
        /\ run' \in Seq(Thread) /\ running' \in Thread
    BY <2>1, <2>2, threadExitType
  <2>4. passed' \in [Thread -> Results]
    BY <1>5, <2>1 DEF my_pthread_exit, MayEnd
  <2>5. cpu' \in Contexts /\ cpu'.stack = cpu.stack
    BY <1>5 DEF my_pthread_exit, Goto, Contexts, Points
  <2> QED
    BY <1>5, <2>3, <2>4, <2>5 DEF my_pthread_exit
<1>6. ASSUME NEW v \in ExitValues, threadRun(v) PROVE TypeInv'
  <2> DEFINE w == IF v = "null" THEN "null" ELSE "pointee"
  <2>1. v \in Results /\ w \in Results /\ self \in Thread /\ status = "ok"
    BY <1>0, <1>6, ExitValuesAssumption DEF Results, threadRun, MayEnd, Executing
  <2>2. threadExit(w)
    BY <1>6 DEF threadRun
  <2> HIDE DEF w
  <2>3. /\ finished' \in [Thread -> BOOLEAN] /\ res' \in [Thread -> Results]
        /\ waitJoin' \in [Thread -> Seq(Thread)]
        /\ run' \in Seq(Thread) /\ running' \in Thread
    BY <2>1, <2>2, threadExitType
  <2>4. passed' \in [Thread -> Results]
    BY <1>6, <2>1 DEF threadRun, MayEnd
  <2>5. CASE Wakened = << >>
    BY <1>6, <2>3, <2>4, <2>5 DEF threadRun, End
  <2>6. CASE Wakened # << >>
    <3>1. Load(context, running')
      BY <1>6, <2>2, <2>6 DEF threadRun, threadExit
    <3>2. /\ context' \in [Thread -> Contexts] /\ cpu' \in Contexts
          /\ status' \in {"ok", "wild"} /\ (status' = "ok" => cpu'.stack \in Thread)
      BY <2>3, <3>1, LoadType
    <3> QED
      BY <1>6, <2>3, <2>4, <3>2 DEF threadRun
  <2> QED
    BY <2>5, <2>6
<1>7. CASE ExitSwitch
  <2>1. /\ context' \in [Thread -> Contexts] /\ cpu' \in Contexts
        /\ status' \in {"ok", "wild"} /\ (status' = "ok" => cpu'.stack \in Thread)
    BY <1>7, LoadType DEF ExitSwitch
  <2> QED
    BY <1>7, <2>1 DEF ExitSwitch
<1>8. CASE MainCallsExit
  BY <1>8 DEF MainCallsExit, End
<1>9. CASE MainReturns
  BY <1>9 DEF MainReturns, End
<1>10. ASSUME NEW u \in Thread, NEW want \in BOOLEAN, JoinFinished(u, want)
       PROVE  TypeInv'
  <2>1. JoinReturns(u, want) /\ status = "ok"
    BY <1>10 DEF JoinFinished, MayJoin, Executing
  <2>2. JoinLeft
    BY <2>1, JoinReturnsType
  <2> QED
    BY <1>10, <2>1, <2>2 DEF JoinFinished, JoinLeft
<1>11. ASSUME NEW u \in Thread, NEW want \in BOOLEAN, JoinBlocks(u, want)
       PROVE  TypeInv'
  <2>1. self \in Thread
    BY <1>0, <1>11 DEF JoinBlocks, MayJoin, Executing
  <2>2. Adds(pushOrdered(priority, waitJoin[u], running), Thread, waitJoin[u], running)
    BY PushOrderedAdds
  <2>3. Removes(Tail(run), Thread, run, Head(run))
    BY <1>11, PopRemoves DEF JoinBlocks
  <2>4. waitJoin' \in [Thread -> Seq(Thread)]
    BY <1>11, <2>2 DEF JoinBlocks, Adds
  <2>5. run' \in Seq(Thread) /\ running' \in Thread
    BY <1>11, <2>3 DEF JoinBlocks, Removes
  <2>6. joinArg' \in [Thread -> Thread] /\ value_ptr' \in [Thread -> BOOLEAN]
    BY <1>11 DEF JoinBlocks
  <2>7. cpu' \in Contexts /\ cpu'.stack = cpu.stack
    BY <1>11 DEF JoinBlocks, Goto, Contexts, Points
  <2> QED
    BY <1>11, <2>4, <2>5, <2>6, <2>7 DEF JoinBlocks
<1>12. ASSUME NEW u \in Thread, NEW want \in BOOLEAN, JoinNobodyToRun(u, want)
       PROVE  TypeInv'
  <2>1. self \in Thread
    BY <1>0, <1>12 DEF JoinNobodyToRun, MayJoin, Executing
  <2>2. Adds(pushOrdered(priority, waitJoin[u], running), Thread, waitJoin[u], running)
    BY PushOrderedAdds
  <2>3. waitJoin' \in [Thread -> Seq(Thread)]
    BY <1>12, <2>2 DEF JoinNobodyToRun, Adds
  <2>4. joined' \subseteq Thread \X Thread \X (Results \union {"none"})
    <3> DEFINE v == IF want THEN res[u] ELSE "none"
    <3>1. joined \subseteq Thread \X Thread \X (Results \union {"none"})
      OBVIOUS
    <3>2. v \in Results \union {"none"}
      OBVIOUS
    <3>3. joined' = joined \/ joined' = joined \union {<<self, u, v>>}
      BY <1>12 DEF JoinNobodyToRun
    <3> HIDE DEF v, TypeInv, TypeOK
    <3> QED
      BY <2>1, <3>1, <3>2, <3>3
  <2>5. status' \in {"segv", "freed"}
    BY <1>12 DEF JoinNobodyToRun
  <2>6. UNCHANGED <<queues, nextId, born, finished, res, context, locks, cpu,
                    locals, holds, passed, used>>
    BY <1>12 DEF JoinNobodyToRun
  <2>7. TypeOK'
    BY <2>3, <2>4, <2>5, <2>6
  <2> QED
    BY <2>5, <2>7
<1>13. CASE JoinSwitch
  <2>1. SwapContext("joined") /\ self \in Thread
    BY <1>0, <1>13 DEF JoinSwitch, Executing
  <2>2. /\ context' \in [Thread -> Contexts] /\ cpu' \in Contexts
        /\ status' \in {"ok", "wild"} /\ (status' = "ok" => cpu'.stack \in Thread)
    BY <2>1, SwapContextType DEF Points
  <2> QED
    BY <1>13, <2>2 DEF JoinSwitch
<1>14. CASE JoinResumes
  <2>1. self \in Thread /\ status = "ok"
    BY <1>0, <1>14 DEF JoinResumes, Executing
  <2>2. joinArg[self] \in Thread /\ value_ptr[self] \in BOOLEAN
    BY <2>1
  <2>3. JoinReturns(joinArg[self], value_ptr[self])
    BY <1>14 DEF JoinResumes
  <2>4. JoinLeft
    BY <2>1, <2>2, <2>3, JoinReturnsType
  <2> QED
    BY <1>14, <2>1, <2>4 DEF JoinResumes, JoinLeft
<1>15. ASSUME NEW m \in Mutex, my_pthread_mutex_init(m) PROVE TypeInv'
  <2>1. << >> \in Seq(Thread)
    BY EmptySeq
  <2> QED
    BY <1>15, <2>1 DEF my_pthread_mutex_init
<1>16. ASSUME NEW m \in Mutex, my_pthread_mutex_lock(m) PROVE TypeInv'
  <2>1. self \in Thread
    BY <1>0, <1>16 DEF my_pthread_mutex_lock, Executing
  <2>2. used' \in [Thread -> 0..Rounds]
    <3>1. used[self] \in 0..Rounds /\ used[self] < Rounds
      BY <1>16, <2>1 DEF my_pthread_mutex_lock
    <3>2. \A n \in 0..Rounds : n < Rounds => n + 1 \in 0..Rounds
      BY BoundsAssumption
    <3> QED
      BY <1>16, <2>1, <3>1, <3>2 DEF my_pthread_mutex_lock
  <2>3. lockArg' \in [Thread -> Mutex]
    BY <1>16, <2>1 DEF my_pthread_mutex_lock
  <2>4. cpu' \in Contexts /\ cpu'.stack = cpu.stack
    BY <1>16 DEF my_pthread_mutex_lock, Goto, Contexts, Points
  <2> QED
    BY <1>16, <2>2, <2>3, <2>4 DEF my_pthread_mutex_lock
<1>17. ASSUME NEW m \in Mutex, my_pthread_mutex_unlock(m) PROVE TypeInv'
  <2>1. self \in Thread
    BY <1>0, <1>17 DEF my_pthread_mutex_unlock, Executing
  <2>2. wait[m] # << >> => /\ Removes(Tail(wait[m]), Thread, wait[m], Head(wait[m]))
                           /\ Adds(pushOrdered(priority, run, Head(wait[m])),
                                   Thread, run, Head(wait[m]))
    <3>1. wait[m] # << >> => Removes(Tail(wait[m]), Thread, wait[m], Head(wait[m]))
      BY PopRemoves
    <3> QED
      BY <3>1, PushOrderedAdds DEF Removes
  <2>3. run' \in Seq(Thread) /\ wait' \in [Mutex -> Seq(Thread)]
    BY <1>17, <2>2 DEF my_pthread_mutex_unlock, Removes, Adds
  <2>4. state' \in [Mutex -> {0, 1}] /\ holds' \in [Thread -> SUBSET Mutex]
    BY <1>17, <2>1 DEF my_pthread_mutex_unlock
  <2> QED
    BY <1>17, <2>3, <2>4 DEF my_pthread_mutex_unlock
<1>18. ASSUME NEW m \in Mutex, my_pthread_mutex_destroy(m) PROVE TypeInv'
  <2>1. Merges(PushAll(priority, run, wait[m]), Thread, run, wait[m])
    BY PushAllMerges
  <2>2. run' \in Seq(Thread)
    BY <1>18, <2>1 DEF my_pthread_mutex_destroy, Merges
  <2>3. << >> \in Seq(Thread)
    BY EmptySeq
  <2> QED
    BY <1>18, <2>2, <2>3 DEF my_pthread_mutex_destroy
<1>19. CASE testAndSetRead
  <2>1. self \in Thread
    BY <1>0, <1>19 DEF testAndSetRead, Executing
  <2>2. cpu' \in Contexts /\ cpu'.stack = cpu.stack
    BY <1>19 DEF testAndSetRead, Goto, Contexts, Points
  <2> QED
    BY <1>19, <2>1, <2>2 DEF testAndSetRead
<1>20. CASE testAndSetWrite
  <2>1. self \in Thread
    BY <1>0, <1>20 DEF testAndSetWrite, Executing
  <2>2. cpu' \in Contexts /\ cpu'.stack = cpu.stack
    BY <1>20 DEF testAndSetWrite, Goto, Contexts, Points
  <2>3. lockArg[self] \in Mutex
    BY <2>1
  <2>4. state' \in [Mutex -> {0, 1}]
    BY <1>20, <2>3 DEF testAndSetWrite
  <2>5. holds' \in [Thread -> SUBSET Mutex]
    <3>1. holds[self] \union {lockArg[self]} \in SUBSET Mutex
      BY <2>1, <2>3
    <3>2. \/ holds' = holds
          \/ holds' = [holds EXCEPT ![self] = holds[self] \union {lockArg[self]}]
      BY <1>20 DEF testAndSetWrite
    <3>3. holds \in [Thread -> SUBSET Mutex]
      OBVIOUS
    <3> HIDE DEF TypeInv, TypeOK
    <3> QED
      BY <2>1, <3>1, <3>2, <3>3
  <2> QED
    BY <1>20, <2>1, <2>2, <2>4, <2>5 DEF testAndSetWrite
<1>21. CASE LockRetries
  <2>1. cpu' \in Contexts /\ cpu'.stack = cpu.stack
    BY <1>21 DEF LockRetries, Goto, Contexts, Points
  <2> QED
    BY <1>21, <2>1 DEF LockRetries
<1>22. CASE LockBlocks
  <2>1. self \in Thread /\ status = "ok"
    BY <1>0, <1>22 DEF LockBlocks, Executing
  <2>2. Adds(Append(wait[lockArg[self]], running), Thread, wait[lockArg[self]], running)
    BY <2>1, PushAdds
  <2>3. wait' \in [Mutex -> Seq(Thread)]
    BY <1>22, <2>1, <2>2 DEF LockBlocks, Adds
  <2>4. run' \in Seq(Thread) /\ running' \in Thread
    <3>1. run # << >> => Removes(Tail(run), Thread, run, Head(run))
      BY PopRemoves
    <3> QED
      BY <1>22, <3>1 DEF LockBlocks, Removes
  <2>5. cpu' \in Contexts /\ cpu'.stack = cpu.stack /\ status' \in {"ok", "segv"}
    BY <1>22, <2>1 DEF LockBlocks, End, Goto, Contexts, Points
  <2> QED
    BY <1>22, <2>1, <2>3, <2>4, <2>5 DEF LockBlocks
<1>23. CASE LockSwitch
  <2>1. SwapContext("lock") /\ self \in Thread
    BY <1>0, <1>23 DEF LockSwitch, Executing
  <2>2. /\ context' \in [Thread -> Contexts] /\ cpu' \in Contexts
        /\ status' \in {"ok", "wild"} /\ (status' = "ok" => cpu'.stack \in Thread)
    BY <2>1, SwapContextType DEF Points
  <2> QED
    BY <1>23, <2>2 DEF LockSwitch
<1>24. CASE UsesDestroyedMutex
  BY <1>24 DEF UsesDestroyedMutex, End
<1>25. CASE UNCHANGED vars
  BY <1>25 DEF vars
<1> QED
  <2>1. CASE Next
    BY <2>1, <1>1, <1>2, <1>3, <1>4, <1>5, <1>6, <1>7, <1>8, <1>9, <1>10, <1>11,
       <1>12, <1>13, <1>14, <1>15, <1>16, <1>17, <1>18, <1>19, <1>20, <1>21,
       <1>22, <1>23, <1>24, <1>25 DEF Next, Ended
  <2> QED
    BY <2>1, <1>25

\* Every variable keeps its type through every interleaving of the library's
\* calls with the timer signal, for any number of threads and mutexes.
THEOREM TypeCorrect == Spec => []TypeOK
<1>1. Spec => []TypeInv
  BY InitType, NextType, PTL DEF Spec
<1> QED
  BY <1>1, PTL DEF TypeInv
=============================================================================
