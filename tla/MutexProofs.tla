---------------------------- MODULE MutexProofs ----------------------------
(***************************************************************************)
(* Mutual exclusion, for any number of threads and mutexes, provided the   *)
(* timer signal does not strike between the read and the write of          *)
(* testAndSet.  All other points, the windows before the context switches  *)
(* included, may be preempted.                                             *)
(***************************************************************************)
EXTENDS MyPthreadProofs

\* Nobody sleeps inside testAndSet.
NoneInside == \A t \in Thread : context[t].pc # "tas"

\* The inductive invariant: what testAndSet read is still so when it writes, a
\* held mutex is locked and live, and nobody holds what another one holds.
MutexInv ==
  /\ NoneInside
  /\ cpu.pc = "tas" => s[self] = state[lockArg[self]]
  /\ \A t \in Thread : \A m \in holds[t] : state[m] = 1 /\ m \in live
  /\ MutualExclusion

\* Loading a context (setcontext) never lands inside testAndSet when no saved
\* context is there.
LEMMA LoadAway ==
  ASSUME NEW ctx \in [Thread -> Contexts], NEW t \in Thread, Load(ctx, t),
         \A u \in Thread : ctx[u].pc # "tas"
  PROVE  NoneInside' /\ cpu'.pc # "tas"
  BY DEF Load, NoneInside, Consumed

\* A SIGPROF that finds the thread outside testAndSet leaves every thread outside.
LEMMA InterruptAway ==
  ASSUME TypeInv, status = "ok", NoneInside, cpu.pc # "tas",
         NEW prio \in [Thread -> Nat], interrupt(prio)
  PROVE  NoneInside' /\ cpu'.pc # "tas"
<1>1. Rotates
  BY InterruptRotates
<1>2. context \in [Thread -> Contexts] /\ cpu \in Contexts /\ running \in Thread
  BY DEF TypeInv, TypeOK
<1>3. CASE context' = [context EXCEPT ![running] = Consumed] /\ cpu' = cpu
  BY <1>2, <1>3 DEF NoneInside, Consumed
<1>4. CASE Load([context EXCEPT ![running] = cpu], running')
  <2>1. [context EXCEPT ![running] = cpu] \in [Thread -> Contexts]
    BY <1>2
  <2>2. \A u \in Thread : [context EXCEPT ![running] = cpu][u].pc # "tas"
    BY <1>2 DEF NoneInside
  <2> QED
    BY <1>1, <1>4, <2>1, <2>2, LoadAway DEF Rotates
<1> QED
  BY <1>3, <1>4 DEF interrupt

\* Neither does the swapcontext of my_pthread_join or my_pthread_mutex_lock put
\* one inside.
LEMMA SwapContextAway ==
  ASSUME TypeInv, self \in Thread, NoneInside, NEW pc \in Points, pc # "tas",
         SwapContext(pc)
  PROVE  NoneInside' /\ cpu'.pc # "tas"
<1>1. context \in [Thread -> Contexts] /\ running \in Thread
  BY DEF TypeInv, TypeOK
<1>2. [context EXCEPT ![self] = At(self, pc)] \in [Thread -> Contexts]
  BY <1>1, AtIsAContext
<1>3. \A u \in Thread : [context EXCEPT ![self] = At(self, pc)][u].pc # "tas"
  BY <1>1 DEF NoneInside, At
<1> QED
  BY <1>1, <1>2, <1>3, LoadAway DEF SwapContext

\* A step after which nobody is inside testAndSet and no mutex has changed hands.
LEMMA AwayStep ==
  ASSUME MutexInv, UNCHANGED <<state, holds, live>>, NoneInside', cpu'.pc # "tas"
  PROVE  MutexInv'
  BY DEF MutexInv, MutualExclusion, Holders

\* A step that touches no mutex, no context and no local of lock keeps the
\* invariant.
LEMMA QuietStep ==
  ASSUME MutexInv, UNCHANGED <<state, holds, live, s, lockArg, context, cpu>>
  PROVE  MutexInv'
  BY DEF MutexInv, MutualExclusion, Holders, NoneInside, self

\* At program start no mutex exists and no thread is inside testAndSet.
LEMMA InitMutex == Init => MutexInv
  BY DEF Init, MutexInv, NoneInside, MutualExclusion, Holders, Consumed, At

\* The write of testAndSet keeps at most one holder: nothing ran since its read.
LEMMA TakeMutex ==
  ASSUME TypeInv, MutexInv, testAndSetWrite
  PROVE  MutexInv'
<1> DEFINE m == lockArg[self]
<1>1. status = "ok" /\ self \in Thread /\ m \in Mutex /\ m \in live /\ cpu.pc = "tas"
  BY DEF testAndSetWrite, Executing, self, TypeInv, TypeOK, OnStack
<1>2. s[self] = state[m]
  BY <1>1 DEF MutexInv
<1>3. NoneInside' /\ cpu'.pc # "tas"
  BY DEF testAndSetWrite, Goto, MutexInv, NoneInside, TypeInv, TypeOK, Contexts
<1>4. state' = [state EXCEPT ![m] = 1] /\ live' = live
  BY DEF testAndSetWrite
<1>5. holds' = IF s[self] = 0 THEN [holds EXCEPT ![self] = holds[self] \union {m}]
                              ELSE holds
  BY DEF testAndSetWrite
<1> HIDE DEF m
<1>6. /\ \A n \in Mutex : state'[n] = IF n = m THEN 1 ELSE state[n]
      /\ \A t \in Thread : holds[t] \subseteq Mutex
  BY <1>1, <1>4 DEF TypeInv, TypeOK
<1>7. /\ \A t \in Thread : \A n \in holds[t] : state[n] = 1 /\ n \in live
      /\ MutualExclusion
  BY DEF MutexInv
<1>8. CASE s[self] # 0
  <2>1. \A t \in Thread : \A n \in holds'[t] : state'[n] = 1 /\ n \in live'
    BY <1>4, <1>5, <1>6, <1>7, <1>8
  <2> QED
    BY <1>3, <1>5, <1>7, <1>8, <2>1 DEF MutexInv, MutualExclusion, Holders
<1>9. CASE s[self] = 0
  <2>1. \A t \in Thread : m \notin holds[t]
    <3>1. state[m] # 1
      BY <1>2, <1>9
    <3> QED
      BY <1>7, <3>1
  <2>2. \A t \in Thread : holds'[t] = IF t = self THEN holds[t] \union {m} ELSE holds[t]
    BY <1>1, <1>5, <1>9 DEF TypeInv, TypeOK
  <2>3. ASSUME NEW t \in Thread, NEW n \in holds'[t]
        PROVE  state'[n] = 1 /\ n \in live'
    <3>1. n = m \/ n \in holds[t]
      BY <2>2
    <3> QED
      BY <1>1, <1>4, <1>6, <1>7, <3>1
  <2>4. ASSUME NEW n \in Mutex, NEW t \in Thread, NEW u \in Thread,
               n \in holds'[t], n \in holds'[u]
        PROVE  t = u
    <3>1. CASE n = m
      BY <2>1, <2>2, <2>4, <3>1
    <3>2. CASE n # m
      <4>1. holds'[t] \subseteq holds[t] \union {m} /\ holds'[u] \subseteq holds[u] \union {m}
        BY <2>2
      <4>2. n \in holds[t] /\ n \in holds[u]
        BY <2>4, <3>2, <4>1
      <4> QED
        BY <1>7, <4>2 DEF MutualExclusion, Holders
    <3> QED
      BY <3>1, <3>2
  <2> QED
    BY <1>3, <2>3, <2>4 DEF MutexInv, MutualExclusion, Holders
<1> QED
  BY <1>8, <1>9

\* my_pthread_mutex_unlock by the holder leaves the mutex without a holder.
LEMMA ReleaseMutex ==
  ASSUME TypeInv, MutexInv, NEW m \in Mutex, my_pthread_mutex_unlock(m)
  PROVE  MutexInv'
<1>1. self \in Thread /\ m \in holds[self] /\ cpu.pc = "user"
  BY DEF my_pthread_mutex_unlock, Executing, self, TypeInv, TypeOK, OnStack
<1>2. /\ state' = [state EXCEPT ![m] = 0]
      /\ holds' = [holds EXCEPT ![self] = holds[self] \ {m}]
      /\ UNCHANGED <<live, cpu, context>>
  BY DEF my_pthread_mutex_unlock
<1>3. \A t \in Thread : m \in holds[t] => t = self
  <2>1. MutualExclusion
    BY DEF MutexInv
  <2>2. \A t, u \in Thread : m \in holds[t] /\ m \in holds[u] => t = u
    BY <2>1 DEF MutualExclusion, Holders
  <2> QED
    BY <1>1, <2>2
<1>4. \A t \in Thread : holds'[t] = holds[t] \ {m}
  BY <1>1, <1>2, <1>3 DEF TypeInv, TypeOK
<1>5. \A t \in Thread : holds[t] \subseteq Mutex
  BY DEF TypeInv, TypeOK
<1>6. \A n \in Mutex : n # m => state'[n] = state[n]
  BY <1>2 DEF TypeInv, TypeOK
<1>7. \A t \in Thread : \A n \in holds'[t] : state'[n] = 1 /\ n \in live'
  BY <1>2, <1>4, <1>5, <1>6 DEF MutexInv
<1>8. MutualExclusion'
  BY <1>4 DEF MutexInv, MutualExclusion, Holders
<1>9. NoneInside' /\ cpu'.pc # "tas"
  BY <1>1, <1>2 DEF MutexInv, NoneInside
<1> QED
  BY <1>7, <1>8, <1>9 DEF MutexInv

\* my_pthread_mutex_init and my_pthread_mutex_destroy touch no held mutex.
LEMMA ResetMutex ==
  ASSUME TypeInv, MutexInv, NEW m \in Mutex,
         my_pthread_mutex_init(m) \/ my_pthread_mutex_destroy(m)
  PROVE  MutexInv'
<1>1. \A t \in Thread : m \notin holds[t]
  BY DEF my_pthread_mutex_init, my_pthread_mutex_destroy, MutexInv, Holders
<1>2. /\ state' = [state EXCEPT ![m] = 0] /\ live \ {m} \subseteq live'
      /\ UNCHANGED <<holds, cpu, context>> /\ cpu.pc = "user"
  BY DEF my_pthread_mutex_init, my_pthread_mutex_destroy, Executing, client
<1>3. \A t \in Thread : holds[t] \subseteq Mutex
  BY DEF TypeInv, TypeOK
<1>4. \A n \in Mutex : n # m => state'[n] = state[n]
  BY <1>2 DEF TypeInv, TypeOK
<1>5. \A t \in Thread : \A n \in holds'[t] : state'[n] = 1 /\ n \in live'
  BY <1>1, <1>2, <1>3, <1>4 DEF MutexInv
<1> QED
  BY <1>2, <1>5 DEF MutexInv, NoneInside, MutualExclusion, Holders

\* When testAndSet is not preempted, every step keeps the invariant.
LEMMA NextMutex ==
  ASSUME "tas" \notin PreemptAt
  PROVE  TypeInv /\ MutexInv /\ [Next]_vars => MutexInv'
<1> SUFFICES ASSUME TypeInv, MutexInv, [Next]_vars PROVE MutexInv'
  OBVIOUS
<1> USE DEF locks, client, locals
<1>0. /\ NoneInside /\ context \in [Thread -> Contexts] /\ cpu \in Contexts
      /\ running \in Thread /\ (status = "ok" => self \in Thread)
  BY DEF MutexInv, TypeInv, TypeOK, OnStack, self
<1>1. CASE Preempt
  <2>1. /\ cpu.pc # "tas" /\ status = "ok" /\ priority \in [Thread -> Nat]
        /\ interrupt(priority)
    BY <1>1 DEF Preempt, TypeInv, TypeOK
  <2>2. NoneInside' /\ cpu'.pc # "tas"
    BY <1>0, <2>1, InterruptAway
  <2> QED
    BY <1>1, <2>2, AwayStep DEF Preempt
<1>2. CASE my_pthread_yield
  <2> DEFINE prio == [priority EXCEPT ![running] = IF @ > 0 THEN @ - 1 ELSE @]
  <2>1. /\ cpu.pc # "tas" /\ status = "ok" /\ prio \in [Thread -> Nat]
        /\ interrupt(prio)
    BY <1>2 DEF my_pthread_yield, Executing, TypeInv, TypeOK
  <2> HIDE DEF prio
  <2>2. NoneInside' /\ cpu'.pc # "tas"
    BY <1>0, <2>1, InterruptAway
  <2> QED
    BY <1>2, <2>2, AwayStep DEF my_pthread_yield
<1>3. CASE OrderByOldestOnDirtyHeap \/ MainCallsExit \/ MainReturns \/ UsesDestroyedMutex
  BY <1>3, QuietStep
  DEF OrderByOldestOnDirtyHeap, MainCallsExit, MainReturns, UsesDestroyedMutex, End
<1>4. CASE my_pthread_create
  <2>1. nextId \in Thread
    BY <1>4, CreatesAThread
  <2>2. NoneInside' /\ cpu'.pc # "tas"
    BY <1>0, <1>4, <2>1 DEF my_pthread_create, Executing, NoneInside, At
  <2> QED
    BY <1>4, <2>2, AwayStep DEF my_pthread_create
<1>5. ASSUME NEW v \in ExitValues, my_pthread_exit(v) PROVE MutexInv'
  <2>1. NoneInside' /\ cpu'.pc # "tas"
    BY <1>0, <1>5 DEF my_pthread_exit, MayEnd, Executing, Goto, NoneInside, Contexts
  <2> QED
    BY <1>5, <2>1, AwayStep DEF my_pthread_exit
<1>6. ASSUME NEW v \in ExitValues, threadRun(v) PROVE MutexInv'
  <2>1. CASE Wakened = << >>
    BY <1>6, <2>1, QuietStep DEF threadRun, End
  <2>2. CASE Wakened # << >>
    <3> DEFINE w == IF v = "null" THEN "null" ELSE "pointee"
    <3>1. w \in Results /\ status = "ok" /\ threadExit(w)
      BY <1>6 DEF threadRun, MayEnd, Executing, Results
    <3> HIDE DEF w
    <3>2. running' \in Thread
      BY <3>1, threadExitType
    <3>3. Load(context, running')
      BY <1>6, <2>2, <3>1 DEF threadRun, threadExit
    <3>4. NoneInside' /\ cpu'.pc # "tas"
      BY <1>0, <3>2, <3>3, LoadAway DEF NoneInside
    <3> QED
      BY <1>6, <3>4, AwayStep DEF threadRun
  <2> QED
    BY <2>1, <2>2
<1>7. CASE ExitSwitch
  <2>1. NoneInside' /\ cpu'.pc # "tas"
    BY <1>0, <1>7, LoadAway DEF ExitSwitch, NoneInside
  <2> QED
    BY <1>7, <2>1, AwayStep DEF ExitSwitch
<1>8. ASSUME NEW u \in Thread, NEW want \in BOOLEAN,
             JoinFinished(u, want) \/ JoinBlocks(u, want) \/ JoinNobodyToRun(u, want)
      PROVE  MutexInv'
  <2>1. NoneInside' /\ cpu'.pc # "tas" /\ UNCHANGED <<state, holds, live>>
    BY <1>0, <1>8 DEF JoinFinished, JoinBlocks, JoinNobodyToRun, MayJoin, Executing,
       JoinReturns, End, Goto, NoneInside, Contexts
  <2> QED
    BY <2>1, AwayStep
<1>9. CASE JoinSwitch \/ LockSwitch
  <2>1. NoneInside' /\ cpu'.pc # "tas"
    <3>1. self \in Thread /\ (SwapContext("joined") \/ SwapContext("lock"))
      BY <1>0, <1>9 DEF JoinSwitch, LockSwitch, Executing
    <3> QED
      BY <1>0, <3>1, SwapContextAway DEF Points
  <2> QED
    BY <1>9, <2>1, AwayStep DEF JoinSwitch, LockSwitch
<1>10. CASE JoinResumes
  <2>1. NoneInside' /\ cpu'.pc # "tas"
    BY <1>0, <1>10 DEF JoinResumes, Executing, JoinReturns, End, Goto, NoneInside, Contexts
  <2> QED
    BY <1>10, <2>1, AwayStep DEF JoinResumes
<1>11. ASSUME NEW m \in Mutex, my_pthread_mutex_lock(m) PROVE MutexInv'
  <2>1. NoneInside' /\ cpu'.pc # "tas"
    BY <1>0, <1>11 DEF my_pthread_mutex_lock, Goto, NoneInside, Contexts
  <2> QED
    BY <1>11, <2>1, AwayStep DEF my_pthread_mutex_lock
<1>12. ASSUME NEW m \in Mutex,
              \/ my_pthread_mutex_init(m) \/ my_pthread_mutex_unlock(m)
              \/ my_pthread_mutex_destroy(m)
       PROVE  MutexInv'
  BY <1>12, ReleaseMutex, ResetMutex
<1>13. CASE testAndSetRead
  <2>1. self \in Thread /\ s \in [Thread -> {0, 1}]
    BY <1>0, <1>13 DEF testAndSetRead, Executing, TypeInv, TypeOK
  <2>2. /\ UNCHANGED <<state, holds, live, lockArg, context>>
        /\ s' = [s EXCEPT ![self] = state[lockArg[self]]] /\ self' = self
    BY <1>0, <1>13 DEF testAndSetRead, Goto, self, Contexts
  <2>3. s'[self'] = state'[lockArg'[self']]
    BY <2>1, <2>2
  <2> QED
    BY <2>2, <2>3 DEF MutexInv, NoneInside, MutualExclusion, Holders
<1>14. CASE testAndSetWrite
  BY <1>14, TakeMutex
<1>15. CASE LockRetries \/ LockBlocks
  <2>1. NoneInside' /\ cpu'.pc # "tas" /\ UNCHANGED <<state, holds, live>>
    BY <1>0, <1>15 DEF LockRetries, LockBlocks, Executing, End, Goto, NoneInside, Contexts
  <2> QED
    BY <2>1, AwayStep
<1>16. CASE UNCHANGED vars
  BY <1>16, QuietStep DEF vars
<1> QED
  <2>1. CASE Next
    BY <2>1, <1>1, <1>2, <1>3, <1>4, <1>5, <1>6, <1>7, <1>8, <1>9, <1>10, <1>11,
       <1>12, <1>13, <1>14, <1>15, <1>16 DEF Next, Ended
  <2> QED
    BY <2>1, <1>16

\* When testAndSet is atomic, no two threads are between lock and unlock of the
\* same mutex, whatever else the timer signal interrupts: the other races of
\* the library never let two threads into a critical section.
THEOREM Exclusion ==
  ASSUME "tas" \notin PreemptAt
  PROVE  Spec => []MutualExclusion
<1>1. Spec => []MutexInv
  <2>1. TypeInv /\ MutexInv /\ [Next]_vars => MutexInv'
    BY NextMutex
  <2> QED
    BY <2>1, InitType, NextType, InitMutex, PTL DEF Spec
<1> QED
  BY <1>1, PTL DEF MutexInv
=============================================================================
