---------------------------- MODULE QueueProofs ----------------------------
(***************************************************************************)
(* No thread is lost or queued twice, for any number of threads and        *)
(* mutexes and wherever the timer signal strikes.                          *)
(***************************************************************************)
EXTENDS MyPthreadProofs

\* The inductive invariant.  Conservation alone is not inductive: initialising
\* a mutex empties its wait queue, which loses nobody only because the queue of
\* a mutex that is not live is empty already.
QueueInv ==
  /\ Conservation /\ JoinersWoken
  /\ status = "ok" => \A m \in Mutex \ live : wait[m] = << >>

Quiet == <<run, running, nextId, finished, waitJoin, wait, live>>

\* At program start the queues are empty and only main runs.
LEMMA InitQueue == Init => QueueInv
<1> SUFFICES ASSUME Init PROVE QueueInv
  OBVIOUS
<1>1. Range(<< >>) = {} /\ IsInjective(<< >>)
  BY DEF Range, IsInjective
<1>2. created = {main} /\ Active = {main}
  BY <1>1 DEF Init, created, main, Active
<1>3. NoDuplicate
  BY <1>1, <1>2 DEF Init, NoDuplicate
<1>4. NoLoss
  BY <1>2 DEF NoLoss
<1> QED
  BY <1>3, <1>4 DEF Init, QueueInv, Conservation, JoinersWoken

\* A step that touches no queue, or ends the process.
LEMMA QuietStep ==
  ASSUME QueueInv, \/ status' # "ok"
                   \/ status = "ok" /\ UNCHANGED Quiet
  PROVE  QueueInv'
<1>1. CASE status' # "ok"
  BY <1>1 DEF QueueInv, Conservation, JoinersWoken
<1>2. CASE status = "ok" /\ UNCHANGED Quiet
  BY <1>2 DEF QueueInv, Conservation, JoinersWoken, NoDuplicate, NoLoss, Active,
     created, Quiet
<1> QED
  BY <1>1, <1>2

\* A scheduler call.
LEMMA RotateStep ==
  ASSUME QueueInv, status = "ok", Rotates,
         UNCHANGED <<nextId, finished, waitJoin, wait, live>>
  PROVE  QueueInv'
<1>1. NoDuplicate /\ NoLoss /\ JoinersWoken /\ \A m \in Mutex \ live : wait[m] = << >>
  BY DEF QueueInv, Conservation
<1>2. Active' = Active /\ created' = created
  BY DEF Rotates, Active, created
<1>3. IsInjective(run') /\ running' \notin Range(run')
  BY <1>1 DEF Rotates, NoDuplicate
<1>4. NoDuplicate'
  BY <1>1, <1>2, <1>3 DEF NoDuplicate
<1>5. NoLoss'
  BY <1>1, <1>2 DEF NoLoss
<1> QED
  BY <1>1, <1>4, <1>5 DEF QueueInv, Conservation, JoinersWoken

\* my_pthread_create queues the new thread exactly once.
LEMMA CreateQueue ==
  ASSUME TypeInv, QueueInv, my_pthread_create
  PROVE  QueueInv'
<1>1. /\ NoDuplicate /\ NoLoss /\ JoinersWoken /\ status = "ok"
      /\ \A m \in Mutex \ live : wait[m] = << >>
  BY DEF QueueInv, Conservation, my_pthread_create, Executing
<1>2. nextId \in Thread /\ nextId \notin created /\ created' = created \union {nextId}
  <2>1. nextId \in 2..(NThreads + 1) /\ nextId' = nextId + 1
    BY DEF TypeInv, TypeOK, my_pthread_create
  <2> QED
    BY <2>1, CreatesAThread, NThreadsAssumption DEF created
<1>3. Adds(pushOrdered(priority', run, nextId), Thread, run, nextId)
  BY <1>2, PushOrderedAdds DEF TypeInv, TypeOK
<1>4. Range(run') = Range(run) \union {nextId} /\ IsInjective(run')
  BY <1>1, <1>2, <1>3 DEF Adds, my_pthread_create, NoDuplicate, Active
<1>5. Active' = Active \union {nextId}
  BY <1>4 DEF Active, my_pthread_create
<1>6. UNCHANGED <<running, waitJoin, wait, live, status>>
  BY DEF my_pthread_create, locks
<1>7. NoDuplicate'
  <2>1. running' \notin Range(run')
    BY <1>1, <1>2, <1>4, <1>6 DEF NoDuplicate, Active
  <2> QED
    BY <1>1, <1>2, <1>4, <1>5, <1>6, <2>1 DEF NoDuplicate
<1>8. finished' = [finished EXCEPT ![nextId] = FALSE] /\ finished \in [Thread -> BOOLEAN]
  BY DEF my_pthread_create, TypeInv, TypeOK
<1>9. NoLoss'
  <2> SUFFICES ASSUME NEW t \in created', ~finished'[t], t \notin Active'
               PROVE  \/ \E u \in Thread : t \in Range(waitJoin'[u])
                      \/ \E m \in Mutex : t \in Range(wait'[m])
    BY DEF NoLoss
  <2>1. t \in created /\ t # nextId
    BY <1>2, <1>5
  <2>2. ~finished[t]
    BY <1>8, <2>1
  <2> QED
    BY <1>1, <1>5, <1>6, <2>1, <2>2 DEF NoLoss
<1>10. JoinersWoken'
  BY <1>1, <1>6, <1>8 DEF JoinersWoken
<1> QED
  BY <1>1, <1>6, <1>7, <1>9, <1>10 DEF QueueInv, Conservation

\* The running thread exits and its joiners go to the run queue.
LEMMA ExitQueue ==
  ASSUME TypeInv, QueueInv, status = "ok", NEW v \in Results, threadExit(v),
         UNCHANGED <<nextId, wait, live>>
  PROVE  QueueInv'
<1>1. NoDuplicate /\ NoLoss /\ JoinersWoken /\ \A m \in Mutex \ live : wait[m] = << >>
  BY DEF QueueInv, Conservation
<1> DEFINE joiners == Range(waitJoin[running])
<1>2. Merges(Wakened, Thread, run, waitJoin[running])
  BY PushAllMerges DEF TypeInv, TypeOK, Wakened
<1>3. running \in Thread /\ finished \in [Thread -> BOOLEAN]
      /\ waitJoin \in [Thread -> Seq(Thread)]
  BY DEF TypeInv, TypeOK
<1>4. /\ Range(Wakened) = Range(run) \union joiners /\ IsInjective(Wakened)
      /\ Wakened \in Seq(Thread) /\ running \notin Range(Wakened)
  BY <1>1, <1>2, <1>3 DEF Merges, NoDuplicate, Active
<1>5. Wakened # << >> => Removes(Tail(Wakened), Thread, Wakened, Head(Wakened))
  BY <1>4, PopRemoves
<1>6. Range(<< >>) = {} /\ IsInjective(<< >>)
  BY DEF Range, IsInjective
<1> HIDE DEF joiners
<1>7. IsInjective(run') /\ running' \notin Range(run')
  BY <1>4, <1>5, <1>6 DEF threadExit, Removes
<1>8. /\ Active' \subseteq Active \union joiners
      /\ Active \union joiners \subseteq Active' \union {running}
  BY <1>4, <1>5, <1>6 DEF threadExit, Removes, Active
<1>9. /\ finished' = [finished EXCEPT ![running] = TRUE]
      /\ waitJoin' = [waitJoin EXCEPT ![running] = << >>]
      /\ created' = created
  BY DEF threadExit, created
<1>10. \A u \in Thread : waitJoin'[u] = IF u = running THEN << >> ELSE waitJoin[u]
  BY <1>3, <1>9
<1>11. /\ joiners \subseteq created
       /\ \A u \in Thread \ {running} : Range(waitJoin[u]) \intersect joiners = {}
       /\ \A m \in Mutex : Range(wait[m]) \intersect joiners = {}
  BY <1>1, <1>3 DEF NoDuplicate, joiners
<1>12. NoDuplicate'
  <2>1. Active' \subseteq created'
    BY <1>1, <1>8, <1>9, <1>11 DEF NoDuplicate
  <2>2. ASSUME NEW u \in Thread
        PROVE  /\ IsInjective(waitJoin'[u])
               /\ Range(waitJoin'[u]) \subseteq created' \ Active'
               /\ Range(waitJoin'[u]) \subseteq Range(waitJoin[u])
    BY <1>1, <1>6, <1>8, <1>9, <1>10, <1>11 DEF NoDuplicate
  <2>3. ASSUME NEW m \in Mutex
        PROVE  /\ IsInjective(wait'[m])
               /\ Range(wait'[m]) \subseteq created' \ Active'
    <3>1. wait'[m] = wait[m]
      OBVIOUS
    <3>2. IsInjective(wait[m]) /\ Range(wait[m]) \subseteq created \ Active
      BY <1>1 DEF NoDuplicate
    <3>3. Range(wait[m]) \intersect joiners = {}
      BY <1>11
    <3> QED
      BY <1>8, <1>9, <3>1, <3>2, <3>3
  <2>4. /\ \A u \in Thread, m \in Mutex :
             Range(waitJoin'[u]) \intersect Range(wait'[m]) = {}
        /\ \A u, w \in Thread :
             u # w => Range(waitJoin'[u]) \intersect Range(waitJoin'[w]) = {}
        /\ \A m, n \in Mutex : m # n => Range(wait'[m]) \intersect Range(wait'[n]) = {}
    BY <1>1, <2>2 DEF NoDuplicate
  <2> QED
    BY <1>7, <2>1, <2>2, <2>3, <2>4 DEF NoDuplicate
<1>13. NoLoss'
  <2> SUFFICES ASSUME NEW t \in created, ~finished'[t], t \notin Active'
               PROVE  \/ \E u \in Thread : t \in Range(waitJoin'[u])
                      \/ \E m \in Mutex : t \in Range(wait'[m])
    BY <1>9 DEF NoLoss
  <2>1. t # running /\ ~finished[t]
    BY <1>3, <1>9
  <2>2. t \notin Active /\ t \notin joiners
    BY <1>8, <2>1
  <2>3. \/ \E u \in Thread : t \in Range(waitJoin[u])
        \/ \E m \in Mutex : t \in Range(wait[m])
    BY <1>1, <2>1, <2>2 DEF NoLoss
  <2> QED
    BY <1>10, <2>2, <2>3 DEF joiners
<1>14. JoinersWoken'
  BY <1>1, <1>3, <1>9, <1>10 DEF JoinersWoken
<1> QED
  BY <1>1, <1>12, <1>13, <1>14 DEF QueueInv, Conservation

\* The running thread queues up for u and the next one runs.
LEMMA JoinQueue ==
  ASSUME TypeInv, QueueInv, NEW u \in Thread, NEW want, JoinBlocks(u, want)
  PROVE  QueueInv'
<1>1. /\ NoDuplicate /\ NoLoss /\ JoinersWoken /\ status = "ok"
      /\ \A m \in Mutex \ live : wait[m] = << >>
  BY DEF QueueInv, Conservation, JoinBlocks, MayJoin, Executing
<1>2. running \in Thread /\ run \in Seq(Thread)
      /\ waitJoin \in [Thread -> Seq(Thread)] /\ waitJoin[u] \in Seq(Thread)
  BY DEF TypeInv, TypeOK
<1>3. Adds(pushOrdered(priority, waitJoin[u], running), Thread, waitJoin[u], running)
  BY <1>2, PushOrderedAdds
<1>4. Removes(run', Thread, run, running')
  BY <1>2, PopRemoves DEF JoinBlocks
<1>5. waitJoin' = [waitJoin EXCEPT ![u] = pushOrdered(priority, waitJoin[u], running)]
      /\ ~finished[u] /\ UNCHANGED <<finished, wait, live, nextId, status>>
  BY DEF JoinBlocks, locks
<1>6. /\ Active' = Active \ {running} /\ created' = created
      /\ IsInjective(run') /\ running' \notin Range(run')
  BY <1>1, <1>4, <1>5 DEF Active, Removes, NoDuplicate, created
<1>7. ASSUME NEW w \in Thread
      PROVE  /\ IsInjective(waitJoin'[w])
             /\ Range(waitJoin'[w]) =
                  IF w = u THEN Range(waitJoin[u]) \union {running} ELSE Range(waitJoin[w])
  BY <1>1, <1>2, <1>3, <1>5 DEF Adds, NoDuplicate, Active
<1>8. running \in created /\ running \in Active
  BY <1>1 DEF NoDuplicate, Active
<1>9. NoDuplicate'
  <2>1. \A w \in Thread : Range(waitJoin'[w]) \subseteq created' \ Active'
    BY <1>1, <1>6, <1>7, <1>8 DEF NoDuplicate
  <2>2. \A m \in Mutex : IsInjective(wait'[m]) /\ Range(wait'[m]) \subseteq created' \ Active'
    BY <1>1, <1>5, <1>6 DEF NoDuplicate
  <2>3. \A w \in Thread, m \in Mutex : Range(waitJoin'[w]) \intersect Range(wait'[m]) = {}
    BY <1>1, <1>5, <1>7, <1>8 DEF NoDuplicate
  <2>4. \A w, x \in Thread : w # x => Range(waitJoin'[w]) \intersect Range(waitJoin'[x]) = {}
    BY <1>1, <1>7, <1>8 DEF NoDuplicate
  <2> QED
    BY <1>1, <1>5, <1>6, <1>7, <2>1, <2>2, <2>3, <2>4 DEF NoDuplicate
<1>10. NoLoss'
  <2> SUFFICES ASSUME NEW t \in created, ~finished[t], t \notin Active'
               PROVE  \/ \E w \in Thread : t \in Range(waitJoin'[w])
                      \/ \E m \in Mutex : t \in Range(wait'[m])
    BY <1>5, <1>6 DEF NoLoss
  <2>1. CASE t = running
    BY <1>7, <2>1
  <2>2. CASE t # running
    <3>1. \/ \E w \in Thread : t \in Range(waitJoin[w])
          \/ \E m \in Mutex : t \in Range(wait[m])
      BY <1>1, <1>6, <2>2 DEF NoLoss
    <3> QED
      BY <1>5, <1>7, <3>1
  <2> QED
    BY <2>1, <2>2
<1>11. JoinersWoken'
  BY <1>1, <1>2, <1>5 DEF JoinersWoken
<1> QED
  BY <1>1, <1>5, <1>9, <1>10, <1>11 DEF QueueInv, Conservation

\* The running thread queues up for the mutex and the next one runs.
LEMMA LockQueue ==
  ASSUME TypeInv, QueueInv, LockBlocks
  PROVE  QueueInv'
<1> DEFINE l == lockArg[self]
<1>1. /\ NoDuplicate /\ NoLoss /\ JoinersWoken /\ status = "ok" /\ l \in live
      /\ \A m \in Mutex \ live : wait[m] = << >>
  BY DEF QueueInv, Conservation, LockBlocks, Executing
<1>2. running \in Thread /\ run \in Seq(Thread) /\ l \in Mutex
      /\ wait \in [Mutex -> Seq(Thread)] /\ wait[l] \in Seq(Thread)
  BY <1>1 DEF TypeInv, TypeOK
<1>3. Adds(Append(wait[l], running), Thread, wait[l], running)
  BY <1>2, PushAdds
<1>4. CASE run = << >>
  BY <1>4, QuietStep DEF LockBlocks, End
<1>5. CASE run # << >>
  <2>1. Removes(run', Thread, run, running')
    BY <1>2, <1>5, PopRemoves DEF LockBlocks
  <2>2. wait' = [wait EXCEPT ![l] = Append(wait[l], running)]
        /\ UNCHANGED <<finished, waitJoin, live, nextId, status>>
    BY <1>5 DEF LockBlocks, threads
  <2> HIDE DEF l
  <2>3. /\ Active' = Active \ {running} /\ created' = created
        /\ IsInjective(run') /\ running' \notin Range(run')
    BY <1>1, <2>1, <2>2 DEF Active, Removes, NoDuplicate, created
  <2>4. ASSUME NEW m \in Mutex
        PROVE  /\ IsInjective(wait'[m])
               /\ Range(wait'[m]) =
                    IF m = l THEN Range(wait[l]) \union {running} ELSE Range(wait[m])
    BY <1>1, <1>2, <1>3, <2>2 DEF Adds, NoDuplicate, Active
  <2>5. running \in created /\ running \in Active
    BY <1>1 DEF NoDuplicate, Active
  <2>6. NoDuplicate'
    <3>1. \A m \in Mutex : Range(wait'[m]) \subseteq created' \ Active'
      BY <1>1, <2>3, <2>4, <2>5 DEF NoDuplicate
    <3>2. \A u \in Thread :
            IsInjective(waitJoin'[u]) /\ Range(waitJoin'[u]) \subseteq created' \ Active'
      BY <1>1, <2>2, <2>3 DEF NoDuplicate
    <3>3. \A u \in Thread, m \in Mutex : Range(waitJoin'[u]) \intersect Range(wait'[m]) = {}
      BY <1>1, <2>2, <2>4, <2>5 DEF NoDuplicate
    <3>4. \A m, n \in Mutex : m # n => Range(wait'[m]) \intersect Range(wait'[n]) = {}
      BY <1>1, <2>4, <2>5 DEF NoDuplicate
    <3> QED
      BY <1>1, <2>2, <2>3, <2>4, <3>1, <3>2, <3>3, <3>4 DEF NoDuplicate
  <2>7. NoLoss'
    <3> SUFFICES ASSUME NEW t \in created, ~finished[t], t \notin Active'
                 PROVE  \/ \E u \in Thread : t \in Range(waitJoin'[u])
                        \/ \E m \in Mutex : t \in Range(wait'[m])
      BY <2>2, <2>3 DEF NoLoss
    <3>1. CASE t = running
      BY <1>2, <2>4, <3>1
    <3>2. CASE t # running
      <4>1. \/ \E u \in Thread : t \in Range(waitJoin[u])
            \/ \E m \in Mutex : t \in Range(wait[m])
        BY <1>1, <2>3, <3>2 DEF NoLoss
      <4> QED
        BY <2>2, <2>4, <4>1
    <3> QED
      BY <3>1, <3>2
  <2>8. JoinersWoken' /\ \A m \in Mutex \ live' : wait'[m] = << >>
    BY <1>1, <1>2, <2>2 DEF JoinersWoken
  <2> QED
    BY <2>6, <2>7, <2>8 DEF QueueInv, Conservation
<1> QED
  BY <1>4, <1>5

\* Threads leave the wait queue of a mutex for the run queue: one at unlock,
\* all of them at destroy.
LEMMA WakeQueue ==
  ASSUME TypeInv, QueueInv, status = "ok", NEW m \in Mutex, NEW woken,
         wait' = [wait EXCEPT ![m] = wait'[m]],
         Range(run') = Range(run) \union woken, IsInjective(run'),
         IsInjective(wait'[m]),
         Range(wait[m]) = Range(wait'[m]) \union woken,
         Range(wait'[m]) \intersect woken = {},
         \A n \in Mutex \ live' : n = m \/ n \notin live,
         m \notin live' => wait'[m] = << >>,
         UNCHANGED <<running, nextId, finished, waitJoin>>
  PROVE  QueueInv'
<1>1. NoDuplicate /\ NoLoss /\ JoinersWoken /\ \A n \in Mutex \ live : wait[n] = << >>
  BY DEF QueueInv, Conservation
<1>2. Active' = Active \union woken /\ created' = created
  BY DEF Active, created
<1>3. \A n \in Mutex : n # m => wait'[n] = wait[n]
  BY DEF TypeInv, TypeOK
<1>4. \A n \in Mutex : /\ IsInjective(wait'[n]) /\ Range(wait'[n]) \subseteq Range(wait[n])
                       /\ Range(wait'[n]) \intersect woken = {}
  <2> SUFFICES ASSUME NEW n \in Mutex, n # m
               PROVE  IsInjective(wait[n]) /\ Range(wait[n]) \intersect woken = {}
    BY <1>3
  <2> QED
    BY <1>1 DEF NoDuplicate
<1>5. woken \subseteq created /\ running \notin woken
  BY <1>1 DEF NoDuplicate, Active
<1>6. NoDuplicate'
  <2>1. \A u \in Thread : Range(waitJoin[u]) \intersect woken = {}
    BY <1>1 DEF NoDuplicate
  <2>2. \A u \in Thread :
          IsInjective(waitJoin'[u]) /\ Range(waitJoin'[u]) \subseteq created' \ Active'
    BY <1>1, <1>2, <2>1 DEF NoDuplicate
  <2>3. \A n \in Mutex : Range(wait'[n]) \subseteq created' \ Active'
    BY <1>1, <1>2, <1>4 DEF NoDuplicate
  <2>4. Active' \subseteq created' /\ running' \notin Range(run')
    BY <1>1, <1>2, <1>5 DEF NoDuplicate
  <2>5. \A u \in Thread, n \in Mutex : Range(waitJoin'[u]) \intersect Range(wait'[n]) = {}
    BY <1>1, <1>4 DEF NoDuplicate
  <2>6. \A n, k \in Mutex : n # k => Range(wait'[n]) \intersect Range(wait'[k]) = {}
    BY <1>1, <1>4 DEF NoDuplicate
  <2> QED
    BY <1>1, <1>4, <2>2, <2>3, <2>4, <2>5, <2>6 DEF NoDuplicate
<1>7. NoLoss'
  <2> SUFFICES ASSUME NEW t \in created, ~finished[t], t \notin Active'
               PROVE  \/ \E u \in Thread : t \in Range(waitJoin'[u])
                      \/ \E n \in Mutex : t \in Range(wait'[n])
    BY <1>2 DEF NoLoss
  <2>1. \/ \E u \in Thread : t \in Range(waitJoin[u])
        \/ \E n \in Mutex : t \in Range(wait[n])
    BY <1>1, <1>2 DEF NoLoss
  <2> QED
    BY <1>2, <1>3, <2>1
<1>8. JoinersWoken'
  BY <1>1 DEF JoinersWoken
<1>9. \A n \in Mutex \ live' : wait'[n] = << >>
  BY <1>1, <1>3
<1> QED
  BY <1>6, <1>7, <1>8, <1>9 DEF QueueInv, Conservation

\* my_pthread_mutex_unlock moves one waiter from the mutex to the run queue.
LEMMA UnlockQueue ==
  ASSUME TypeInv, QueueInv, NEW m \in Mutex, my_pthread_mutex_unlock(m)
  PROVE  QueueInv'
<1>1. status = "ok" /\ UNCHANGED <<running, nextId, finished, waitJoin, live, status>>
  BY DEF my_pthread_mutex_unlock, Executing, threads
<1>2. NoDuplicate
  BY <1>1 DEF QueueInv, Conservation
<1>3. CASE wait[m] = << >>
  BY <1>1, <1>3, QuietStep DEF my_pthread_mutex_unlock, Quiet
<1>4. CASE wait[m] # << >>
  <2> DEFINE t == Head(wait[m])
  <2>1. wait \in [Mutex -> Seq(Thread)] /\ wait[m] \in Seq(Thread) /\ run \in Seq(Thread)
    BY DEF TypeInv, TypeOK
  <2>2. Removes(Tail(wait[m]), Thread, wait[m], t)
    BY <1>4, <2>1, PopRemoves
  <2>3. Adds(pushOrdered(priority, run, t), Thread, run, t)
    BY <2>1, <2>2, PushOrderedAdds DEF Removes
  <2>4. run' = pushOrdered(priority, run, t) /\ wait' = [wait EXCEPT ![m] = Tail(wait[m])]
    BY <1>4 DEF my_pthread_mutex_unlock
  <2> HIDE DEF t
  <2>5. wait'[m] = Tail(wait[m]) /\ wait' = [wait EXCEPT ![m] = wait'[m]]
    BY <2>1, <2>4
  <2>6. t \notin Range(run) /\ IsInjective(run) /\ IsInjective(wait[m])
    BY <1>2, <2>2 DEF NoDuplicate, Active, Removes
  <2>7. Range(run') = Range(run) \union {t} /\ IsInjective(run')
    BY <2>3, <2>4, <2>6 DEF Adds
  <2>8. /\ IsInjective(wait'[m]) /\ Range(wait[m]) = Range(wait'[m]) \union {t}
        /\ Range(wait'[m]) \intersect {t} = {}
    BY <2>2, <2>5, <2>6 DEF Removes
  <2>9. /\ \A n \in Mutex \ live' : n = m \/ n \notin live
        /\ m \notin live' => wait'[m] = << >>
    <3>1. m \in live
      BY <1>1, <1>4 DEF QueueInv
    <3> QED
      BY <1>1, <3>1
  <2> QED
    BY <1>1, <2>5, <2>7, <2>8, <2>9, WakeQueue
<1> QED
  BY <1>3, <1>4

\* my_pthread_mutex_destroy moves every waiter to the run queue.
LEMMA DestroyQueue ==
  ASSUME TypeInv, QueueInv, NEW m \in Mutex, my_pthread_mutex_destroy(m)
  PROVE  QueueInv'
<1>1. status = "ok" /\ UNCHANGED <<running, nextId, finished, waitJoin, status>>
  BY DEF my_pthread_mutex_destroy, Executing, threads
<1>2. NoDuplicate
  BY <1>1 DEF QueueInv, Conservation
<1>3. wait \in [Mutex -> Seq(Thread)] /\ wait[m] \in Seq(Thread) /\ run \in Seq(Thread)
  BY DEF TypeInv, TypeOK
<1>4. Merges(PushAll(priority, run, wait[m]), Thread, run, wait[m])
  BY <1>3, PushAllMerges
<1>5. Range(<< >>) = {} /\ IsInjective(<< >>)
  BY DEF Range, IsInjective
<1>6. /\ wait'[m] = << >> /\ wait' = [wait EXCEPT ![m] = wait'[m]]
      /\ live' = live \ {m} /\ run' = PushAll(priority, run, wait[m])
  BY <1>3 DEF my_pthread_mutex_destroy
<1>7. Range(run') = Range(run) \union Range(wait[m]) /\ IsInjective(run')
  BY <1>2, <1>4, <1>6 DEF Merges, NoDuplicate, Active
<1>8. /\ IsInjective(wait'[m]) /\ Range(wait[m]) = Range(wait'[m]) \union Range(wait[m])
      /\ Range(wait'[m]) \intersect Range(wait[m]) = {}
  BY <1>5, <1>6
<1>9. /\ \A n \in Mutex \ live' : n = m \/ n \notin live
      /\ m \notin live' => wait'[m] = << >>
  BY <1>6
<1> QED
  BY <1>1, <1>6, <1>7, <1>8, <1>9, WakeQueue

\* my_pthread_mutex_init starts with an empty queue, so it loses nobody.
LEMMA InitMutexQueue ==
  ASSUME TypeInv, QueueInv, NEW m \in Mutex, my_pthread_mutex_init(m)
  PROVE  QueueInv'
<1>1. /\ NoDuplicate /\ NoLoss /\ JoinersWoken /\ status = "ok" /\ m \notin live
      /\ \A n \in Mutex \ live : wait[n] = << >>
  BY DEF QueueInv, Conservation, my_pthread_mutex_init, Executing
<1>2. wait' = wait
  BY <1>1 DEF my_pthread_mutex_init, TypeInv, TypeOK
<1>3. UNCHANGED <<run, running, nextId, finished, waitJoin, status>> /\ live \subseteq live'
  BY DEF my_pthread_mutex_init, queues, threads
<1>4. NoDuplicate' /\ NoLoss' /\ JoinersWoken'
  BY <1>1, <1>2, <1>3 DEF NoDuplicate, NoLoss, JoinersWoken, Active, created
<1> QED
  BY <1>1, <1>2, <1>3, <1>4 DEF QueueInv, Conservation

\* Every step keeps the invariant of the queues.
LEMMA NextQueue == TypeInv /\ QueueInv /\ [Next]_vars => QueueInv'
<1> SUFFICES ASSUME TypeInv, QueueInv, [Next]_vars PROVE QueueInv'
  OBVIOUS
<1> USE DEF queues, threads, locks, Quiet, Executing
<1>1. CASE Preempt
  <2>1. Rotates /\ status = "ok"
    BY <1>1, InterruptRotates DEF Preempt, TypeInv, TypeOK
  <2> QED
    BY <1>1, <2>1, RotateStep DEF Preempt
<1>2. CASE my_pthread_yield
  <2>1. [priority EXCEPT ![running] = IF @ > 0 THEN @ - 1 ELSE @] \in [Thread -> Nat]
    BY DEF TypeInv, TypeOK
  <2>2. Rotates /\ status = "ok"
    BY <1>2, <2>1, InterruptRotates DEF my_pthread_yield
  <2> QED
    BY <1>2, <2>2, RotateStep DEF my_pthread_yield
<1>3. CASE OrderByOldestOnDirtyHeap \/ MainCallsExit \/ MainReturns \/ UsesDestroyedMutex
  BY <1>3, QuietStep
  DEF OrderByOldestOnDirtyHeap, MainCallsExit, MainReturns, UsesDestroyedMutex, End
<1>4. CASE my_pthread_create
  BY <1>4, CreateQueue
<1>5. ASSUME NEW v \in ExitValues, my_pthread_exit(v) \/ threadRun(v) PROVE QueueInv'
  <2> DEFINE w == IF v = "null" THEN "null" ELSE "pointee"
  <2>1. v \in Results /\ w \in Results /\ status = "ok"
    BY <1>5, ExitValuesAssumption DEF Results, my_pthread_exit, threadRun, MayEnd
  <2>2. /\ threadExit(v) \/ threadExit(w)
        /\ UNCHANGED <<nextId, wait, live>>
    BY <1>5 DEF my_pthread_exit, threadRun
  <2> HIDE DEF w
  <2> QED
    BY <2>1, <2>2, ExitQueue
<1>6. CASE ExitSwitch \/ JoinSwitch \/ LockSwitch
  BY <1>6, QuietStep DEF ExitSwitch, JoinSwitch, LockSwitch
<1>7. ASSUME NEW u \in Thread, NEW want \in BOOLEAN,
             JoinFinished(u, want) \/ JoinNobodyToRun(u, want)
      PROVE  QueueInv'
  BY <1>7, QuietStep DEF JoinFinished, JoinNobodyToRun, MayJoin
<1>8. ASSUME NEW u \in Thread, NEW want \in BOOLEAN, JoinBlocks(u, want) PROVE QueueInv'
  BY <1>8, JoinQueue
<1>9. CASE JoinResumes \/ testAndSetRead \/ testAndSetWrite \/ LockRetries
  BY <1>9, QuietStep DEF JoinResumes, testAndSetRead, testAndSetWrite, LockRetries
<1>10. ASSUME NEW m \in Mutex, my_pthread_mutex_lock(m) PROVE QueueInv'
  BY <1>10, QuietStep DEF my_pthread_mutex_lock
<1>11. ASSUME NEW m \in Mutex,
              \/ my_pthread_mutex_init(m) \/ my_pthread_mutex_unlock(m)
              \/ my_pthread_mutex_destroy(m)
       PROVE  QueueInv'
  BY <1>11, InitMutexQueue, UnlockQueue, DestroyQueue
<1>12. CASE LockBlocks
  BY <1>12, LockQueue
<1>13. CASE UNCHANGED vars
  BY <1>13, QuietStep DEF vars
<1> QED
  <2>1. CASE Next
    BY <2>1, <1>1, <1>2, <1>3, <1>4, <1>5, <1>6, <1>7, <1>8, <1>9, <1>10, <1>11,
       <1>12, <1>13 DEF Next, Ended
  <2> QED
    BY <2>1, <1>13

\* The invariant of the queues holds in every reachable state.
LEMMA QueueInvariant == Spec => []QueueInv
  BY InitType, NextType, InitQueue, NextQueue, PTL DEF Spec

\* For any number of threads and mutexes, and wherever SIGPROF is delivered (the
\* unprotected windows before the context switches included), no call of the
\* library loses a thread or queues it twice.
THEOREM ThreadsConserved == Spec => []Conservation
  BY QueueInvariant, PTL DEF QueueInv

\* threadExit wakes every joiner and my_pthread_join never queues a thread
\* behind one that has already exited.
THEOREM NoJoinerLeft == Spec => []JoinersWoken
  BY QueueInvariant, PTL DEF QueueInv
=============================================================================
