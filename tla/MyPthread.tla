------------------------------ MODULE MyPthread ------------------------------
(***************************************************************************)
(* The user-level thread library of my_pthread.c: one CPU, a run queue, a  *)
(* timer signal (SIGPROF) that enters the scheduler, join queues, mutexes. *)
(*                                                                         *)
(* A library call is cut where SIGPROF can be delivered.  What runs with   *)
(* SIGPROF blocked is one action; the points in between, where the signal  *)
(* is unblocked, are the values of cpu.pc:                                 *)
(*                                                                         *)
(*   "user"        client code                                             *)
(*   "lock"        about to call testAndSet (the loop of mutex_lock)       *)
(*   "tas"         inside testAndSet, state read and not yet written       *)
(*   "slow"        testAndSet returned 1, SIGPROF not yet blocked          *)
(*   "lockSwitch"  queued on the mutex, SIGPROF unblocked, swapcontext not *)
(*                 yet called                                              *)
(*   "joinSwitch"  the same for my_pthread_join                            *)
(*   "exitSwitch"  the same for my_pthread_exit, before setcontext         *)
(*   "joined"      back from the swapcontext of my_pthread_join            *)
(*                                                                         *)
(* A machine context is a stack (named by the thread it was allocated for) *)
(* and a program point on it.  `running' is what the library believes; the *)
(* stack the CPU is really on is cpu.stack.  They differ at the three      *)
(* ...Switch points.                                                       *)
(*                                                                         *)
(* The calls of virtualMemory() change only the page table and the page    *)
(* protection, which are not variables of this module.                     *)
(***************************************************************************)
EXTENDS LinkedList

CONSTANTS
  NThreads,        \* how many threads there are in all, main included
  Mutex,           \* the mutexes of the program
  PreemptAt,       \* the program points at which SIGPROF may be delivered
  Calls,           \* the optional library calls the client makes
  ExitValues,      \* what thread functions return or pass to pthread_exit
  MaxSchedulings,  \* schedulings between two orderByOldest (150 in the code)
  MaxPriority,     \* bound: no preemption once the priority is this high
  Rounds           \* bound: lock calls of one thread

Thread == 1..NThreads
main == 1

Points == {"user", "lock", "tas", "slow", "lockSwitch", "joinSwitch",
           "exitSwitch", "joined"}
Windows == {"lockSwitch", "joinSwitch", "exitSwitch"}

ASSUME NThreadsAssumption == NThreads \in Nat \ {0}
ASSUME MutexAssumption == Mutex # {}
ASSUME PreemptAtAssumption == PreemptAt \subseteq Points
ASSUME ExitValuesAssumption == ExitValues \subseteq {"null", "ptr"}
ASSUME BoundsAssumption ==
  MaxSchedulings \in Nat /\ MaxPriority \in Nat /\ Rounds \in Nat

VARIABLES
  run, running, nextId, nSchedulings,           \* the library's globals
  priority, born, finished, res, waitJoin, context,  \* fields of sthread
  live, state, wait,       \* initialised mutexes; the fields of lock
  cpu,                     \* the context being executed
  joinArg, value_ptr,      \* locals on each stack: the thread to join and
                           \* whether value_ptr # NULL,
  lockArg, s,              \* the mutex to lock and s of testAndSet
  holds, joined, passed, used,  \* what the client knows, see below
  status                   \* "ok", or how the program ended

(***************************************************************************)
(* The client: holds[t] is the set of mutexes whose lock call returned to  *)
(* t and which t has not unlocked; joined has <<t, u, v>> when t's join of *)
(* u returned and v is what it stored through value_ptr ("none" without    *)
(* one); passed[t] is what t returned or passed to pthread_exit; used[t]   *)
(* counts t's lock calls.                                                  *)
(*                                                                         *)
(* status: "exited" the process ended through exit(); "segv" it died on a  *)
(* null pointer; "freed" my_pthread_join freed run and running under the   *)
(* library; "wild" it resumed a stale or foreign context, used a destroyed *)
(* mutex or took its run queue from uninitialised memory.                  *)
(***************************************************************************)
queues  == <<run, running, nSchedulings, priority>>
threads == <<nextId, born, finished, res, waitJoin>>
locks   == <<live, state, wait>>
locals  == <<joinArg, value_ptr, lockArg, s>>
client  == <<holds, joined, passed, used>>
vars == <<queues, threads, context, locks, cpu, locals, client, status>>

Results == {"null", "ptr", "pointee"}
Consumed == [stack |-> 0, pc |-> "user"]
Contexts == [stack : 0..NThreads, pc : Points]
At(t, pc) == [stack |-> t, pc |-> pc]
self == cpu.stack
created == 1..(nextId - 1)

\* Type correctness of the library's globals, its threads and its mutexes.
TypeOK ==
  /\ run \in Seq(Thread) /\ running \in Thread
  /\ nextId \in 2..(NThreads + 1) /\ nSchedulings \in 0..MaxSchedulings
  /\ priority \in [Thread -> Nat] /\ born \in [Thread -> Nat]
  /\ finished \in [Thread -> BOOLEAN] /\ res \in [Thread -> Results]
  /\ waitJoin \in [Thread -> Seq(Thread)]
  /\ context \in [Thread -> Contexts]
  /\ live \subseteq Mutex
  /\ state \in [Mutex -> {0, 1}] /\ wait \in [Mutex -> Seq(Thread)]
  /\ cpu \in Contexts
  /\ joinArg \in [Thread -> Thread] /\ value_ptr \in [Thread -> BOOLEAN]
  /\ lockArg \in [Thread -> Mutex] /\ s \in [Thread -> {0, 1}]
  /\ holds \in [Thread -> SUBSET Mutex]
  /\ joined \subseteq Thread \X Thread \X (Results \union {"none"})
  /\ passed \in [Thread -> Results] /\ used \in [Thread -> 0..Rounds]
  /\ status \in {"ok", "exited", "segv", "freed", "wild"}

-----------------------------------------------------------------------------
(***************************************************************************)
(* initOS: main is thread 1 and runs, the run queue is empty, the timer is *)
(* started.  Fields of threads and mutexes that do not exist yet have the  *)
(* zero of the memory they will be allocated in.                           *)
(***************************************************************************)
Init ==
  /\ run = << >> /\ running = main /\ nextId = 2 /\ nSchedulings = 0
  /\ priority = [t \in Thread |-> 0] /\ born = [t \in Thread |-> 0]
  /\ finished = [t \in Thread |-> FALSE] /\ res = [t \in Thread |-> "null"]
  /\ waitJoin = [t \in Thread |-> << >>]
  /\ context = [t \in Thread |-> Consumed]
  /\ live = {} /\ state = [m \in Mutex |-> 0]
  /\ wait = [m \in Mutex |-> << >>]
  /\ cpu = At(main, "user")
  /\ joinArg = [t \in Thread |-> main]
  /\ value_ptr = [t \in Thread |-> FALSE]
  /\ lockArg = [t \in Thread |-> CHOOSE m \in Mutex : TRUE]
  /\ s = [t \in Thread |-> 0]
  /\ holds = [t \in Thread |-> {}] /\ joined = {}
  /\ passed = [t \in Thread |-> "null"] /\ used = [t \in Thread |-> 0]
  /\ status = "ok"

Executing(pc) == status = "ok" /\ cpu.pc = pc
Goto(pc) == cpu' = [cpu EXCEPT !.pc = pc]
End(how) == status' = how /\ UNCHANGED cpu

\* setcontext(&t->context), with ctx the contexts in memory.  A context can be
\* resumed once: the stack below it is reused afterwards.
Load(ctx, t) ==
  /\ cpu' = ctx[t]
  /\ context' = [ctx EXCEPT ![t] = Consumed]
  /\ status' = IF ctx[t].stack = t THEN "ok" ELSE "wild"

\* swapcontext(old, &(*running)->context), old being the caller's own context.
\* SetContext: mutant, setcontext where the caller has to be saved.
SetContext(pc) == Load(context, running)
SwapContext(pc) == Load([context EXCEPT ![self] = At(self, pc)], running)

(***************************************************************************)
(* interrupt and scheduler, which run with SIGPROF blocked: the context    *)
(* the CPU is in is saved in that of `running'; every MaxSchedulings calls *)
(* the run queue is rebuilt; the priority of the running thread is raised; *)
(* the first thread of the run queue runs next.                            *)
(***************************************************************************)
\* NeverReset: mutant of Tick, `*nSchedulings = 0' forgotten.
Reorders == nSchedulings + 1 > MaxSchedulings
NeverReset == nSchedulings + 1
Tick == IF Reorders THEN 0 ELSE nSchedulings + 1

interrupt(prio) ==
  LET queue == IF Reorders THEN orderByOldest(born, run) ELSE run
      lower == [prio EXCEPT ![running] = @ + 1]
  IN
  /\ nSchedulings' = Tick
  /\ priority' = lower
  /\ IF queue = << >>
     THEN /\ context' = [context EXCEPT ![running] = Consumed]
          /\ UNCHANGED <<run, running, cpu, status>>
     ELSE /\ run' = pushOrdered(lower, Tail(queue), running)
          /\ running' = Head(queue)
          /\ Load([context EXCEPT ![running] = cpu], Head(queue))

\* SIGPROF is delivered.
Preempt ==
  /\ status = "ok" /\ cpu.pc \in PreemptAt
  /\ priority[running] < MaxPriority
  /\ interrupt(priority)
  /\ UNCHANGED <<threads, locks, locals, client>>

my_pthread_yield ==
  /\ Executing("user") /\ "yield" \in Calls
  /\ interrupt([priority EXCEPT ![running] = IF @ > 0 THEN @ - 1 ELSE @])
  /\ UNCHANGED <<threads, locks, locals, client>>

\* orderByOldest copies the list header it got from malloc over the run queue;
\* the header was never initialised, and is garbage when malloc returns memory
\* that was used before.
OrderByOldestOnDirtyHeap ==
  /\ status = "ok" /\ nSchedulings = MaxSchedulings
  /\ \/ cpu.pc \in PreemptAt /\ priority[running] < MaxPriority
     \/ cpu.pc = "user" /\ "yield" \in Calls
  /\ End("wild")
  /\ UNCHANGED <<queues, threads, context, locks, locals, client>>

(***************************************************************************)
(* my_pthread_create and createNewThread.  time(NULL) does not decrease    *)
(* between two creations.                                                  *)
(***************************************************************************)
my_pthread_create ==
  /\ Executing("user") /\ nextId <= NThreads
  /\ \E time \in {born[nextId - 1], born[nextId - 1] + 1} :
       born' = [born EXCEPT ![nextId] = time]
  /\ nextId' = nextId + 1
  /\ finished' = [finished EXCEPT ![nextId] = FALSE]
  /\ priority' = [priority EXCEPT ![nextId] = 0]
  /\ context' = [context EXCEPT ![nextId] = At(nextId, "user")]
  /\ run' = pushOrdered(priority', run, nextId)
  /\ UNCHANGED <<running, nSchedulings, res, waitJoin, locks, cpu, locals,
                 client, status>>

(***************************************************************************)
(* threadExit up to the switch: the running thread is finished and every   *)
(* thread waiting in a join of it goes to the run queue.                   *)
(***************************************************************************)
\* WakesOne, WakesNone: mutants, `if' instead of `while', and no loop at all.
WakesOne == IF waitJoin[running] = << >> THEN run
            ELSE pushOrdered(priority, run, Head(waitJoin[running]))
WakesNone == run
Wakened == PushAll(priority, run, waitJoin[running])

\* LeavesJoiners: mutant, the joiners are woken and stay queued.
LeavesJoiners(v) ==
  /\ finished' = [finished EXCEPT ![running] = TRUE]
  /\ res' = IF v = "null" THEN res ELSE [res EXCEPT ![running] = v]
  /\ run' = IF Wakened = << >> THEN << >> ELSE Tail(Wakened)
  /\ running' = IF Wakened = << >> THEN running ELSE Head(Wakened)
  /\ UNCHANGED waitJoin

threadExit(v) ==
  /\ finished' = [finished EXCEPT ![running] = TRUE]
  /\ res' = IF v = "null" THEN res ELSE [res EXCEPT ![running] = v]
  /\ waitJoin' = [waitJoin EXCEPT ![running] = << >>]
  /\ run' = IF Wakened = << >> THEN << >> ELSE Tail(Wakened)
  /\ running' = IF Wakened = << >> THEN running ELSE Head(Wakened)

\* A well-behaved client ends a thread that holds no mutex.
MayEnd(v) ==
  /\ Executing("user") /\ self # main /\ holds[self] = {}
  /\ passed' = [passed EXCEPT ![self] = v]

\* With nobody to run, threadExit returns and the caller goes on.
my_pthread_exit(v) ==
  /\ "exit" \in Calls /\ MayEnd(v)
  /\ threadExit(v)
  /\ IF Wakened = << >> THEN UNCHANGED cpu ELSE Goto("exitSwitch")
  /\ UNCHANGED <<nextId, nSchedulings, priority, born, context, locks, locals,
                 holds, joined, used, status>>

ExitSwitch ==
  /\ Executing("exitSwitch")
  /\ Load(context, running)
  /\ UNCHANGED <<queues, threads, locks, locals, client>>

\* The thread's function returns v to threadRun, which blocks SIGPROF for good
\* and exits with what v points to.  With nobody to run threadRun returns, and
\* without uc_link that ends the process.
threadRun(v) ==
  /\ MayEnd(v)
  /\ threadExit(IF v = "null" THEN "null" ELSE "pointee")
  /\ IF Wakened = << >>
     THEN End("exited") /\ UNCHANGED context
     ELSE Load(context, Head(Wakened))
  /\ UNCHANGED <<nextId, nSchedulings, priority, born, locks, locals, holds,
                 joined, used>>

\* initOS leaves main's waitJoin null: threadExit of main dereferences it.
MainCallsExit ==
  /\ Executing("user") /\ self = main /\ "mainexit" \in Calls
  /\ finished' = [finished EXCEPT ![running] = TRUE]
  /\ End("segv")
  /\ UNCHANGED <<queues, nextId, born, res, waitJoin, context, locks, locals,
                 client>>

\* main() returns once it has joined the threads the program created.
Joined(t) == {u \in Thread : \E v \in Results \union {"none"} :
                              <<t, u, v>> \in joined}
MainReturns ==
  /\ Executing("user") /\ self = main /\ created \ {main} \subseteq Joined(main)
  /\ End("exited")
  /\ UNCHANGED <<queues, threads, context, locks, locals, client>>

(***************************************************************************)
(* my_pthread_join.  A well-behaved client joins a thread once, holding no *)
(* mutex, and only threads created after itself, so that joins have no     *)
(* cycle.  (Joining main would dereference its null waitJoin.)             *)
(***************************************************************************)
MayJoin(u) ==
  /\ Executing("user") /\ "join" \in Calls /\ u \in created /\ u > self
  /\ u \notin Joined(self) /\ holds[self] = {}

\* The end of my_pthread_join(u, want): *value_ptr = *thread->res.
JoinReturns(u, want) ==
  /\ IF want /\ res[u] = "null"
     THEN End("segv") /\ UNCHANGED joined
     ELSE /\ joined' = joined \union
                         {<<self, u, IF want THEN res[u] ELSE "none">>}
          /\ Goto("user") /\ UNCHANGED status

\* JoinAtOnce: mutant, the test of thread->finished dropped.
JoinAtOnce(u, want) ==
  /\ MayJoin(u)
  /\ JoinReturns(u, want)
  /\ UNCHANGED <<queues, threads, context, locks, locals, holds, passed, used>>

JoinFinished(u, want) ==
  /\ MayJoin(u) /\ finished[u]
  /\ JoinReturns(u, want)
  /\ UNCHANGED <<queues, threads, context, locks, locals, holds, passed, used>>

JoinBlocks(u, want) ==
  /\ MayJoin(u) /\ ~finished[u] /\ run # << >>
  /\ waitJoin' = [waitJoin EXCEPT ![u] = pushOrdered(priority, @, running)]
  /\ running' = Head(run) /\ run' = Tail(run)
  /\ joinArg' = [joinArg EXCEPT ![self] = u]
  /\ value_ptr' = [value_ptr EXCEPT ![self] = want]
  /\ Goto("joinSwitch")
  /\ UNCHANGED <<nextId, nSchedulings, priority, born, finished, res, context,
                 locks, lockArg, s, client, status>>

JoinSwitch ==
  /\ Executing("joinSwitch")
  /\ SwapContext("joined")
  /\ UNCHANGED <<queues, threads, locks, locals, client>>

JoinResumes ==
  /\ Executing("joined")
  /\ JoinReturns(joinArg[self], value_ptr[self])
  /\ UNCHANGED <<queues, threads, context, locks, locals, holds, passed, used>>

\* With nobody to run, join frees run, mainThread and running, and returns.
JoinNobodyToRun(u, want) ==
  /\ MayJoin(u) /\ ~finished[u] /\ run = << >>
  /\ waitJoin' = [waitJoin EXCEPT ![u] = pushOrdered(priority, @, running)]
  /\ IF want /\ res[u] = "null"
     THEN status' = "segv" /\ UNCHANGED joined
     ELSE /\ status' = "freed"
          /\ joined' = joined \union
                         {<<self, u, IF want THEN res[u] ELSE "none">>}
  /\ UNCHANGED <<queues, nextId, born, finished, res, context, locks, cpu,
                 locals, holds, passed, used>>

(***************************************************************************)
(* Mutexes.  A well-behaved client locks an initialised mutex while it     *)
(* holds none, unlocks what it holds and destroys a mutex nobody holds.    *)
(***************************************************************************)
PointOf(t) == IF cpu.stack = t THEN cpu.pc ELSE context[t].pc
InLock(t, m) ==
  /\ lockArg[t] = m
  /\ PointOf(t) \in {"lock", "tas", "slow", "lockSwitch"}
Holders(m) == {t \in Thread : m \in holds[t]}

my_pthread_mutex_init(m) ==
  /\ Executing("user") /\ m \notin live /\ \A t \in Thread : ~InLock(t, m)
  /\ live' = live \union {m}
  /\ state' = [state EXCEPT ![m] = 0] /\ wait' = [wait EXCEPT ![m] = << >>]
  /\ UNCHANGED <<queues, threads, context, cpu, locals, client, status>>

my_pthread_mutex_lock(m) ==
  /\ Executing("user") /\ m \in live /\ holds[self] = {}
  /\ used[self] < Rounds /\ used' = [used EXCEPT ![self] = @ + 1]
  /\ lockArg' = [lockArg EXCEPT ![self] = m]
  /\ Goto("lock")
  /\ UNCHANGED <<queues, threads, context, locks, joinArg, value_ptr, s, holds,
                 joined, passed, status>>

\* ReadsFree: mutant, testAndSet does not return what it read.
ReadsFree ==
  /\ Executing("lock") /\ lockArg[self] \in live
  /\ s' = [s EXCEPT ![self] = 0]
  /\ Goto("tas")
  /\ UNCHANGED <<queues, threads, context, locks, joinArg, value_ptr, lockArg,
                 client, status>>

testAndSetRead ==
  /\ Executing("lock") /\ lockArg[self] \in live
  /\ s' = [s EXCEPT ![self] = state[lockArg[self]]]
  /\ Goto("tas")
  /\ UNCHANGED <<queues, threads, context, locks, joinArg, value_ptr, lockArg,
                 client, status>>

testAndSetWrite ==
  /\ Executing("tas") /\ lockArg[self] \in live
  /\ state' = [state EXCEPT ![lockArg[self]] = 1]
  /\ IF s[self] = 0
     THEN /\ holds' = [holds EXCEPT ![self] = @ \union {lockArg[self]}]
          /\ Goto("user")
     ELSE UNCHANGED holds /\ Goto("slow")
  /\ UNCHANGED <<queues, threads, context, live, wait, locals, joined, passed,
                 used, status>>

\* The body of the loop: state is read again with SIGPROF blocked.
LockRetries ==
  /\ Executing("slow") /\ lockArg[self] \in live /\ state[lockArg[self]] = 0
  /\ Goto("lock")
  /\ UNCHANGED <<queues, threads, context, locks, locals, client, status>>

\* Spins: mutant, a busy loop instead of the wait queue.
Spins ==
  /\ Executing("slow") /\ lockArg[self] \in live /\ state[lockArg[self]] = 1
  /\ Goto("lock")
  /\ UNCHANGED <<queues, threads, context, locks, locals, client, status>>

\* pop(run) of an empty run queue dereferences a null head.
LockBlocks ==
  /\ Executing("slow") /\ lockArg[self] \in live /\ state[lockArg[self]] = 1
  /\ wait' = [wait EXCEPT ![lockArg[self]] = Append(@, running)]
  /\ IF run = << >>
     THEN End("segv") /\ UNCHANGED <<run, running>>
     ELSE /\ running' = Head(run) /\ run' = Tail(run)
          /\ Goto("lockSwitch") /\ UNCHANGED status
  /\ UNCHANGED <<nSchedulings, priority, threads, context, live, state, locals,
                 client>>

LockSwitch ==
  /\ Executing("lockSwitch")
  /\ SwapContext("lock")
  /\ UNCHANGED <<queues, threads, locks, locals, client>>

\* WakesNobody: mutant, unlock without the pop of the wait queue.
WakesNobody(m) ==
  /\ Executing("user") /\ m \in holds[self]
  /\ state' = [state EXCEPT ![m] = 0]
  /\ holds' = [holds EXCEPT ![self] = @ \ {m}]
  /\ UNCHANGED <<queues, threads, context, live, wait, cpu, locals, joined,
                 passed, used, status>>

\* HandsOver: mutant, the waiter becomes the running thread at once.
HandsOver(m) ==
  /\ Executing("user") /\ m \in holds[self] /\ wait[m] # << >>
  /\ run' = pushOrdered(priority, run, running)
  /\ running' = Head(wait[m])
  /\ wait' = [wait EXCEPT ![m] = Tail(@)]
  /\ state' = [state EXCEPT ![m] = 0]
  /\ holds' = [holds EXCEPT ![self] = @ \ {m}]
  /\ UNCHANGED <<nSchedulings, priority, threads, context, live, cpu, locals,
                 joined, passed, used, status>>

my_pthread_mutex_unlock(m) ==
  /\ Executing("user") /\ m \in holds[self]
  /\ IF wait[m] = << >>
     THEN UNCHANGED <<run, wait>>
     ELSE /\ run' = pushOrdered(priority, run, Head(wait[m]))
          /\ wait' = [wait EXCEPT ![m] = Tail(@)]
  /\ state' = [state EXCEPT ![m] = 0]
  /\ holds' = [holds EXCEPT ![self] = @ \ {m}]
  /\ UNCHANGED <<running, nSchedulings, priority, threads, context, live, cpu,
                 locals, joined, passed, used, status>>

\* Waiters are woken although they will go back to the freed mutex.
my_pthread_mutex_destroy(m) ==
  /\ Executing("user") /\ m \in live /\ Holders(m) = {}
  /\ \/ "destroyContended" \in Calls
     \/ "destroy" \in Calls /\ \A t \in Thread : ~InLock(t, m)
  /\ run' = PushAll(priority, run, wait[m])
  /\ wait' = [wait EXCEPT ![m] = << >>]
  /\ state' = [state EXCEPT ![m] = 0]
  /\ live' = live \ {m}
  /\ UNCHANGED <<running, nSchedulings, priority, threads, context, cpu, locals,
                 client, status>>

UsesDestroyedMutex ==
  /\ status = "ok" /\ cpu.pc \in {"lock", "tas", "slow"}
  /\ lockArg[self] \notin live
  /\ End("wild")
  /\ UNCHANGED <<queues, threads, context, locks, locals, client>>

Ended == status # "ok" /\ UNCHANGED vars

-----------------------------------------------------------------------------
Next ==
  \/ Preempt \/ my_pthread_yield \/ OrderByOldestOnDirtyHeap
  \/ my_pthread_create
  \/ \E v \in ExitValues : my_pthread_exit(v) \/ threadRun(v)
  \/ ExitSwitch \/ MainCallsExit \/ MainReturns
  \/ \E u \in Thread, want \in (IF "value" \in Calls THEN BOOLEAN ELSE {FALSE}) :
       JoinFinished(u, want) \/ JoinBlocks(u, want) \/ JoinNobodyToRun(u, want)
  \/ JoinSwitch \/ JoinResumes
  \/ \E m \in Mutex : \/ my_pthread_mutex_init(m) \/ my_pthread_mutex_lock(m)
                       \/ my_pthread_mutex_unlock(m)
                       \/ my_pthread_mutex_destroy(m)
  \/ testAndSetRead \/ testAndSetWrite
  \/ LockRetries \/ LockBlocks \/ LockSwitch \/ UsesDestroyedMutex
  \/ Ended

Spec == Init /\ [][Next]_vars

\* The CPU never idles while the process lives: the thread that is executing
\* takes its next step.  (WF_vars(Next), written without ENABLED: a living
\* process always has a step.)
FairSpec == Spec /\ (([]<><<TRUE>>_vars) \/ []<>(status # "ok"))

-----------------------------------------------------------------------------
Active == Range(run) \union {running}

NoDuplicate ==
  /\ IsInjective(run) /\ running \notin Range(run) /\ Active \subseteq created
  /\ \A u \in Thread : /\ IsInjective(waitJoin[u])
                       /\ Range(waitJoin[u]) \subseteq created \ Active
  /\ \A m \in Mutex : /\ IsInjective(wait[m])
                      /\ Range(wait[m]) \subseteq created \ Active
  /\ \A u \in Thread, m \in Mutex : Range(waitJoin[u]) \intersect Range(wait[m]) = {}
  /\ \A u, v \in Thread : u # v => Range(waitJoin[u]) \intersect Range(waitJoin[v]) = {}
  /\ \A m, n \in Mutex : m # n => Range(wait[m]) \intersect Range(wait[n]) = {}

NoLoss ==
  \A t \in created : \/ finished[t] \/ t \in Active
                     \/ \E u \in Thread : t \in Range(waitJoin[u])
                     \/ \E m \in Mutex : t \in Range(wait[m])

\* No thread is lost and none is queued twice: an unfinished thread is the
\* running one or sits in exactly one place of exactly one queue, whatever
\* mixture of preemption, yield, join, exit, lock, unlock and destroy happened
\* before.  (A finished thread may be running still: see ExitEnds.)
Conservation == status = "ok" => NoDuplicate /\ NoLoss

\* Nobody is left behind in the join queue of a thread that has exited, so a
\* join that found its target running and blocked is always answered.
JoinersWoken == \A u \in Thread : finished[u] /\ status = "ok" => waitJoin[u] = << >>

Abstract == INSTANCE Scheduler WITH
  known <- created, current <- running, ready <- Range(run),
  joiners <- [t \in Thread |-> Range(waitJoin[t])],
  waiters <- [m \in Mutex |-> Range(wait[m])],
  done <- {t \in created : finished[t]}, alive <- (status = "ok")

\* The queues implement the abstract scheduler: wherever SIGPROF strikes, the
\* CPU goes only to a thread that was ready, an exit makes all of its joiners
\* ready in the same step, and a thread changes its place in no other way than
\* by its own call or by the exit, unlock or destroy it waited for.
Implements == Abstract!Spec

\* Two threads are never both between lock and unlock of the same mutex.
MutualExclusion == \A m \in Mutex : \A t, u \in Holders(m) : t = u

\* When a thread is queued on a mutex there is someone who will wake it: a
\* holder that has to unlock, or a thread that is on its way through the lock
\* loop (and becomes the holder or queues behind one).
NoLostWakeup ==
  \A m \in Mutex : status = "ok" /\ wait[m] # << >> =>
    \/ Holders(m) # {}
    \/ \E t \in Thread : InLock(t, m) /\ t \notin Range(wait[m])

\* The context saved for an unfinished thread that is not on the CPU is that
\* thread's own and has not been resumed since it was saved.
ContextIntact ==
  status = "ok" =>
    \A t \in created : finished[t] \/ t = self \/ context[t].stack = t

\* "the calling thread will not continue execution until the one it references
\* exits" (my_pthread.c:220): a join has returned only for finished threads.
JoinWaits == \A j \in joined : finished[j[2]]

\* "If value_ptr is not null, the return value of the exiting thread will be
\* passed back" (my_pthread.c:220).  Not so: see README.
JoinDelivers == \A j \in joined : j[3] \in {"none", passed[j[2]]}

\* A program whose clients respect the contracts neither dereferences a null
\* list or result nor frees the scheduler's own data.
NoCrash == status \notin {"segv", "freed"}

\* my_pthread_exit and the return of a thread function end the thread: client
\* code of a finished thread never runs again.
ExitEnds == Executing("user") => ~finished[self]

\* The run queue is ordered by priority, the smallest value first: "granting
\* highest priority to new threads" (Docs/assignment1:90).  Not so: see README.
RunSorted ==
  \A i, j \in DOMAIN run : i <= j => priority[run[i]] <= priority[run[j]]

\* Every program of the run ends, through exit() or on a dirty heap.
Termination == <>(status \in {"exited", "wild"})

Oldest(t) == t \in Range(run) /\ \A u \in Range(run) \ {t} : born[t] < born[u]

\* "so that the oldest threads do not get starved out of run time"
\* (Docs/assignment1:114): the oldest thread of the run queue gets the CPU.
OldestRuns == \A t \in Thread : Oldest(t) ~> (running = t \/ status # "ok")
=============================================================================
