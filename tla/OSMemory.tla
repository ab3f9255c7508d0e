------------------------------ MODULE OSMemory ------------------------------
(***************************************************************************)
(* What the thread library keeps in the OS region: the element list of     *)
(* VMHeap under the library's own requests, and the queues of ListPointers *)
(* in the elements they get.  myallocate does not clear memory and the     *)
(* library does not initialise a queue it allocates: a new queue is what   *)
(* its words held before.                                                  *)
(*                                                                         *)
(* Addresses count units of four bytes.  A call makes its requests to the  *)
(* region one after the other (todo); SIGPROF is blocked meanwhile, except *)
(* between the two of my_pthread_mutex_init.  Which thread may call what   *)
(* when is the subject of MyPthread: here the priorities and the points of *)
(* preemption are arbitrary.                                               *)
(***************************************************************************)
EXTENDS VMHeap, Sequences

CONSTANTS
  NThreads,    \* threads, main (1) included
  NMutexes,
  ThreadSize, StackSize,  \* units of an sthread and of a stack
  Programs,    \* what programs do: see below
  MaxNodes     \* bound: nodes of queues

Thread == 1..NThreads
Mutex == 1..NMutexes
main == 1

ASSUME OSCounts ==
  {NThreads, NMutexes, ThreadSize, StackSize, MaxNodes} \subseteq Nat \ {0}

\* A program has so many threads and mutexes.  Once it has destroyed a mutex it
\* goes on to create threads and initialise mutexes only if `after' says so, and
\* it destroys one while another is being initialised only with "overlap".
ASSUME OSPrograms ==
  Programs \subseteq [threads : Thread, mutexes : Mutex,
                      after : SUBSET {"create", "init", "overlap"}]

P == INSTANCE ListPointers
S == INSTANCE LinkedList

\* What an element holds, by whose it is.
run == <<"run", 0>>
waitJoin(t) == <<"waitJoin", t>>
lock(m) == <<"lock", m>>
wait(m) == <<"wait", m>>
other == <<"other", 0>>
Queue == {run} \union {waitJoin(t) : t \in Thread} \union {wait(m) : m \in Mutex}
Place == Queue \union {lock(m) : m \in Mutex}

sizeof == [LinkedList |-> 6, lock |-> 4, unsigned |-> 1, my_pthread_t |-> 2,
           sthread |-> ThreadSize, stack |-> StackSize,
           sigaction |-> 38, itimerval |-> 8]

VARIABLES
  at,        \* the element of each place, by the address of its header
  dirty,     \* the units that are not zero, outside the elements in use
  M, queue,  \* the queues, and the same as sequences (history)
  program, running, created,
  destroyed, \* whether a mutex was destroyed
  todo,      \* the requests that the current call has still to make
  end        \* "null": NULL was used as an element; "garbage": a new queue is
             \* not empty

heap == <<node, owned, calls, status, at, dirty>>
osvars == <<heap, M, queue, program, running, created, destroyed, todo, end>>

\* Type correctness of the region and the queues in it: every place of the
\* library has an element that is in use, and the queues are those with one.
OSTypeOK ==
  /\ TypeOK
  /\ DOMAIN at \subseteq Place /\ \A p \in DOMAIN at : at[p] \in owned
  /\ dirty \subseteq Nat
  /\ DOMAIN M.lists = DOMAIN queue /\ DOMAIN queue = DOMAIN at \intersect Queue
  /\ \A l \in DOMAIN queue : queue[l] \in Seq(Thread)
  /\ running \in Thread /\ created \in Thread /\ destroyed \in BOOLEAN
  /\ end \in {"no", "null", "garbage"}

-----------------------------------------------------------------------------
New(what, p) == [what |-> what, place |-> p]
Free(p) == [what |-> "free", place |-> p]

\* The requests of initOS and setMyScheduler.  (The requests of size 0 for the
\* threads' first pages are not made to this region.)
initOS == <<New("LinkedList", run), New("unsigned", other), New("sthread", other),
            New("my_pthread_t", other), New("unsigned", other),
            New("sigaction", other), New("itimerval", other)>>

OSInit ==
  /\ Init
  /\ at = << >> /\ dirty = 2..(HEADER - 1)
  /\ M = [lists |-> << >>, nodes |-> << >>] /\ queue = << >>
  /\ program \in Programs /\ running = main /\ created = main /\ destroyed = FALSE
  /\ todo = initOS /\ end = "no"

Going == end = "no" /\ status = "ok"
\* A new call: no call makes more than three requests.
Idle == Going /\ todo = << >> /\ calls + 3 <= MaxCalls

MayStill(what) == destroyed => what \in program.after

With(f, p, v) == [q \in DOMAIN f \union {p} |-> IF q = p THEN v ELSE f[q]]
Without(f, p) == [q \in DOMAIN f \ {p} |-> f[q]]

Word(a) == IF {a, a + 1} \intersect dirty = {} THEN P!NIL ELSE P!GARBAGE
\* The queue that the element at n is when it is handed out.
ListIn(n) == [tail |-> Word(n + HEADER), head |-> Word(n + HEADER + 2),
              nitems |-> Word(n + HEADER + 4)]
Words(a, v) == IF v = P!NIL THEN {} ELSE {a, a + 1}

\* myallocate(sizeof(what), OSREQ) for place p.  The first two fields of a
\* SpaceNode, pid and reference, are 0.
Allocates(what, p) ==
  /\ \/ myallocate(sizeof[what]) \/ AllocationFails(sizeof[what])
  /\ LET got == owned' \ owned
         n == CHOOSE a \in got : TRUE
         headers == DOMAIN node' \ DOMAIN node
         isQueue == got # {} /\ p \in Queue
     IN
     /\ dirty' = (dirty \ UNION {{h, h + 1} : h \in headers})
                 \union UNION {(h + 2)..(h + HEADER - 1) : h \in headers}
     /\ at' = IF got # {} /\ p \in Place THEN With(at, p, n) ELSE at
     /\ queue' = IF isQueue THEN With(queue, p, << >>) ELSE queue
     /\ M' = IF isQueue THEN [M EXCEPT !.lists = With(@, p, ListIn(n))] ELSE M
     /\ end' = IF got = {} THEN "null"
               ELSE IF isQueue /\ P!GARBAGE \in {ListIn(n).tail, ListIn(n).head}
               THEN "garbage" ELSE "no"

\* free() of a wait queue or of a lock, whose state is 0.
Releases(p) ==
  LET a == at[p] + HEADER
      left == IF p \in Queue
              THEN Words(a, M.lists[p].tail) \union Words(a + 2, M.lists[p].head)
                   \union Words(a + 4, M.lists[p].nitems)
              ELSE {a + 2, a + 3}
  IN
  /\ mydeallocate(at[p])
  /\ dirty' = (dirty \ (IF p \in Queue THEN a..(a + 5) ELSE {a})) \union left
  /\ at' = Without(at, p)
  /\ queue' = IF p \in Queue THEN Without(queue, p) ELSE queue
  /\ M' = IF p \in Queue THEN [M EXCEPT !.lists = Without(@, p)] ELSE M
  /\ UNCHANGED end

Request ==
  /\ Going /\ todo # << >> /\ todo' = Tail(todo)
  /\ IF Head(todo).what = "free" THEN Releases(Head(todo).place)
     ELSE Allocates(Head(todo).what, Head(todo).place)
  /\ UNCHANGED <<program, running, created, destroyed>>

-----------------------------------------------------------------------------
(***************************************************************************)
(* The operations on queues.  m and q are the new memory and sequences.    *)
(***************************************************************************)
Keys == [Thread -> 0..1]
Room(n) == Len(M.nodes) + n <= MaxNodes
Unfinished(t) == t = running \/ \E l \in DOMAIN queue, i \in 1..NThreads :
                                   i \in DOMAIN queue[l] /\ queue[l][i] = t
Becomes(m, q) == M' = m /\ queue' = q
KeepHeap == UNCHANGED <<heap, program, created, destroyed, todo, end>>

\* createNewThread, and the push of my_pthread_create, which does not depend on
\* the requests and is taken first.
my_pthread_create ==
  /\ Idle /\ created < program.threads /\ Room(1) /\ MayStill("create")
  /\ created' = created + 1
  /\ todo' = <<New("sthread", other), New("LinkedList", waitJoin(created + 1)),
               New("stack", other)>>
  /\ \E key \in Keys :
       Becomes(P!pushOrdered(key, M, run, created + 1),
               [queue EXCEPT ![run] = S!pushOrdered(key, @, created + 1)])
  /\ UNCHANGED <<heap, program, running, destroyed, end>>

\* scheduler, with and without orderByOldest; time(NULL) does not decrease.
scheduler ==
  /\ Idle /\ ~P!empty(M, run) /\ Room(Len(queue[run]) + 1)
  /\ \E key, born \in Keys, reorder \in BOOLEAN :
       LET m == IF reorder THEN P!orderByOldest(born, M, run, other) ELSE M
           q == IF reorder THEN S!orderByOldest(born, queue[run]) ELSE queue[run]
       IN
       /\ \A t, u \in Thread : t < u => born[t] <= born[u]
       /\ Becomes(P!pushOrdered(key, P!pop(m, run), run, running),
                  [queue EXCEPT ![run] = S!pushOrdered(key, Tail(q), running)])
       /\ running' = P!front(m, run)
  /\ KeepHeap

\* The running thread joins t, which has not finished, or waits for mutex m;
\* another one runs.  (MyPthread has the cases in which there is none.)
my_pthread_join(t) ==
  /\ Idle /\ t \in (2..created) \ {running} /\ Unfinished(t)
  /\ ~P!empty(M, run) /\ Room(1)
  /\ \E key \in Keys :
       Becomes(P!pop(P!pushOrdered(key, M, waitJoin(t), running), run),
               [queue EXCEPT ![waitJoin(t)] = S!pushOrdered(key, @, running),
                             ![run] = Tail(@)])
  /\ running' = P!front(M, run)
  /\ KeepHeap

my_pthread_mutex_lock(m) ==
  /\ Idle /\ wait(m) \in DOMAIN at /\ ~P!empty(M, run) /\ Room(1)
  /\ Becomes(P!pop(P!push(M, wait(m), running), run),
             [queue EXCEPT ![wait(m)] = Append(@, running), ![run] = Tail(@)])
  /\ running' = P!front(M, run)
  /\ KeepHeap

my_pthread_mutex_unlock(m) ==
  /\ Idle /\ wait(m) \in DOMAIN at /\ ~P!empty(M, wait(m)) /\ Room(1)
  /\ \E key \in Keys :
       Becomes(P!pushOrdered(key, P!pop(M, wait(m)), run, P!front(M, wait(m))),
               [queue EXCEPT ![run] = S!pushOrdered(key, @, Head(queue[wait(m)])),
                             ![wait(m)] = Tail(@)])
  /\ UNCHANGED running /\ KeepHeap

\* The end of a thread other than main, which has no waitJoin.
threadExit ==
  /\ Idle /\ running # main /\ Room(Len(queue[waitJoin(running)]))
  /\ \E key \in Keys :
       LET m == P!MoveAll(key, M, waitJoin(running), run)
           q == S!PushAll(key, queue[run], queue[waitJoin(running)])
       IN  /\ q # << >>
           /\ Becomes(P!pop(m, run),
                      [queue EXCEPT ![run] = Tail(q), ![waitJoin(running)] = << >>])
           /\ running' = P!front(m, run)
  /\ KeepHeap

HalfInitialised(m) == lock(m) \in DOMAIN at /\ wait(m) \notin DOMAIN at

\* my_pthread_mutex_init blocks no signal: others run between its requests.
my_pthread_mutex_init(m) ==
  /\ Idle /\ m <= program.mutexes /\ lock(m) \notin DOMAIN at /\ MayStill("init")
  /\ todo' = <<New("lock", lock(m))>>
  /\ UNCHANGED <<heap, M, queue, program, running, created, destroyed, end>>

InitWait(m) ==
  /\ Idle /\ HalfInitialised(m)
  /\ todo' = <<New("LinkedList", wait(m))>>
  /\ UNCHANGED <<heap, M, queue, program, running, created, destroyed, end>>

\* KeepsWaiters: mutant, the wait queue is released as it is.
KeepsWaiters(m) ==
  /\ Idle /\ wait(m) \in DOMAIN at
  /\ "overlap" \in program.after \/ \A k \in Mutex : ~HalfInitialised(k)
  /\ todo' = <<Free(wait(m)), Free(lock(m))>> /\ destroyed' = TRUE
  /\ UNCHANGED <<heap, M, queue, program, running, created, end>>

my_pthread_mutex_destroy(m) ==
  /\ Idle /\ wait(m) \in DOMAIN at /\ Room(Len(queue[wait(m)]))
  /\ "overlap" \in program.after \/ \A k \in Mutex : ~HalfInitialised(k)
  /\ \E key \in Keys :
       Becomes(P!MoveAll(key, M, wait(m), run),
               [queue EXCEPT ![run] = S!PushAll(key, @, queue[wait(m)]),
                             ![wait(m)] = << >>])
  /\ todo' = <<Free(wait(m)), Free(lock(m))>> /\ destroyed' = TRUE
  /\ UNCHANGED <<heap, program, running, created, end>>

\* The program makes no more calls, or came to its end.
NoMoreCalls == (~Going \/ todo = << >>) /\ UNCHANGED osvars

OSNext ==
  \/ Request \/ my_pthread_create \/ scheduler \/ threadExit
  \/ \E t \in Thread : my_pthread_join(t)
  \/ \E m \in Mutex : \/ my_pthread_mutex_init(m) \/ InitWait(m)
                       \/ my_pthread_mutex_lock(m) \/ my_pthread_mutex_unlock(m)
                       \/ my_pthread_mutex_destroy(m)
  \/ NoMoreCalls

OSSpec == OSInit /\ [][OSNext]_osvars

-----------------------------------------------------------------------------

\* createNewThread and my_pthread_mutex_init use the queue they get from
\* myallocate as an empty one: its head and its tail are null, also where memory
\* of a destroyed mutex is used again.
QueuesStartEmpty == end # "garbage"

\* Memory does not run out, nor over the end of the region, under a program that
\* has at any time no more than the region was made for: what
\* my_pthread_mutex_destroy gives back is found again.
NoExhaustion == end # "null" /\ InRegion
=============================================================================
