------------------------------ MODULE VMPages -------------------------------
(***************************************************************************)
(* The pages of vm.c: the table of page frames, their protection, the swap *)
(* file, and the SIGSEGV handler that brings the pages of the running      *)
(* thread to the beginning of the memory, where the thread addresses them: *)
(* the k-th page of every thread is accessed at frame k.                   *)
(*                                                                         *)
(* The contents of a page are a token that names whose page it is, with    *)
(* `raw' for a page without element headers of its own and `torn' once the *)
(* library has written over its data.  The element lists themselves are in *)
(* VMHeap; here a request either fits into the pages of the thread or      *)
(* needs one page more.  SIGPROF is blocked in myallocate, which is one    *)
(* step; it is not blocked in the SIGSEGV handler.                         *)
(***************************************************************************)
EXTENDS Integers, FiniteSetsExt

CONSTANTS
  NThreads,        \* threads, with ids 1..NThreads; thread 1 is main
  NFrames, NSwap,  \* pages of memory and of the swap file
  MaxPages,        \* bound: pages a thread asks for
  Requests,        \* what programs do: "create", "malloc", "grow", "os"
  PreemptHandler   \* whether SIGPROF strikes in the SIGSEGV handler

ASSUME PageCounts == {NThreads, NFrames, NSwap, MaxPages} \subseteq Nat \ {0}
ASSUME PageRequests == Requests \subseteq {"create", "malloc", "grow", "os"}
ASSUME PagePreempt == PreemptHandler \in BOOLEAN

Pid == 1..NThreads
Frame == 1..NFrames
NULL == 0

VARIABLES
  page,       \* the page table: a SpaceNode and the contents of each frame
  swap,       \* the same for the swap file
  protected,  \* the frames with PROT_NONE
  running, created,
  given,      \* how many pages each thread was given
  faulting,   \* the thread in the handler, NULL for inHandler = 0
  clean,      \* pages have been loaded since the last thread was created
  status

vars == <<page, swap, protected, running, created, given, faulting, clean, status>>

Contents == [pid : 0..NThreads, no : Nat, raw : BOOLEAN, torn : BOOLEAN]
SpaceNode == [free : BOOLEAN, pid : 0..NThreads, order : Int,
              dataStartsAnotherPage : BOOLEAN, swapclock : Nat, data : Contents]

\* Type correctness of the page table, the swap file and the protection.
TypeOK ==
  /\ page \in [Frame -> SpaceNode] /\ swap \in [1..NSwap -> SpaceNode]
  /\ protected \subseteq Frame /\ running \in Pid /\ created \subseteq Pid
  /\ given \in [Pid -> Nat] /\ faulting \in Pid \union {NULL}
  /\ clean \in BOOLEAN /\ status \in {"ok", "dead"}

Data(pid, no) == [pid |-> pid, no |-> no, raw |-> FALSE, torn |-> FALSE]
Holds(node, pid, no) == node.data.pid = pid /\ node.data.no = no

FreeNode(order) ==
  [free |-> TRUE, pid |-> 0, order |-> order, dataStartsAnotherPage |-> FALSE,
   swapclock |-> 0, data |-> Data(0, 0)]

Init ==
  /\ page = [f \in Frame |-> IF f > 1 THEN FreeNode(1) ELSE
               [FreeNode(1) EXCEPT !.free = FALSE, !.pid = 1, !.data = Data(1, 1)]]
  /\ swap = [s \in 1..NSwap |-> FreeNode(0)]
  /\ protected = {} /\ running = 1 /\ created = {1}
  /\ given = [p \in Pid |-> IF p = 1 THEN 1 ELSE 0]
  /\ faulting = NULL /\ clean = TRUE /\ status = "ok"

-----------------------------------------------------------------------------
\* The operators below compute on page tables.

\* restoreElementsPointers writes element headers into a page, also into one
\* that holds data of an element that starts on another page.
Restored(node) == [node EXCEPT !.data.torn = @ \/ node.data.raw]

swapPages(table, f, g) ==
  IF f = g THEN table
  ELSE [table EXCEPT ![f] = Restored(table[g]), ![g] = Restored(table[f])]

findPage(table, pid, order) ==
  LET found == {f \in Frame : table[f].pid = pid /\ table[f].order = order}
  IN  IF found = {} THEN NULL ELSE Min(found)

\* The pages 1, 2, ... of pid up to the first that is not in memory: what a
\* loop over findPage sees.  findPage clears their swapclock.
LastOrder(table, pid) ==
  Max({k \in 0..NFrames : \A i \in 1..k : findPage(table, pid, i) # NULL})
Found(table, pid) == {findPage(table, pid, k) : k \in 1..LastOrder(table, pid)}
Seen(table, pid) ==
  [f \in Frame |-> IF f \in Found(table, pid)
                   THEN [table[f] EXCEPT !.swapclock = 0] ELSE table[f]]

\* loadProcessPages: page 1 goes to frame 1, page k+1 into the frame behind the
\* one in which page k was found.  ok is FALSE where the code dereferences NULL:
\* page 1 is not in memory, or there is no frame behind.  touched are the frames
\* swapPages reads and writes.
Touched(f, g) == IF f = g THEN {} ELSE {f, g}

\* NotMoved: mutant, the other pages stay where they are.
NotMoved(old, p2) == [old EXCEPT !.p1 = p2]
makeContiguous(old, p2) ==
  IF old.p1 = p2 THEN old
  ELSE IF old.p1 = NFrames THEN [old EXCEPT !.ok = FALSE]
  ELSE [old EXCEPT !.table = swapPages(old.table, old.p1 + 1, p2), !.p1 = p2,
                   !.touched = @ \union Touched(old.p1 + 1, p2)]

loadProcessPages(table, pid) ==
  LET last == LastOrder(table, pid)
      load[k \in 1..last] ==
        IF k = 1
        THEN [table |-> swapPages(Seen(table, pid), 1, findPage(table, pid, 1)),
              p1 |-> 1, ok |-> TRUE, touched |-> Touched(1, findPage(table, pid, 1))]
        ELSE CHOOSE new \in {makeContiguous(old, findPage(old.table, pid, k)) :
                               old \in {load[k-1]}} : TRUE
  IN  IF last = 0
      THEN [table |-> table, p1 |-> NULL, ok |-> FALSE, touched |-> {}]
      ELSE load[last]

\* getVictimPage: from the last frame down to one that is not pid's or whose
\* swapclock reached 3; NULL where it runs over the first frame.
getVictimPage(table, pid) ==
  LET stops == {f \in Frame : \/ table[f].pid # pid
                              \/ table[f].swapclock + (IF f < NFrames THEN 1 ELSE 0) >= 3}
  IN  IF stops = {} THEN NULL ELSE Max(stops)

\* The frames the walk to the victim v passes.
Walked(table, v) ==
  [f \in Frame |-> IF f >= v /\ f < NFrames
                   THEN [table[f] EXCEPT !.swapclock = @ + 1] ELSE table[f]]

\* movePageToSwap.  The frame that is freed keeps its order and its flag.
\* NotWritten: mutant, the page is not copied into the swap file.
NotWritten(file, node) == file
writeSwap(file, node) ==
  LET s == Min({i \in 1..NSwap : file[i].free})
  IN  [file EXCEPT ![s] = [node EXCEPT !.free = FALSE, !.swapclock = file[s].swapclock]]

movePageToSwap(table, file, pid) ==
  LET v == getVictimPage(table, pid)
      walked == Walked(table, v)
  IN  IF v = NULL THEN [table |-> table, file |-> file, res |-> "crash"]
      ELSE IF \A i \in 1..NSwap : ~file[i].free
      THEN [table |-> walked, file |-> file, res |-> "full"]
      ELSE [table |-> [walked EXCEPT ![v].free = TRUE, ![v].pid = 0, ![v].data = Data(0, 0)],
            file |-> writeSwap(file, table[v]), res |-> "ok"]

\* getFreePage: the first free frame, after an eviction when there is none, is
\* given to pid and swapped with frame 1.
getFreePage(table, file, pid) ==
  LET full == \A f \in Frame : ~table[f].free
      m == IF full THEN movePageToSwap(table, file, pid)
           ELSE [table |-> table, file |-> file, res |-> "ok"]
      n == Min({f \in Frame : m.table[f].free})
      taken == [m.table EXCEPT ![n].free = FALSE, ![n].pid = pid,
                               ![n].data = Data(pid, given[pid] + 1)]
  IN  IF m.res # "ok" THEN m ELSE [m EXCEPT !.table = swapPages(taken, 1, n)]

\* joinFreeSpace: the new page continues the last element of the thread's last
\* page when that page has a list of its own and the element is free.
Joins(table, pid, tailFree) ==
  /\ tailFree
  /\ ~table[findPage(table, pid, LastOrder(table, pid))].dataStartsAnotherPage

-----------------------------------------------------------------------------
Calling(request) == status = "ok" /\ request \in Requests /\ faulting # running

\* The page table after a load, or the end of the process.
Loaded(m) ==
  /\ page' = m.table /\ clean' = TRUE
  /\ status' = IF m.ok THEN "ok" ELSE "dead"

\* malloc that fits: memoryAllowAll, getFreeElement.
Malloc ==
  /\ Calling("malloc")
  /\ protected' = {}
  /\ \E load \in {loadProcessPages(page, running)} : Loaded(load)
  /\ UNCHANGED <<swap, running, created, given, faulting>>

\* malloc that does not fit: getFreeElement loads the pages, reserveAnotherPage
\* gets one and numbers it, and getFreeElement starts again.
NumberedPage(table, joins) ==
  [table EXCEPT ![1].order = LastOrder(table, running) + 1,
                ![1].dataStartsAnotherPage = @ \/ joins]

\* From now on the element is in use and its data lies on the page.
InUse(table, joins) ==
  [f \in Frame |-> IF joins /\ Holds(table[f], running, given[running] + 1)
                   THEN [table[f] EXCEPT !.data.raw = TRUE] ELSE table[f]]

Grow ==
  /\ Calling("grow") /\ given[running] < MaxPages
  /\ protected' = {}
  /\ UNCHANGED <<running, created, faulting>>
  /\ \E first \in {loadProcessPages(page, running)} :
     \E got \in {getFreePage(first.table, swap, running)} :
     \E new \in {[got.table EXCEPT ![1].order = -1]} :
       \/ /\ ~first.ok
          /\ Loaded(first) /\ UNCHANGED <<swap, given>>
       \/ /\ first.ok /\ got.res = "full"     \* malloc returns NULL
          /\ Loaded([first EXCEPT !.table = got.table]) /\ UNCHANGED <<swap, given>>
       \/ /\ first.ok /\ got.res = "crash"
          /\ status' = "dead" /\ UNCHANGED <<page, swap, given, clean>>
       \/ /\ first.ok /\ got.res = "ok"
          /\ \E joins \in {Joins(new, running, tailFree) : tailFree \in BOOLEAN} :
             \E second \in {loadProcessPages(NumberedPage(new, joins), running)} :
             \E third \in {loadProcessPages(second.table, running)} :
               Loaded([third EXCEPT !.table = InUse(third.table, joins),
                                    !.ok = @ /\ second.ok])
          /\ swap' = got.file
          /\ given' = [given EXCEPT ![running] = @ + 1]

\* An allocation for the library itself, or shalloc: memoryAllowAll.
OsAllocate ==
  /\ Calling("os")
  /\ protected' = {}
  /\ UNCHANGED <<page, swap, running, created, given, faulting, clean, status>>

\* createNewThread: the request for a page of the new thread.  A NULL is not
\* looked at.
Create ==
  /\ Calling("create")
  /\ protected' = {} /\ clean' = FALSE
  /\ \E pid \in {Max(created) + 1} \intersect Pid :
     \E got \in {getFreePage(page, swap, pid)} :
       /\ created' = created \union {pid}
       /\ page' = got.table /\ swap' = got.file
       /\ given' = IF got.res = "ok" THEN [given EXCEPT ![pid] = 1] ELSE given
       /\ status' = IF got.res = "crash" THEN "dead" ELSE "ok"
  /\ UNCHANGED <<running, faulting>>

\* A thread touches one of its pages while the frame is protected: SIGSEGV.
\* A fault of a second thread while the first is in the handler ends the
\* process, as does a missing page.
Fault ==
  /\ status = "ok" /\ faulting # running
  /\ \E k \in 1..given[running] : k \in protected
  /\ IF faulting # NULL
     THEN status' = "dead" /\ UNCHANGED <<protected, faulting, clean>>
     ELSE /\ faulting' = running /\ protected' = {} /\ clean' = FALSE
          /\ UNCHANGED status
  /\ UNCHANGED <<page, swap, running, created, given>>

\* SIGSEGV is blocked here: touching a frame that was protected again, by a
\* switch since memoryAllowAll, ends the process.
HandlerLoads ==
  /\ status = "ok" /\ faulting = running
  /\ \E load \in {loadProcessPages(page, running)} :
       Loaded([load EXCEPT !.ok = @ /\ load.touched \intersect protected = {}])
  /\ faulting' = NULL
  /\ UNCHANGED <<swap, protected, running, created, given>>

\* virtualMemory and the choice of another thread, wherever the library
\* switches contexts.
\* OnlyLater, Behind: mutants, the loop starts behind the first page, or protects
\* the frame behind each page.
Behind(pid) == {f + 1 : f \in Found(page, pid)}
OnlyLater(pid) == Found(page, pid) \ {findPage(page, pid, 1)}
memoryProtect(pid) == Found(page, pid)

Switch ==
  /\ status = "ok" /\ (faulting = running => PreemptHandler)
  /\ \E next \in created \ {running} : running' = next
  /\ protected' = protected \union memoryProtect(running)
  /\ page' = Seen(page, running)
  /\ UNCHANGED <<swap, created, given, faulting, clean, status>>

Ended == status = "dead" /\ UNCHANGED vars

Next == \/ Malloc \/ Grow \/ OsAllocate \/ Create
        \/ Fault \/ HandlerLoads \/ Switch \/ Ended

Spec == Init /\ [][Next]_vars

-----------------------------------------------------------------------------
\* The frames in which page no of pid is, in memory and in the swap file.
Copies(pid, no) ==
  {<<"memory", f>> : f \in {g \in Frame : Holds(page[g], pid, no)}} \union
  {<<"swap", s>> : s \in {t \in 1..NSwap : Holds(swap[t], pid, no)}}


\* The protection that a switch leaves behind does its work for the first page:
\* after a load and until the next creation of a thread, frame 1 either faults
\* or holds the first page of the running thread (memoryProtect, handler).
\* Docs/assignment2:34: "your memory manager will only get a signal when a thread
\* tries to access a memory location that once held one of its pages, but now
\* holds another thread's data".
FirstPageGuarded ==
  status = "ok" /\ clean /\ faulting = NULL /\ given[running] > 0 =>
    1 \in protected \/ Holds(page[1], running, 1)

\* The same for every page of the running thread: "Whenever it decides to swap
\* out the current content, it should mprotect all that context's memory pages."
\* (Docs/assignment2:34)  Not so: see README.
PagesGuarded ==
  status = "ok" /\ clean /\ faulting = NULL =>
    \A k \in 1..given[running] : k \in protected \/ Holds(page[k], running, k)

\* "allocate extra pages as needed and make them contiguous" (readme:35): when
\* the first page of the running thread is in place, so are the others.
Contiguous ==
  status = "ok" /\ clean /\ faulting = NULL /\ Holds(page[1], running, 1) =>
    \A k \in 1..given[running] : Holds(page[k], running, k)


\* "If that page has been moved, it will try to access an address that it does
\* not currently own" (Docs/assignment2:34) and gets a signal: an access that
\* gets none meets the thread's own page, also after my_pthread_create.
OwnPages ==
  status = "ok" /\ faulting # running =>
    \A k \in 1..given[running] : k \in protected \/ Holds(page[k], running, k)

\* "swaps pages p1 and p2" (vm.c:382): an exchange changes where a page is and
\* not what the thread stored in it.  Not so: see README.
DataIntact == \A f \in Frame : ~page[f].data.torn

\* "reserve a page to a thread with id request" (vm.c:1082): the page a new
\* thread gets is the one that findPage(pid, 1) finds.  Not so: see README.
FirstPageFound ==
  status = "ok" => \A f \in Frame, pid \in Pid :
    Holds(page[f], pid, 1) /\ pid # 1 => findPage(page, pid, 1) = f
=============================================================================
