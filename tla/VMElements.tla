----------------------------- MODULE VMElements -----------------------------
(***************************************************************************)
(* malloc and free of one thread: the element lists of VMHeap inside the   *)
(* pages of VMPages.  The thread sees page k at the addresses from         *)
(* PageStart(k); getFreeElement searches the lists of all pages, and takes *)
(* another page, which may be joined to the last free element, when        *)
(* nothing fits.                                                           *)
(*                                                                         *)
(* The other threads appear only in what they do to these pages: they push *)
(* them out of their frames, and moving a page rebuilds its element list   *)
(* from the sizes in the headers (restorePointers).  Which pages are where *)
(* is the subject of VMPages; REGION is the size of a page here.           *)
(***************************************************************************)
EXTENDS VMHeap, FiniteSetsExt

CONSTANTS
  MaxPages,   \* pages the thread can get until getFreePage returns NULL
  Workloads   \* what a program does: its request sizes, whether it calls free,
              \* how many elements it holds, whether other threads run

ASSUME ElementPages == MaxPages \in Nat \ {0}
ASSUME ElementLoads ==
  Workloads \subseteq [sizes : SUBSET Sizes, free : BOOLEAN, held : Nat, others : BOOLEAN]

VARIABLES
  pages,    \* how many pages the thread has
  raw,      \* those with dataStartsAnotherPage
  want,     \* the request of the getFreeElement that is running, or NULL
  load,     \* the workload
  peak      \* history: the pages that held the elements wanted at a time, one by one

evars == <<node, owned, calls, status, pages, raw, want, load, peak>>

\* Type correctness of the thread's pages and lists.
ElementsTypeOK ==
  /\ TypeOK
  /\ pages \in 1..MaxPages /\ raw \subseteq 1..pages
  /\ want \in Sizes \union {NULL} /\ load \in Workloads /\ peak \in Nat

PageStart(k) == (k - 1) * REGION
\* A joined page starts with data, or with the header it had when it was taken.
Heads == {PageStart(k) : k \in (1..pages) \ raw}

\* initializeSpace(n, REGION)
FirstHeader == [free |-> TRUE, size |-> REGION - HEADER, next |-> NULL, prev |-> NULL]

ElementsInit ==
  /\ Init
  /\ pages = 1 /\ raw = {} /\ want = NULL /\ load \in Workloads /\ peak = 0

-----------------------------------------------------------------------------
Places(nodes, k) ==
  LET lo == PageStart(k)
      at[i \in 0..REGION] ==
        IF i = 0 THEN lo
        ELSE LET a == at[i-1]
             IN  IF a \in DOMAIN nodes THEN a + HEADER + nodes[a].size ELSE a
  IN  {at[i] : i \in {j \in 0..REGION : REGION - (at[j] - lo) > HEADER}}

\* The loop reads and writes a header at each place.  A place without one lies in
\* the data of an element or in a gap between two.
Whole(nodes, k) == Places(nodes, k) \subseteq DOMAIN nodes

restorePointers(nodes, k) ==
  LET places == Places(nodes, k)
      Behind(a) == a + HEADER + nodes[a].size
      before == [b \in places |-> {a \in places : Behind(a) = b}]
  IN  [a \in DOMAIN nodes |->
         IF a \notin places THEN nodes[a]
         ELSE [nodes[a] EXCEPT
                 !.next = IF Behind(a) \in places THEN Behind(a) ELSE NULL,
                 !.prev = IF before[a] = {} THEN NULL ELSE Max(before[a])]]

-----------------------------------------------------------------------------
Running == status = "ok" /\ want = NULL

\* Another thread with j pages or more ran: pages 1..j were moved out of their
\* frames, and back when this thread was loaded again (swapPages).
OthersRun(j) ==
  LET moved[k \in 0..j] == IF k = 0 THEN node ELSE restorePointers(moved[k-1], k)
  IN
  /\ Running /\ load.others
  /\ IF \A k \in 1..j : Whole(node, k)
     THEN node' = moved[j] /\ UNCHANGED status
     ELSE status' = "wild" /\ UNCHANGED node
  /\ UNCHANGED <<owned, calls, pages, raw, want, load, peak>>

\* malloc calls getFreeElement.
PagesFor(size) == (HEADER + size + REGION - 1) \div REGION

Malloc(size) ==
  /\ Running /\ calls < MaxCalls /\ calls' = calls + 1
  /\ size \in load.sizes /\ Cardinality(owned) < load.held
  /\ want' = size
  /\ peak' = Max({peak, PagesFor(size) + MapThenSumSet(LAMBDA n : PagesFor(node[n].size), owned)})
  /\ UNCHANGED <<node, owned, status, pages, raw, load>>

\* The search of getFreeElement: the list of page 1, then what is at the start of
\* page 2, 3, ... as long as nothing fits.
\* FirstOnly: mutant, only the first page is searched.
FirstOnly(k, n) == k = 1 /\ findFreeSpace(PageStart(k), n, want)
FoundOn(k, n) == findFreeSpace(PageStart(k), n, want)

\* The list of page k leads to a place without a header.
Strays(k) == \E i \in 0..MaxList : LET a == ListFrom(node, PageStart(k))[i]
                                    IN  a # NULL /\ a \notin DOMAIN node
Searched(k) == \A i \in 1..(k-1) : ~Strays(i) /\ \A a \in DOMAIN node : ~FoundOn(i, a)

getFreeElement(k, n) ==
  /\ status = "ok" /\ want # NULL
  /\ Searched(k) /\ FoundOn(k, n)
  /\ createSpace(Heads, n, want)
  /\ owned' = owned \union {n} /\ want' = NULL
  /\ UNCHANGED <<calls, pages, raw, load, peak>>

NothingFits ==
  /\ status = "ok" /\ want # NULL
  /\ \A k \in 1..pages, n \in DOMAIN node : ~(Searched(k) /\ FoundOn(k, n))

\* joinFreeSpace: e is the last element of the thread's last page.
Joined(nodes, e) == [nodes EXCEPT ![e].size = @ + REGION]

\* reserveAnotherPage, after which getFreeElement starts again.  getFreePage
\* puts the new page into frame 1, so that page 1 is moved away and back.
reserveAnotherPage ==
  LET new == pages + 1
      first == IF Whole(node, 1) THEN restorePointers(node, 1) ELSE node
      list == ListFrom(first, PageStart(pages))
      e == list[Max({i \in 0..MaxList : list[i] # NULL})]
      joins == pages \notin raw /\ first[e].free
      joined == IF joins THEN Joined(first, e) ELSE first
  IN
  /\ NothingFits /\ pages < MaxPages /\ \A k \in 1..pages : ~Strays(k)
  /\ node' = [a \in DOMAIN node \union {PageStart(new)} |->
               IF a = PageStart(new) THEN FirstHeader ELSE joined[a]]
  /\ pages' = new /\ raw' = IF joins THEN raw \union {new} ELSE raw
  /\ status' = IF Whole(node, 1) THEN "ok" ELSE "wild"
  /\ UNCHANGED <<owned, calls, want, load, peak>>

\* No page is left: malloc returns NULL.  A search that strayed ends anywhere.
MallocFails ==
  /\ NothingFits /\ (pages = MaxPages \/ \E k \in 1..pages : Strays(k))
  /\ status' = IF \E k \in 1..pages : Strays(k) THEN "wild" ELSE "ok"
  /\ want' = NULL
  /\ UNCHANGED <<node, owned, calls, pages, raw, load, peak>>

Free(n) ==
  /\ Running /\ load.free
  /\ mydeallocate(n)
  /\ UNCHANGED <<pages, raw, want, load, peak>>

\* The program makes no more calls, or its lists and its data collided.
Finished == (status = "wild" \/ want = NULL) /\ UNCHANGED evars

ElementsNext ==
  \/ \E j \in 1..pages : OthersRun(j)
  \/ \E size \in Sizes : Malloc(size)
  \/ \E k \in 1..pages, n \in DOMAIN node : getFreeElement(k, n)
  \/ reserveAnotherPage \/ MallocFails
  \/ \E n \in owned : Free(n)
  \/ Finished

ElementsSpec == ElementsInit /\ [][ElementsNext]_evars

-----------------------------------------------------------------------------
\* The thread keeps to its own pages: neither an element it was given nor a
\* header of its lists reaches beyond its last page, into the frame of another
\* thread (createSpace, joinFreeSpace).
InPages ==
  /\ \A a \in DOMAIN node : a + HEADER <= pages * REGION
  /\ \A n \in owned : n + HEADER + node[n].size <= pages * REGION


\* free "deallocates" a block "making it available again for further
\* allocations" (vm.h:43): a thread never has more pages than the elements it
\* wanted at one time need when each is given pages of its own.
PagesBounded == pages <= Max({1, peak})
=============================================================================
