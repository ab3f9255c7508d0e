------------------------------- MODULE VMHeap -------------------------------
(***************************************************************************)
(* The lists of variable-size elements of vm.c, as in the OS region of the *)
(* memory and in the shared region: a SpaceNode header in front of every   *)
(* element, first fit, split on allocation, merge on release.              *)
(*                                                                         *)
(* An address is an offset into the region.  A header that was merged away *)
(* is not erased: it can still be read until a client or a new header is   *)
(* written over it.  A behaviour ends with status "wild" when the list and *)
(* a client's memory collide.                                              *)
(***************************************************************************)
EXTENDS Integers

CONSTANTS
  HEADER,   \* sizeof(SpaceNode)
  REGION,   \* the bytes of a chunk of the region
  Chunks,   \* free chunks at the start: 1 in the OS region, 4 pages for shalloc
  Sizes,    \* the sizes that are asked for
  MayFree,  \* whether clients call mydeallocate
  MaxCalls  \* bound: calls

ASSUME HeapSizes == HEADER \in Nat \ {0} /\ REGION \in Nat /\ REGION > HEADER
ASSUME HeapChunks == Chunks \in Nat \ {0}
ASSUME HeapRequests == Sizes \subseteq Nat
ASSUME HeapCalls == MayFree \in BOOLEAN /\ MaxCalls \in Nat

NULL == -1

VARIABLES
  node,     \* the headers in memory, by address
  owned,    \* headers of the elements clients hold (ptr - HEADER)
  calls, status

vars == <<node, owned, calls, status>>

Header == [free : BOOLEAN, size : Nat, next : Int, prev : Int]

\* Type correctness: elements in use have a header.
TypeOK ==
  /\ DOMAIN node \subseteq Nat /\ \A a \in DOMAIN node : node[a] \in Header
  /\ owned \subseteq DOMAIN node
  /\ calls \in 0..MaxCalls /\ status \in {"ok", "wild"}

\* The bytes of the element at a, its header included.
HeaderBytes(a) == a..(a + HEADER - 1)
Bytes(a) == a..(a + HEADER + node[a].size - 1)
Foreign(a, n) == \E o \in owned \ {n} : HeaderBytes(a) \intersect Bytes(o) # {}

\* init() for the OS region, initializeFreePages for the shared one.
Starts == {i * REGION : i \in 0..(Chunks - 1)}
Init ==
  /\ node = [a \in Starts |->
               [free |-> TRUE, size |-> REGION - HEADER,
                next |-> IF a + REGION \in Starts THEN a + REGION ELSE NULL,
                prev |-> IF a = 0 THEN NULL ELSE a - REGION]]
  /\ owned = {} /\ calls = 0 /\ status = "ok"

-----------------------------------------------------------------------------
\* The k-th header of the list that starts at s, NULL behind its end.
ListFrom(nodes, s) ==
  [k \in Nat |->
     LET at[i \in 0..k] ==
           IF i = 0 THEN s
           ELSE LET a == at[i-1] IN IF a \in DOMAIN nodes THEN nodes[a].next ELSE NULL
     IN  at[k]]

\* No list is longer.
MaxList == MaxCalls + Chunks

InList(s, a) == \E k \in 0..MaxList : ListFrom(node, s)[k] = a

\* HeaderToo: mutant, the space of the header is offered to the client as well.
HeaderToo(n, size) == n # NULL /\ node[n].free /\ node[n].size + HEADER >= size
Fits(n, size) == n # NULL /\ node[n].free /\ node[n].size >= size

\* findFreeSpace(s, size) returns n: the first element of the list that fits.
findFreeSpace(s, n, size) ==
  \E k \in 0..MaxList :
    /\ n = ListFrom(node, s)[k] /\ Fits(n, size)
    /\ \A i \in 0..(k-1) : /\ ListFrom(node, s)[i] # NULL
                           /\ ~Fits(ListFrom(node, s)[i], size)

\* createSpace(n, size).  The rest becomes an element behind the new one when
\* it is larger than a header; its size is not reduced by its header, and the
\* element that follows keeps n as its predecessor.
\* Backwards, TooFar: mutants, the new header is placed with `- size', or counts
\* the header of n twice.
Backwards(n, size) == n + HEADER - size
TooFar(n, size) == n + 2 * HEADER + size
NewPos(n, size) == n + HEADER + size

\* The client may write into its element at any time, so the headers that were
\* left in it are gone; one there that is still in a list, of those that start
\* at heads, is a collision.
createSpace(heads, n, size) ==
  LET restSize == node[n].size - size
      newPos == NewPos(n, size)
      new == [free |-> TRUE, size |-> restSize, next |-> node[n].next, prev |-> n]
      rest == IF restSize > HEADER THEN {newPos} ELSE {}
      written == n..(newPos + (IF rest = {} THEN 0 ELSE HEADER) - 1)
      lost == {a \in DOMAIN node \ {n} : HeaderBytes(a) \intersect written # {}}
  IN
  /\ node' = [a \in (DOMAIN node \ lost) \union rest |->
               IF a \in rest THEN new
               ELSE IF a = n THEN
                 [free |-> FALSE, size |-> size, prev |-> node[n].prev,
                  next |-> IF rest = {} THEN node[n].next ELSE newPos]
               ELSE node[a]]
  /\ status' = IF \/ \E o \in owned : Bytes(o) \intersect written # {}
                  \/ \E a \in lost, s \in heads : InList(s, a)
               THEN "wild" ELSE "ok"

\* myallocate for the operating system (OSREQ) and getFreeElementFrom.
myallocate(size) ==
  /\ status = "ok" /\ calls < MaxCalls /\ calls' = calls + 1
  /\ \E n \in DOMAIN node :
       /\ findFreeSpace(0, n, size)
       /\ createSpace({0}, n, size)
       /\ owned' = owned \union {n}

\* Nothing fits: NULL.
AllocationFails(size) ==
  /\ status = "ok" /\ calls < MaxCalls /\ calls' = calls + 1
  /\ \A n \in DOMAIN node : ~findFreeSpace(0, n, size)
  /\ UNCHANGED <<node, owned, status>>

\* MergesTaken: mutant, the free flag of the element behind is not read.
MergesTaken(a, n, b) ==
  IF b = NULL THEN [node EXCEPT ![n].free = TRUE]
  ELSE [node EXCEPT ![n].free = TRUE, ![n].size = node[b].size + HEADER,
                    ![n].next = node[b].next]

\* StaysTaken: mutant, the free flag is not set.
StaysTaken(a, n, b) == node

\* removeSpace(n + HEADER, ELEMENT).  A merge forgets the size of the element
\* it extends, and the predecessor of the element behind is not changed.
Merged(a, n, b) ==
  LET freed == [node EXCEPT ![n].free = TRUE]
      aFree == a # NULL /\ node[a].free
      bFree == b # NULL /\ node[b].free
  IN
  IF aFree /\ bFree
  THEN [freed EXCEPT ![a].size = node[n].size + node[b].size + 2 * HEADER,
                     ![a].next = node[b].next]
  ELSE IF aFree
  THEN [freed EXCEPT ![a].size = node[n].size + HEADER, ![a].next = b]
  ELSE IF bFree
  THEN [freed EXCEPT ![n].size = node[b].size + HEADER, ![n].next = node[b].next]
  ELSE freed

mydeallocate(n) ==
  LET a == node[n].prev
      b == node[n].next
      bad == \E x \in {a, b} \ {NULL} :
               x \notin DOMAIN node \/ (x \notin owned /\ Foreign(x, n))
  IN
  /\ status = "ok" /\ MayFree /\ calls < MaxCalls /\ calls' = calls + 1
  /\ owned' = owned \ {n}
  /\ node' = IF bad THEN node ELSE Merged(a, n, b)
  /\ status' = IF bad THEN "wild" ELSE "ok"

\* No more calls, or the list is in a client's memory.
Stopped == (status = "wild" \/ calls = MaxCalls) /\ UNCHANGED vars

Next ==
  \/ \E size \in Sizes : myallocate(size) \/ AllocationFails(size)
  \/ \E n \in owned : mydeallocate(n)
  \/ Stopped

Spec == Init /\ [][Next]_vars

-----------------------------------------------------------------------------
\* Two clients never share a byte: the elements that are held, with the headers
\* in front of them, do not overlap, however requests of different sizes are
\* mixed, and the list never writes into them.
Disjoint ==
  /\ status = "ok"
  /\ \A n, o \in owned : n # o => Bytes(n) \intersect Bytes(o) = {}

\* "Allocates a block of size bytes of memory" (vm.h:30): the bytes a client
\* was given lie in the region the list manages.  Not so: see README.
InRegion == \A n \in owned : n + HEADER + node[n].size <= Chunks * REGION
=============================================================================
