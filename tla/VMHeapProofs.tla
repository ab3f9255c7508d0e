---------------------------- MODULE VMHeapProofs ----------------------------
(***************************************************************************)
(* Elements never overlap as long as none is released, for every size of   *)
(* the header and the region and every set of request sizes.               *)
(***************************************************************************)
EXTENDS VMHeap, TLAPS

(***************************************************************************)
(* The inductive invariant.  Every element ends before the next header,    *)
(* and only the last one may be free: without the second part nothing says *)
(* that the rest of a split, which claims HEADER bytes too many, has no    *)
(* element behind it to run into.                                          *)
(***************************************************************************)
HeapInv ==
  /\ TypeOK /\ status = "ok"
  /\ \A a \in owned : ~node[a].free
  /\ \A a, b \in DOMAIN node :
       a < b => a + HEADER + node[a].size <= b /\ ~node[a].free

\* The OS region before the first myallocate satisfies the invariant.
LEMMA HeapInvInit == ASSUME Chunks = 1 PROVE Init => HeapInv
<1>1. Starts = {0}
  <2>1. 0..(Chunks - 1) = {0} OBVIOUS
  <2>2. 0 * REGION = 0 BY HeapSizes
  <2> QED BY <2>1, <2>2 DEF Starts
<1> SUFFICES ASSUME Init PROVE HeapInv
  OBVIOUS
<1>2. /\ DOMAIN node = {0}
      /\ node[0] = [free |-> TRUE, size |-> REGION - HEADER, next |-> NULL, prev |-> NULL]
  <2>1. 0 + REGION \notin {0} BY HeapSizes
  <2>2. DOMAIN node = {0} BY <1>1 DEF Init
  <2>3. node[0] = [free |-> TRUE, size |-> REGION - HEADER,
                   next |-> IF 0 + REGION \in {0} THEN 0 + REGION ELSE NULL,
                   prev |-> IF 0 = 0 THEN NULL ELSE 0 - REGION]
    BY <1>1 DEF Init
  <2> QED BY <2>1, <2>2, <2>3
<1>3. node[0] \in Header
  BY <1>2, HeapSizes DEF Header, NULL
<1>4. TypeOK
  <2>1. DOMAIN node \subseteq Nat /\ \A a \in DOMAIN node : node[a] \in Header
    <3>1. DOMAIN node = {0} BY <1>2
    <3> QED BY <3>1, <1>3
  <2>2. owned = {} /\ calls = 0 /\ status = "ok"
    BY DEF Init
  <2> QED BY <2>1, <2>2, HeapCalls DEF TypeOK
<1>5. \A a, b \in DOMAIN node : ~(a < b)
  BY <1>2
<1> QED BY <1>4, <1>5 DEF Init, HeapInv

\* An allocation keeps the invariant: the element it takes is the last one, so
\* neither the element nor the header behind it is written over another.
LEMMA AllocationKeeps ==
  ASSUME HeapInv, NEW size \in Sizes, myallocate(size)
  PROVE  HeapInv'
<1> USE HeapSizes, HeapRequests, HeapCalls
<1>1. PICK n \in DOMAIN node : /\ findFreeSpace(0, n, size)
                               /\ createSpace({0}, n, size)
                               /\ owned' = owned \union {n}
  BY DEF myallocate
<1>2. n \in Nat /\ node[n] \in Header /\ node[n].free /\ node[n].size >= size
      /\ size \in Nat
  BY <1>1 DEF HeapInv, TypeOK, findFreeSpace, Fits
<1>3. \A a \in DOMAIN node \ {n} : a \in Nat /\ node[a] \in Header
                                   /\ a + HEADER + node[a].size <= n
  BY <1>2 DEF HeapInv, TypeOK
<1>4. n \notin owned /\ owned \subseteq DOMAIN node
  BY <1>2 DEF HeapInv, TypeOK
<1> DEFINE restSize == node[n].size - size
           newPos == n + HEADER + size
           new == [free |-> TRUE, size |-> restSize, next |-> node[n].next, prev |-> n]
           rest == IF restSize > HEADER THEN {newPos} ELSE {}
           written == n..(newPos + (IF rest = {} THEN 0 ELSE HEADER) - 1)
           lost == {a \in DOMAIN node \ {n} : HeaderBytes(a) \intersect written # {}}
           taken == [free |-> FALSE, size |-> size, prev |-> node[n].prev,
                     next |-> IF rest = {} THEN node[n].next ELSE newPos]
<1>5. lost = {}
  BY <1>2, <1>3 DEF HeaderBytes, Header
<1>6. \A o \in owned : Bytes(o) \intersect written = {}
  BY <1>2, <1>3, <1>4 DEF Bytes, Header
<1>7. /\ node' = [a \in DOMAIN node \union rest |->
                   IF a \in rest THEN new ELSE IF a = n THEN taken ELSE node[a]]
      /\ status' = "ok"
  <2> HIDE DEF taken, new
  <2>1. node' = [a \in (DOMAIN node \ lost) \union rest |->
                   IF a \in rest THEN new ELSE IF a = n THEN taken ELSE node[a]]
    BY <1>1 DEF createSpace, NewPos, taken, new
  <2>2. status' = "ok"
    BY <1>1, <1>5, <1>6 DEF createSpace, NewPos
  <2> QED BY <2>1, <2>2, <1>5
<1>8. /\ restSize \in Nat /\ newPos \in Nat /\ newPos > n
      /\ rest \subseteq {newPos} /\ new \in Header /\ taken \in Header
      /\ taken.size = size /\ taken.free = FALSE
  <2>1. restSize \in Nat /\ newPos \in Nat /\ newPos > n /\ rest \subseteq {newPos}
    BY <1>2 DEF Header
  <2>2. new \in Header
    BY <1>2, <2>1 DEF Header
  <2>3. taken \in Header /\ taken.size = size /\ taken.free = FALSE
    <3>1. (IF rest = {} THEN node[n].next ELSE newPos) \in Int
      BY <1>2, <2>1 DEF Header
    <3> HIDE DEF rest, newPos
    <3> QED BY <1>2, <3>1 DEF Header
  <2> QED BY <2>1, <2>2, <2>3
<1> HIDE DEF restSize, newPos, new, rest, taken, lost, written
<1>9. /\ DOMAIN node' = DOMAIN node \union rest
      /\ n \notin rest /\ n \in DOMAIN node'
      /\ \A a \in DOMAIN node' : \/ a = newPos /\ a \in rest /\ node'[a] = new
                                 \/ a = n /\ node'[a] = taken
                                 \/ a \in DOMAIN node \ {n} /\ a < n /\ node'[a] = node[a]
  <2>1. \A a \in DOMAIN node \ {n} : a < n
    BY <1>2, <1>3 DEF Header
  <2>2. DOMAIN node' = DOMAIN node \union rest /\ n \notin rest
    BY <1>2, <1>7, <1>8
  <2>3. \A a \in rest : a = newPos /\ node'[a] = new
    BY <1>7, <1>8
  <2>4. \A a \in DOMAIN node \ {n} : a \notin rest /\ node'[a] = node[a]
    BY <1>2, <1>3, <1>7, <1>8, <2>1
  <2>5. node'[n] = taken
    BY <1>7, <2>2
  <2> QED BY <2>1, <2>2, <2>3, <2>4, <2>5
<1>10. TypeOK'
  <2>1. \A a \in DOMAIN node' : a \in Nat /\ node'[a] \in Header
    BY <1>2, <1>3, <1>8, <1>9
  <2>2. owned' \subseteq DOMAIN node'
    BY <1>1, <1>4, <1>9
  <2>3. calls' \in 0..MaxCalls
    BY DEF myallocate, HeapInv, TypeOK
  <2> QED BY <2>1, <2>2, <2>3, <1>7 DEF TypeOK
<1>11. \A a \in owned' : ~node'[a].free
  <2> SUFFICES ASSUME NEW a \in owned' PROVE ~node'[a].free
    OBVIOUS
  <2>1. CASE a = n BY <2>1, <1>2, <1>8, <1>9
  <2>2. CASE a # n
    <3>1. a \in owned /\ a < n /\ a \in DOMAIN node'
      BY <2>2, <1>1, <1>2, <1>3, <1>4, <1>9 DEF Header
    <3>2. node'[a] = node[a]
      BY <3>1, <1>2, <1>8, <1>9
    <3> QED BY <3>1, <3>2 DEF HeapInv
  <2> QED BY <2>1, <2>2
<1>12. ASSUME NEW a \in DOMAIN node', NEW b \in DOMAIN node', a < b
       PROVE  a + HEADER + node'[a].size <= b /\ ~node'[a].free
  <2>0. a \in Nat /\ b \in Nat
    BY <1>2, <1>3, <1>8, <1>9
  <2>1. CASE a = n
    <3>1. b = newPos BY <2>0, <2>1, <1>2, <1>9, <1>12
    <3>2. node'[a] = taken BY <2>1, <1>2, <1>8, <1>9
    <3> QED BY <2>1, <3>1, <3>2, <1>2, <1>8 DEF newPos
  <2>2. CASE a \in DOMAIN node \ {n} /\ a < n /\ node'[a] = node[a]
    <3>1. a + HEADER + node[a].size <= n /\ ~node[a].free
      BY <2>2, <1>1, <1>2, <1>3 DEF HeapInv
    <3>2. CASE b = newPos \/ b = n
      BY <2>2, <3>1, <3>2, <1>2, <1>3, <1>8 DEF Header
    <3>3. CASE b \in DOMAIN node \ {n}
      BY <2>2, <3>3, <1>12 DEF HeapInv
    <3> QED BY <3>2, <3>3, <1>9
  <2>3. CASE a = newPos
    BY <2>0, <2>3, <1>2, <1>8, <1>9, <1>12
  <2> QED BY <2>1, <2>2, <2>3, <1>9
<1> QED BY <1>7, <1>10, <1>11, <1>12 DEF HeapInv

\* Without a call to mydeallocate, every step keeps the invariant.
LEMMA HeapInvNext ==
  ASSUME ~MayFree PROVE HeapInv /\ [Next]_vars => HeapInv'
<1> SUFFICES ASSUME HeapInv, [Next]_vars PROVE HeapInv'
  OBVIOUS
<1> USE HeapCalls
<1>1. ASSUME NEW size \in Sizes, myallocate(size) PROVE HeapInv'
  BY <1>1, AllocationKeeps
<1>2. ASSUME NEW size \in Sizes, AllocationFails(size) PROVE HeapInv'
  BY <1>2 DEF AllocationFails, HeapInv, TypeOK
<1>3. ASSUME NEW n \in owned, mydeallocate(n) PROVE HeapInv'
  BY <1>3 DEF mydeallocate
<1>4. CASE UNCHANGED vars
  BY <1>4 DEF vars, HeapInv, TypeOK
<1> QED BY <1>1, <1>2, <1>3, <1>4 DEF Next, Stopped

\* An element that is held ends before the next one begins.
LEMMA HeapInvDisjoint == HeapInv => Disjoint
<1> SUFFICES ASSUME HeapInv, NEW n \in owned, NEW o \in owned, n < o \/ o < n
             PROVE  Bytes(n) \intersect Bytes(o) = {}
  BY DEF HeapInv, TypeOK, Disjoint
<1> USE HeapSizes
<1>1. n \in Nat /\ o \in Nat /\ node[n] \in Header /\ node[o] \in Header
      /\ n \in DOMAIN node /\ o \in DOMAIN node
  BY DEF HeapInv, TypeOK
<1>2. \/ n + HEADER + node[n].size <= o
      \/ o + HEADER + node[o].size <= n
  BY <1>1 DEF HeapInv
<1> QED BY <1>1, <1>2 DEF Bytes, Header

\* myallocate and createSpace of vm.c never hand out a byte twice: in every
\* behaviour without mydeallocate the elements held do not overlap, whatever
\* sizes are asked for and however large the region is.
THEOREM AllocationsDisjoint ==
  ASSUME ~MayFree, Chunks = 1 PROVE Spec => []Disjoint
<1>1. Init => HeapInv BY HeapInvInit
<1>2. HeapInv /\ [Next]_vars => HeapInv' BY HeapInvNext
<1>3. HeapInv => Disjoint BY HeapInvDisjoint
<1> QED BY <1>1, <1>2, <1>3, PTL DEF Spec
=============================================================================
