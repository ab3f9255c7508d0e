----------------------------- MODULE LinkedList -----------------------------
(***************************************************************************)
(* The queues of LinkedList.c as sequences of threads: the run queue, the  *)
(* waitJoin queue of a thread and the wait queue of a mutex.  push(l, t)   *)
(* of the source is Append(l, t), front(l) is Head(l), pop(l) returns      *)
(* Head(l) and leaves Tail(l), empty(l) is l = << >>.                      *)
(***************************************************************************)
EXTENDS Integers, SequencesExt

(***************************************************************************)
(* pushOrdered(order, l, t).  `key' is priority for order 0, born (time of *)
(* creation) otherwise.  The loop walks over the leading nodes whose key   *)
(* is at most the new one's; `last' starts at the head, so the new node    *)
(* goes behind the head even when its key is smaller.                      *)
(***************************************************************************)
LastNode(key, l, t) ==
  Max({1} \union {k \in 1..Len(l) : \A j \in 1..k : key[l[j]] <= key[t]})

\* NoFirstNode: mutant, the head of an empty list is not set.
NoFirstNode(key, l, t) ==
  IF l = << >> THEN << >> ELSE InsertAt(l, LastNode(key, l, t) + 1, t)

pushOrdered(key, l, t) ==
  IF l = << >> THEN <<t>> ELSE InsertAt(l, LastNode(key, l, t) + 1, t)

(***************************************************************************)
(* The loop `while (!empty(from)) pushOrdered(order, l, pop(from))', which *)
(* threadExit and my_pthread_mutex_destroy run to wake every waiter and    *)
(* orderByOldest runs to rebuild the run queue.                            *)
(***************************************************************************)
PushAll(key, l, from) ==
  LET f[n \in 0..Len(from)] ==
        IF n = 0 THEN l ELSE pushOrdered(key, f[n-1], from[n])
  IN  f[Len(from)]

\* The list `new' of orderByOldest starts empty here; MyPthread adds the case
\* in which the memory malloc returned for it is not zero.
\* KeepsOrder: mutant, the rebuilt list is not copied back.
KeepsOrder(born, l) == l
orderByOldest(born, l) == PushAll(born, << >>, l)
=============================================================================
