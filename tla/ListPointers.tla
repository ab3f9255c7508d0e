---------------------------- MODULE ListPointers ----------------------------
(***************************************************************************)
(* LinkedList.c as it works on memory: a list is a struct with the         *)
(* addresses of its last and first node and a count, a node holds a thread *)
(* and the address of the next node.                                       *)
(*                                                                         *)
(* M is the memory: M.lists gives the struct at each address where there   *)
(* is one, M.nodes the nodes, in the order in which newNode allocated      *)
(* them; none is ever released.  GARBAGE is what a word holds that nobody  *)
(* set.  LinkedList has the same operations on sequences.                  *)
(***************************************************************************)
EXTENDS Integers, Sequences

NIL == 0
GARBAGE == -1
Zeroed == [tail |-> NIL, head |-> NIL, nitems |-> 0]

empty(M, l) == M.lists[l].head = NIL
front(M, l) == M.nodes[M.lists[l].head].thread

\* The only node of an empty list: what is in head and nitems does not matter.
FirstNode(M, l, t) ==
  LET n == Len(M.nodes) + 1
  IN  [lists |-> [M.lists EXCEPT ![l] = [tail |-> n, head |-> n, nitems |-> 1]],
       nodes |-> Append(M.nodes, [thread |-> t, next |-> NIL])]

Linked(M, l, last, t) ==
  LET n == Len(M.nodes) + 1
      new == [thread |-> t, next |-> M.nodes[last].next]
  IN  [lists |-> [M.lists EXCEPT ![l] =
         [tail |-> IF new.next = NIL THEN n ELSE @.tail,
          head |-> IF new.next = @.head THEN n ELSE @.head, nitems |-> @.nitems + 1]],
       nodes |-> Append([M.nodes EXCEPT ![last].next = n], new)]

push(M, l, t) ==
  LET n == Len(M.nodes) + 1
      tail == M.lists[l].tail
  IN  IF tail = NIL THEN FirstNode(M, l, t)
      ELSE [lists |-> [M.lists EXCEPT ![l].tail = n, ![l].nitems = @ + 1],
            nodes |-> Append([M.nodes EXCEPT ![tail].next = n],
                             [thread |-> t, next |-> NIL])]

\* The walk of pushOrdered: `last' and `tmp' after i rounds.
pushOrdered(key, M, l, t) ==
  LET head == M.lists[l].head
      walk[i \in 0..Len(M.nodes)] ==
        IF i = 0 THEN [last |-> head, tmp |-> head]
        ELSE LET w == walk[i-1]
             IN  IF w.tmp # NIL /\ key[M.nodes[w.tmp].thread] <= key[t]
                 THEN [last |-> w.tmp, tmp |-> M.nodes[w.tmp].next] ELSE w
  IN  IF M.lists[l].tail = NIL THEN FirstNode(M, l, t)
      ELSE Linked(M, l, walk[Len(M.nodes)].last, t)

\* pop returns front(M, l).
pop(M, l) ==
  LET next == M.nodes[M.lists[l].head].next
  IN  [M EXCEPT !.lists[l] =
         [tail |-> IF next = NIL THEN NIL ELSE @.tail, head |-> next,
          nitems |-> @.nitems - 1]]

\* while (!empty(from)) pushOrdered(order, to, pop(from))
MoveAll(key, M, from, to) ==
  LET f[i \in 0..Len(M.nodes)] ==
        IF i = 0 THEN M
        ELSE LET m == f[i-1]
             IN  IF empty(m, from) THEN m
                 ELSE pushOrdered(key, pop(m, from), to, front(m, from))
  IN  f[Len(M.nodes)]

\* `tmp' is the address malloc returned for the list that is built.
orderByOldest(born, M, l, tmp) ==
  LET new == [M EXCEPT !.lists = [a \in DOMAIN @ \union {tmp} |->
                                    IF a = tmp THEN Zeroed ELSE @[a]]]
      built == MoveAll(born, new, l, tmp)
  IN  [built EXCEPT !.lists = [a \in DOMAIN M.lists |->
                                 IF a = l THEN @[tmp] ELSE @[a]]]

\* The nodes and the threads of a list, from the head on.
Nodes(M, l) ==
  LET f[i \in 0..Len(M.nodes)] ==
        IF i = 0 THEN << >>
        ELSE LET s == f[i-1]
                 n == IF s = << >> THEN M.lists[l].head ELSE M.nodes[s[Len(s)]].next
             IN  IF n = NIL THEN s ELSE Append(s, n)
  IN  f[Len(M.nodes)]
Items(M, l) == [i \in DOMAIN Nodes(M, l) |-> M.nodes[Nodes(M, l)[i]].thread]

\* The struct agrees with the chain of nodes.
Sound(M, l) ==
  LET s == Nodes(M, l)
  IN  /\ M.lists[l].tail = IF s = << >> THEN NIL ELSE s[Len(s)]
      /\ s # << >> => M.nodes[s[Len(s)]].next = NIL
      /\ s # << >> => M.lists[l].nitems = Len(s)
=============================================================================
