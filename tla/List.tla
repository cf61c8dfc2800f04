-------------------------------- MODULE List --------------------------------
(***************************************************************************)
(* The doubly linked list of ericstools.  A node is known by the value it  *)
(* carries; "link" holds the next and previous pointers of the nodes in    *)
(* the list, a node that left it keeps none.                               *)
(*                                                                         *)
(* shift and pop, and unshift and push, are the same code with head and    *)
(* next exchanged for tail and previous, so one operator models each pair. *)
(***************************************************************************)
EXTENDS Pointers, Integers, Sequences

CONSTANTS
  ListNodes,   \* nodes a program puts on a list
  MaxIndex     \* bound: largest index asked of list_element_at()

\* No node is at the null pointer.
ASSUME ListAssumption == NULL \notin ListNodes

VARIABLES
  lst,    \* the list
  found    \* what the last call returned, one value or many

lvars == <<lst, found>>

Ends == {"head", "tail"}
Opposite(end) == IF end = "head" THEN "tail" ELSE "head"
Outer(end) == IF end = "head" THEN "previous" ELSE "next"
Inner(end) == IF end = "head" THEN "next" ELSE "previous"

EmptyList == [head |-> NULL, tail |-> NULL, length |-> 0, link |-> <<>>]

Unlink(l, n) == [l EXCEPT !.link = [m \in DOMAIN @ \ {n} |-> @[m]], !.length = l.length - 1]

\* push_list_node() at the tail, unshift_list_node() at the head.
Attach(l, n, end) ==
  LET was  == l[end]
      node == [next |-> NULL, previous |-> NULL]
      m == [l EXCEPT !.link = [x \in DOMAIN @ \union {n} |->
                                 IF x = n THEN [node EXCEPT ![Inner(end)] = was]
                                 ELSE IF x = was THEN [@[x] EXCEPT ![Outer(end)] = n]
                                 ELSE @[x]],
                     ![end] = n, !.length = l.length + 1]
  IN IF was = NULL THEN [m EXCEPT ![Opposite(end)] = n] ELSE m

\* shift_list_node() at the head, pop_list_node() at the tail.
Detach(l, end) ==
  LET n   == l[end]
      new == l.link[n][Inner(end)]
      m   == [Unlink(l, n) EXCEPT ![end] = new,
                                  ![Opposite(end)] = IF @ = n THEN NULL ELSE @]
  IN IF new = NULL THEN m ELSE [m EXCEPT !.link[new][Outer(end)] = NULL]

\* Mutant: a node at the tail is taken for one in the middle.
RemoveInternalMiddle(l, n) ==
  LET next == l.link[n].next
      prev == l.link[n].previous
      m    == [Unlink(l, n) EXCEPT !.head = IF prev = NULL THEN next ELSE @]
  IN [m EXCEPT !.link = [x \in DOMAIN @ |->
        IF x = next THEN [@[x] EXCEPT !.previous = prev]
        ELSE IF x = prev THEN [@[x] EXCEPT !.next = next] ELSE @[x]]]

\* remove_internal_list_node(): the node may be at either end, or both.
RemoveInternal(l, n) ==
  LET next == l.link[n].next
      prev == l.link[n].previous
      m    == [Unlink(l, n) EXCEPT !.head = IF prev = NULL THEN next ELSE @,
                                   !.tail = IF next = NULL THEN prev ELSE @]
  IN [m EXCEPT !.link = [x \in DOMAIN @ |->
        IF x = next THEN [@[x] EXCEPT !.previous = prev]
        ELSE IF x = prev THEN [@[x] EXCEPT !.next = next] ELSE @[x]]]

\* list_element_at(): "index - length/2 > 0" is unsigned, so it is false only
\* at length/2; every other index is walked to from the tail, or off the list.
ElementAt(l, index) ==
  LET fromHead == index = l.length \div 2 \/ l.length = 1
      walk[at \in [i : Int, n : DOMAIN l.link \union {NULL}]] ==
        IF at.i = index \/ at.n = NULL THEN at.n
        ELSE IF at.i > index THEN walk[[i |-> at.i - 1, n |-> l.link[at.n].previous]]
        ELSE walk[[i |-> at.i + 1, n |-> l.link[at.n].next]]
  IN walk[IF fromHead THEN [i |-> 0, n |-> l.head] ELSE [i |-> l.length - 1, n |-> l.tail]]

\* get_list_values() and destroy_list(): "length" nodes from the head on.
ListValues(l) ==
  LET at[i \in 1 .. l.length] == IF i = 1 THEN l.head ELSE l.link[at[i - 1]].next
  IN at

----------------------------------------------------------------------------

ListInit == lst = EmptyList /\ found = <<>>

ListAdd(n, end) ==
  /\ n \notin DOMAIN lst.link
  /\ lst' = Attach(lst, n, end)
  /\ found' = <<>>

ListTake(end) ==
  /\ found' = IF lst[end] = NULL THEN <<>> ELSE <<lst[end]>>
  /\ lst' = IF lst[end] = NULL THEN lst ELSE Detach(lst, end)

\* The caller hands over a node that is in the list.
ListRemoveInternal(n) ==
  /\ n \in DOMAIN lst.link
  /\ lst' = RemoveInternal(lst, n)
  /\ found' = <<>>

ListElementAt(i) ==
  /\ found' = LET n == ElementAt(lst, i) IN IF n = NULL THEN <<>> ELSE <<n>>
  /\ UNCHANGED lst

ListGetValues == found' = ListValues(lst) /\ UNCHANGED lst
ListDestroy   == found' = ListValues(lst) /\ lst' = EmptyList

ListNext ==
  \/ \E n \in ListNodes : ListRemoveInternal(n) \/ \E end \in Ends : ListAdd(n, end)
  \/ \E end \in Ends : ListTake(end)
  \/ \E i \in 0 .. MaxIndex : ListElementAt(i)
  \/ ListGetValues \/ ListDestroy

\* The linked list is the sequence its next pointers spell: what comes off
\* either end, and what is found at an index, is what the sequence has there.
\* head, tail, length and two pointers per node must agree after any calls.
Dq == INSTANCE Deque WITH Elements <- ListNodes, seq <- ListValues(lst)
ListImplementsDeque == Dq!Spec
=============================================================================
