--------------------------- MODULE PriorityQueue ---------------------------
(***************************************************************************)
(* The priority queue of ericstools: one linked list per priority, a       *)
(* long_map from priorities to lists, a string_map (keyed by the hash of   *)
(* an identifier) from identifiers to list nodes, and a cached "first".    *)
(*                                                                         *)
(* The two maps are the dictionaries TreeMap implements.  There is at most *)
(* one list per priority, so the list of an id_map_node is known by it.    *)
(*                                                                         *)
(* get_priority_queue_element_with_id() is not an action: it frees a node  *)
(* that stays queued, after which no call on the queue is defined.         *)
(***************************************************************************)
EXTENDS List, FiniteSets

CONSTANTS
  QueueNodes,  \* blocks the allocator has for nodes
  Priorities,  \* 1 .. n
  Ids,         \* identifiers
  Hash         \* sdbm_string_hash() of each

\* No node is at the null pointer; a priority is an unsigned long.
ASSUME QueueAssumption == NULL \notin QueueNodes /\ Priorities \subseteq Nat

VARIABLES
  pq,      \* priorities, ids, first, length
  pnode,   \* the allocated priority_queue_nodes
  seen     \* what the last call returned, one element or many

qvars == <<pq, pnode, seen>>

EmptyQueue == [priorities |-> <<>>, ids |-> <<>>, first |-> NULL, length |-> 0]

Drop(f, k)   == [x \in DOMAIN f \ {k} |-> f[x]]
Put(f, k, v) == [x \in DOMAIN f \union {k} |-> IF x = k THEN v ELSE f[x]]

\* The head of the list of the smallest priority.
SmallestHead(q) ==
  IF q.priorities = <<>> THEN NULL
  ELSE q.priorities[CHOOSE p \in DOMAIN q.priorities : \A r \in DOMAIN q.priorities : p <= r].head

\* Mutant: an equal priority takes over "first" as well.
FirstOnEqual(q, info, n) ==
  IF q.first = NULL THEN n
  ELSE IF info[n].priority <= info[q.first].priority THEN n ELSE q.first

\* "update first" when node n has been pushed.
FirstAfterPush(q, info, n) ==
  IF q.first = NULL THEN n
  ELSE IF info[n].priority < info[q.first].priority THEN n ELSE q.first

\* Mutant: the cached "first" stays the node that was removed.
FirstKept(q, n) == q.first

\* "if we're removing first node, reset it"
FirstAfterRemove(q, n) == IF n = q.first THEN SmallestHead(q) ELSE q.first

\* push_priority_queue_node()
PushNode(q, info, n) ==
  LET p == info[n].priority
      old == IF p \in DOMAIN q.priorities THEN q.priorities[p] ELSE EmptyList
  IN [priorities |-> Put(q.priorities, p, Attach(old, n, "tail")),
      ids        |-> Put(q.ids, Hash[info[n].id], [list |-> p, node |-> n]),
      first      |-> FirstAfterPush(q, info, n),
      length     |-> q.length + 1]

\* shift_priority_queue_node(), with the node it returns.
ShiftNode(q, info) ==
  LET p    == info[q.first].priority
      n    == q.priorities[p].head
      rest == Detach(q.priorities[p], "head")
      left == [q EXCEPT !.priorities = IF rest.length = 0 THEN Drop(@, p) ELSE Put(@, p, rest),
                        !.ids = Drop(@, Hash[info[n].id]),
                        !.length = @ - 1]
  IN [node |-> n,
      queue |-> [left EXCEPT !.first = IF rest.length = 0 THEN SmallestHead(left) ELSE rest.head]]

\* remove_priority_queue_node_with_id(), of an identifier that is known.
RemoveNode(q, info, id) ==
  LET idn  == q.ids[Hash[id]]
      n    == idn.node
      rest == RemoveInternal(q.priorities[idn.list], n)
      left == [q EXCEPT !.priorities = IF rest.length = 0 THEN Drop(@, info[n].priority)
                                                          ELSE Put(@, idn.list, rest),
                        !.ids = Drop(@, Hash[id]),
                        !.length = @ - 1]
  IN [node |-> n,
      queue |-> [left EXCEPT !.first = FirstAfterRemove(left, n)]]

Known(id) == Hash[id] \in DOMAIN pq.ids

\* What a caller gets of a node: free_priority_queue_node() frees the rest.
Handed(n) == <<[priority |-> pnode[n].priority, id |-> pnode[n].id]>>

----------------------------------------------------------------------------

QueueInit == pq = EmptyQueue /\ pnode = <<>> /\ seen = <<>>

\* create_priority_node() and push: the allocator hands out any free block,
\* the model the one named least.
PQPush(p, id) ==
  /\ \E n \in QueueNodes :
       /\ n \notin DOMAIN pnode
       /\ \A m \in QueueNodes \ DOMAIN pnode : n <= m
       /\ pnode' = Put(pnode, n, [priority |-> p, id |-> id])
       /\ pq' = PushNode(pq, pnode', n)
  /\ seen' = <<>>

PQShift ==
  /\ pq.first # NULL
  /\ LET s == ShiftNode(pq, pnode)
     IN pq' = s.queue /\ seen' = Handed(s.node) /\ pnode' = Drop(pnode, s.node)

PQPeek ==
  /\ seen' = IF pq.first = NULL THEN <<>> ELSE Handed(pq.first)
  /\ UNCHANGED <<pq, pnode>>

PQLookup(id) ==
  /\ seen' = IF Known(id) THEN Handed(pq.ids[Hash[id]].node) ELSE <<>>
  /\ UNCHANGED <<pq, pnode>>

PQRemove(id) ==
  /\ Known(id)
  /\ LET r == RemoveNode(pq, pnode, id)
     IN pq' = r.queue /\ seen' = Handed(r.node) /\ pnode' = Drop(pnode, r.node)

\* set_priority_for_id_in_priority_queue(): the caller knows the identifier is
\* queued, the code dereferences what it finds.
PQSetPriority(id, p) ==
  /\ Known(id)
  /\ LET r == RemoveNode(pq, pnode, id)
     IN /\ pnode' = [pnode EXCEPT ![r.node].priority = p]
        /\ pq' = PushNode(r.queue, pnode', r.node)
  /\ seen' = <<>>

\* destroy_priority_queue(): shifts until the length says it is empty.
PQDestroy ==
  /\ LET drain[i \in 0 .. pq.length] ==
           IF i = 0 THEN [queue |-> pq, items |-> <<>>]
           ELSE LET d == drain[i - 1]
                    s == ShiftNode(d.queue, pnode)
                IN [queue |-> s.queue, items |-> d.items \o Handed(s.node)]
     IN seen' = drain[pq.length].items
  /\ pq' = EmptyQueue /\ pnode' = <<>>

QueueNext ==
  \/ \E id \in Ids : PQLookup(id) \/ PQRemove(id)
                     \/ \E p \in Priorities : PQPush(p, id) \/ PQSetPriority(id, p)
  \/ PQShift \/ PQPeek \/ PQDestroy

----------------------------------------------------------------------------

\* No pointer of the queue dangles, however identifiers repeat or collide:
\* every identifier known leads to a node that is queued in the list named
\* with it, "first" is the node a shift will return, and no list is empty.
QueuePointers ==
  /\ \A h \in DOMAIN pq.ids :
       LET idn == pq.ids[h]
       IN /\ idn.list \in DOMAIN pq.priorities
          /\ idn.node \in DOMAIN pq.priorities[idn.list].link
          /\ Hash[pnode[idn.node].id] = h
  /\ pq.first = SmallestHead(pq)
  /\ UNION {DOMAIN pq.priorities[p].link : p \in DOMAIN pq.priorities} = DOMAIN pnode
  /\ \A p \in DOMAIN pq.priorities : pq.priorities[p].head # NULL

\* Where a node is in the queue: behind the nodes of smaller priorities and
\* those its list has before it, from the head on.
PlaceOf(q, info, n) ==
  LET values == ListValues(q.priorities[info[n].priority])
  IN Cardinality({m \in DOMAIN info : info[m].priority < info[n].priority})
       + CHOOSE i \in DOMAIN values : values[i] = n

\* Lists, maps and cached first together implement the stable queue: order
\* by priority and arrival, through removals and changes of priority.
QueuedIn(q, info) ==
  [i \in 1 .. Cardinality(DOMAIN info) |->
     LET n == CHOOSE n \in DOMAIN info : PlaceOf(q, info, n) = i
     IN [token |-> n, priority |-> info[n].priority, id |-> info[n].id]]
Sq == INSTANCE StableQueue WITH Tokens <- QueueNodes, queue <- QueuedIn(pq, pnode),
                                index <- [h \in DOMAIN pq.ids |-> pq.ids[h].node]
QueueImplementsStable == Sq!Spec
=============================================================================
