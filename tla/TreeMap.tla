------------------------------ MODULE TreeMap ------------------------------
(***************************************************************************)
(* long_map of ericstools: an AVL tree of nodes linked by pointers.        *)
(*                                                                         *)
(* A tree holds one node per key, so a node is known by its key; a pointer *)
(* is a key or NULL.  A long_map_node** is a slot: the field "left" or     *)
(* "right" of a node, or the root.  Nodes that were freed are no longer in *)
(* the domain of "node".                                                   *)
(***************************************************************************)
EXTENDS Pointers, Integers, Sequences, SequencesExt

CONSTANTS
  MapKeys,    \* keys a program uses
  MapValues   \* values a program stores

VARIABLES
  map,     \* the long_map: root, nodes and num_elements
  answer   \* what the last call returned

mvars == <<map, answer>>

Sides == {"left", "right"}
Other(side) == IF side = "left" THEN "right" ELSE "left"
Sign(side)  == IF side = "left" THEN -1 ELSE 1
Side(k, n)  == IF k < n THEN "left" ELSE "right"

RootSlot == <<NULL, "root">>

Deref(t, slot) == IF slot = RootSlot THEN t.root ELSE t.node[slot[1]][slot[2]]

Store(t, slot, n) ==
  IF slot = RootSlot THEN [t EXCEPT !.root = n]
                     ELSE [t EXCEPT !.node[slot[1]][slot[2]] = n]

\* The nodes met on the way from the root to k, or to where k would hang.
Walk(t, k) ==
  LET down[n \in DOMAIN t.node] ==
        LET child == t.node[n][Side(k, n)]
        IN IF n = k \/ child = NULL THEN <<n>> ELSE <<n>> \o down[child]
  IN IF t.root = NULL THEN <<>> ELSE down[t.root]

\* The nodes met going to one side only, from n on.
Edge(t, n, side) ==
  LET down[m \in DOMAIN t.node] ==
        LET child == t.node[m][side]
        IN IF child = NULL THEN <<m>> ELSE <<m>> \o down[child]
  IN down[n]

\* The pointer through which the i-th node of a walk is reached.
SlotOf(walk, i, k) == IF i = 1 THEN RootSlot ELSE <<walk[i-1], Side(k, walk[i-1])>>

\* parent_list after a descent: slots and the direction taken at each.
Stack(walk, k) ==
  [i \in DOMAIN walk |-> [slot |-> SlotOf(walk, i, k), side |-> Side(k, walk[i])]]

----------------------------------------------------------------------------

\* Mutant: the subtree between the two nodes is dropped.
RotateDropsMiddle(t, slot, near) ==
  LET parent == Deref(t, slot)
      pivot  == t.node[parent][near]
  IN Store([t EXCEPT !.node[parent][near] = NULL,
                     !.node[pivot][Other(near)] = parent], slot, pivot)

\* rotate_right() when "near" is left, rotate_left() when it is right.
Rotate(t, slot, near) ==
  LET parent == Deref(t, slot)
      pivot  == t.node[parent][near]
  IN Store([t EXCEPT !.node[parent][near] = t.node[pivot][Other(near)],
                     !.node[pivot][Other(near)] = parent], slot, pivot)

\* The node in a slot got one level more (op = 1) or less (op = -1) on a side.
Rebalance(t, slot, side, op) ==
  LET n     == Deref(t, slot)
      bal   == t.node[n].balance + op * Sign(side)
      u     == [t EXCEPT !.node[n].balance = bal]
      heavy == IF bal < 0 THEN "left" ELSE "right"
      light == Other(heavy)
      child == t.node[n][heavy]
      lean  == t.node[child].balance * Sign(heavy)
      Single(b) == [Rotate(u, slot, heavy) EXCEPT !.node[n].balance = b * Sign(heavy),
                                                  !.node[child].balance = -b * Sign(heavy)]
      Double == LET p == t.node[t.node[child][light]].balance
                    r == Rotate(Rotate(u, <<n, heavy>>, light), slot, heavy)
                IN [r EXCEPT !.node[child].balance = IF p * Sign(light) > 0 THEN Sign(heavy) ELSE 0,
                             !.node[n].balance     = IF p * Sign(heavy) > 0 THEN Sign(light) ELSE 0,
                             !.node[Deref(r, slot)].balance = 0]
  IN IF bal \in -1 .. 1 THEN u
     ELSE IF lean > 0 THEN Single(0)
     ELSE IF lean = 0 THEN Single(1)
     ELSE Double

\* Mutant: a removal unwinds as an insertion does.
GoesOnAlike(op, b) == b # 0

\* An insertion unwinds until a subtree did not get higher (balance 0), a
\* removal until one did not get lower (balance not 0).
GoesOn(op, b) == IF op = 1 THEN b # 0 ELSE b = 0

\* The loop over parent_list.
Unwind(t, stack, op) ==
  FoldLeft(LAMBDA acc, e :
             IF ~acc.go THEN acc
             ELSE LET r == Rebalance(acc.tree, e.slot, e.side, op)
                      b == r.node[Deref(r, e.slot)].balance
                  IN [tree |-> r, go |-> GoesOn(op, b)],
           [tree |-> t, go |-> TRUE], Reverse(stack)).tree

----------------------------------------------------------------------------

Has(t, k) == LET w == Walk(t, k) IN w # <<>> /\ Last(w) = k

\* get_long_map_element()
GetIn(t, k) == IF Has(t, k) THEN t.node[k].value ELSE NULL

\* set_long_map_element()
SetIn(t, k, v) ==
  LET walk == Walk(t, k)
      new  == [left |-> NULL, right |-> NULL, balance |-> 0, value |-> v]
      grown == [t EXCEPT !.node = [n \in DOMAIN t.node \union {k} |->
                                     IF n = k THEN new ELSE t.node[n]],
                         !.num = t.num + 1]
  IN IF walk = <<>> THEN [grown EXCEPT !.root = k]
     ELSE IF Last(walk) = k THEN [t EXCEPT !.node[k].value = v]
     ELSE Unwind(Store(grown, <<Last(walk), Side(k, Last(walk))>>, k), Stack(walk, k), 1)

\* What takes the place of node k, the tree with k unlinked from below, and
\* the stack entries the unwinding starts with.
Successor(t, k, slot) ==
  LET x == t.node[k]
  IN IF x.right = NULL THEN [tree |-> t, by |-> x.left, stack |-> <<>>]
     ELSE IF t.node[x.right].left = NULL
     THEN [tree  |-> [t EXCEPT !.node[x.right].left = x.left,
                               !.node[x.right].balance = x.balance],
           by    |-> x.right,
           stack |-> <<[slot |-> slot, side |-> "right"]>>]
     ELSE LET chain == Edge(t, x.right, "left")
              by    == Last(chain)
              par   == chain[Len(chain) - 1]
          IN [tree  |-> [t EXCEPT !.node[par].left = t.node[by].right,
                                  !.node[by] = [@ EXCEPT !.left = x.left, !.right = x.right,
                                                         !.balance = x.balance]],
              by    |-> by,
              stack |-> <<[slot |-> slot, side |-> "right"],
                          [slot |-> <<by, "right">>, side |-> "left"]>>
                        \o [i \in 1 .. Len(chain) - 2 |->
                              [slot |-> <<chain[i], "left">>, side |-> "left"]]]

\* remove_long_map_element()
RemoveFrom(t, k) ==
  LET walk == Walk(t, k)
      slot == SlotOf(walk, Len(walk), k)
      s    == Successor(t, k, slot)
      cut  == Store(s.tree, slot, s.by)
  IN IF ~Has(t, k) THEN t
     ELSE LET u == Unwind(cut, Stack(Front(walk), k) \o s.stack, -1)
          IN [u EXCEPT !.node = [n \in DOMAIN @ \ {k} |-> @[n]], !.num = t.num - 1]

\* Mutant: one step to the side instead of all of them.
EndKeyOneStep(t, side) ==
  IF t.node[t.root][side] = NULL THEN t.root ELSE t.node[t.root][side]

\* The key at one end, as get_smallest/get_largest_long_map_element() find it.
EndKey(t, side) == Last(Edge(t, t.root, side))

\* The in-order traversal behind the sorted listings and apply_to_every.
InOrder(t) ==
  LET visit[n \in DOMAIN t.node \union {NULL}] ==
        IF n = NULL THEN <<>>
        ELSE visit[t.node[n].left] \o <<n>> \o visit[t.node[n].right]
  IN visit[t.root]

\* destroy_long_map(): the smallest element is removed num_elements times.
Drained(t) ==
  LET drain[i \in 0 .. t.num] ==
        IF i = 0 THEN [tree |-> t, values |-> <<>>]
        ELSE LET d == drain[i - 1]
                 k == EndKey(d.tree, "left")
             IN [tree |-> RemoveFrom(d.tree, k), values |-> Append(d.values, d.tree.node[k].value)]
  IN drain[t.num].values

----------------------------------------------------------------------------

EmptyMap == [root |-> NULL, node |-> <<>>, num |-> 0]

MapInit == map = EmptyMap /\ answer = NULL

MapGet(k) == answer' = GetIn(map, k) /\ UNCHANGED map

MapSet(k, v) == map' = SetIn(map, k, v) /\ answer' = GetIn(map, k)

MapRemove(k) == map' = RemoveFrom(map, k) /\ answer' = GetIn(map, k)

MapGetEnd(side) ==
  /\ answer' = IF map.root = NULL THEN NULL
               ELSE LET k == EndKey(map, side) IN <<k, map.node[k].value>>
  /\ UNCHANGED map

MapRemoveEnd(side) ==
  /\ map.root # NULL
  /\ LET k == EndKey(map, side)
     IN answer' = <<k, map.node[k].value>> /\ map' = RemoveFrom(map, k)

MapSortedKeys == answer' = InOrder(map) /\ UNCHANGED map

MapSortedValues ==
  /\ answer' = [i \in DOMAIN InOrder(map) |-> map.node[InOrder(map)[i]].value]
  /\ UNCHANGED map

MapDestroy == answer' = Drained(map) /\ map' = EmptyMap

MapCalls(keys) ==
  \/ \E k \in keys : MapGet(k) \/ MapRemove(k) \/ \E v \in MapValues : MapSet(k, v)
  \/ \E side \in Sides : MapGetEnd(side) \/ MapRemoveEnd(side)
  \/ MapSortedKeys \/ MapSortedValues \/ MapDestroy

----------------------------------------------------------------------------

\* Every live node is reached exactly once, in the order of the keys, and
\* num_elements counts them: the listings fill an array of num_elements
\* entries without a look at its end, and the freeing loop of
\* destroy_long_map() runs while num_elements is positive.
MapOrdered ==
  LET keys == InOrder(map)
  IN /\ \A i \in 1 .. Len(keys) - 1 : keys[i] < keys[i + 1]
     /\ DOMAIN map.node = {keys[i] : i \in DOMAIN keys}
     /\ map.num = Len(keys)

\* Each balance is the height of the right subtree less that of the left, and
\* is -1, 0 or 1: the rotations of rebalance() choose by the stored balances,
\* and one wrong balance far up the stack shows only many calls later.
MapBalanced ==
  LET height[n \in DOMAIN map.node \union {NULL}] ==
        IF n = NULL THEN 0
        ELSE LET l == height[map.node[n].left]
                 r == height[map.node[n].right]
             IN 1 + IF l > r THEN l ELSE r
  IN \A n \in DOMAIN map.node :
       /\ map.node[n].balance = height[map.node[n].right] - height[map.node[n].left]
       /\ map.node[n].balance \in -1 .. 1

\* The abstract dictionary a tree stands for.
Contents == [k \in DOMAIN map.node |-> map.node[k].value]
Dict == INSTANCE Dictionary WITH Keys <- MapKeys, Values <- MapValues, dict <- Contents
=============================================================================
