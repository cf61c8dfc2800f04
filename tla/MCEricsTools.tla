---------------------------- MODULE MCEricsTools ----------------------------
(***************************************************************************)
(* Instances of the ericstools containers and string functions for TLC.    *)
(* The components share no state: "kind" says which one a behaviour is     *)
(* about, the others stay as they are.                                     *)
(***************************************************************************)
EXTENDS TreeMap, PriorityQueue, StringCalls

CONSTANTS
  FewKeys      \* keys of the trees on which every call is tried

VARIABLES kind

vars == <<kind, map, answer, lst, found, pq, pnode, seen, text, call>>

\* Two of the identifiers collide.
MCHash == [id \in Ids |-> IF id = 3 THEN 2 ELSE id]

MCLimits == {-1, 1, 2, 3}
MCOlds == {t \in Texts : Len(t) \in 1 .. 2}
MCNews == {[i \in 1 .. n |-> c] : n \in 0 .. 3, c \in Chars}

Kinds == {"trees", "map", "list", "queue", "text"}

Init == /\ kind \in Kinds /\ MapInit /\ ListInit /\ QueueInit /\ TextInit
        /\ kind # "text" => text = <<>>

\* Every shape of a tree over all keys: one value, and no answer is kept.
Shape(k) ==
  /\ kind = "trees"
  /\ map' \in {SetIn(map, k, k), RemoveFrom(map, k)}
  /\ UNCHANGED <<kind, answer, lst, found, pq, pnode, seen, text, call>>

Maps   == kind = "map" /\ MapCalls(FewKeys)
          /\ UNCHANGED <<kind, lst, found, pq, pnode, seen, text, call>>
Lists  == kind = "list" /\ ListNext
          /\ UNCHANGED <<kind, map, answer, pq, pnode, seen, text, call>>
Queues == kind = "queue" /\ QueueNext
          /\ UNCHANGED <<kind, map, answer, lst, found, text, call>>
Text   == kind = "text" /\ TextNext
          /\ UNCHANGED <<kind, map, answer, lst, found, pq, pnode, seen>>

Next == (\E k \in MapKeys : Shape(k)) \/ Maps \/ Lists \/ Queues \/ Text

Spec == Init /\ [][Next]_vars

\* The tree implements the abstract dictionary, answers included.  (The
\* shapes keep no answer; MapOrdered and MapBalanced are about them.)
MapImplementsDictionary == Dict!Init /\ [][kind = "map" => Dict!Next]_<<map, answer>>
=============================================================================
