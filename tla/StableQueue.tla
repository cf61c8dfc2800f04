---------------------------- MODULE StableQueue ----------------------------
(***************************************************************************)
(* What a priority queue promises: its elements in the order of their      *)
(* priorities and, within a priority, of their arrival; an index that      *)
(* finds the element queued last under an identifier until an element of   *)
(* that identifier leaves.                                                 *)
(***************************************************************************)
EXTENDS Integers, Sequences

CONSTANTS Tokens, Priorities, Ids, Hash

VARIABLES queue, index, seen

qvars == <<queue, index, seen>>

Init == queue = <<>> /\ index = <<>> /\ seen = <<>>

Item(e) == <<[priority |-> e.priority, id |-> e.id]>>

Insert(q, e) ==
  LET k == CHOOSE k \in 0 .. Len(q) : \A i \in DOMAIN q : i <= k <=> q[i].priority <= e.priority
  IN SubSeq(q, 1, k) \o <<e>> \o SubSeq(q, k + 1, Len(q))

Place(q, t) == CHOOSE i \in DOMAIN q : q[i].token = t
Without(q, t) ==
  LET i == Place(q, t)
  IN SubSeq(q, 1, i - 1) \o SubSeq(q, i + 1, Len(q))

Forget(id)    == [h \in DOMAIN index \ {Hash[id]} |-> index[h]]
Learn(id, t)  == [h \in DOMAIN index \union {Hash[id]} |-> IF h = Hash[id] THEN t ELSE index[h]]
Known(id)     == Hash[id] \in DOMAIN index
Found(id)     == queue[Place(queue, index[Hash[id]])]

Push(t, p, id) ==
  /\ seen' = <<>>
  /\ index' = Learn(id, t)
  /\ \A i \in DOMAIN queue : queue[i].token # t
  /\ queue' = Insert(queue, [token |-> t, priority |-> p, id |-> id])

Shift ==
  /\ seen' # <<>> /\ queue # <<>>
  /\ queue' = Tail(queue) /\ seen' = Item(Head(queue))
  /\ index' = Forget(Head(queue).id)

Peek ==
  /\ seen' = IF queue = <<>> THEN <<>> ELSE Item(Head(queue))
  /\ UNCHANGED <<index, queue>>

Lookup(id) ==
  /\ seen' = IF Known(id) THEN Item(Found(id)) ELSE <<>>
  /\ UNCHANGED <<queue, index>>

Remove(id) ==
  /\ Known(id) /\ index' = Forget(id)
  /\ seen' = Item(Found(id))
  /\ queue' = Without(queue, index[Hash[id]])

\* An element that gets a priority, its old one too, goes behind its equals.
SetPriority(id, p) ==
  /\ seen' = <<>> /\ Known(id) /\ UNCHANGED index
  /\ LET e == [Found(id) EXCEPT !.priority = p]
     IN queue' = Insert(Without(queue, e.token), e)

Clear == /\ index' = <<>> /\ queue' = <<>>
         /\ seen' = [i \in DOMAIN queue |-> Item(queue[i])[1]]

Next ==
  \/ Shift \/ Peek \/ Clear
  \/ \E id \in Ids : Lookup(id) \/ Remove(id)
  \/ \E id \in Ids, p \in Priorities : SetPriority(id, p) \/ \E t \in Tokens : Push(t, p, id)

Spec == Init /\ [][Next]_qvars
=============================================================================
