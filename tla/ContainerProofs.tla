-------------------------- MODULE ContainerProofs ---------------------------
(***************************************************************************)
(* The linked list: what its pointers spell.  The sequence of its nodes,   *)
(* which the code does not have, says when head, tail, length and all next *)
(* and previous pointers agree, whatever N the nodes are taken from.  And  *)
(* the priority queue that is made of such lists: its three structures     *)
(* agree after any calls, and they are together one queue in the order of  *)
(* priorities and of arrival.                                              *)
(***************************************************************************)
EXTENDS PriorityQueue, WellFoundedInduction, SequenceTheorems, FiniteSetTheorems,
        FunctionTheorems, TLAPS

LEMMA MinExists ==
  ASSUME NEW S \in SUBSET Nat, S # {}
  PROVE  \E m \in S : \A k \in S : m <= k
<1>1. PICK m \in S : \A k \in S : ~(<<k, m>> \in OpToRel(<, Nat))
  BY NatLessThanWellFounded, WFMin
<1>2. ASSUME NEW k \in S PROVE ~(k < m)
  BY <1>1 DEF OpToRel
<1>3. \A k \in S : m <= k
  BY <1>2
<1> QED
  BY <1>3

----------------------------------------------------------------------------
(* What the list functions do to the fields of a list *)

Pair(x, y)          == [next |-> x, previous |-> y]
ListOf(h, t, c, f)  == [head |-> h, tail |-> t, length |-> c, link |-> f]
Links(N)            == [next : N \union {NULL}, previous : N \union {NULL}]
Cut(f, n)           == [x \in DOMAIN f \ {n} |-> f[x]]

Attached(f, t, n) == [x \in DOMAIN f \union {n} |-> IF x = n THEN Pair(NULL, t)
                                                   ELSE IF x = t THEN Pair(n, f[x].previous) ELSE f[x]]
Detached(f, n)    == [x \in DOMAIN f \ {n} |-> IF x = f[n].next THEN Pair(f[x].next, NULL) ELSE f[x]]
Bridged(f, n)     == [x \in DOMAIN f \ {n} |-> IF x = f[n].next THEN Pair(f[x].next, f[n].previous)
                                               ELSE IF x = f[n].previous THEN Pair(f[n].next, f[x].previous)
                                               ELSE f[x]]

LEMMA AttachForm ==
  ASSUME NEW h, NEW t, NEW c, NEW D, NEW N, NEW f \in [D -> Links(N)], NEW n
  PROVE  Attach(ListOf(h, t, c, f), n, "tail") =
           ListOf(IF t = NULL THEN n ELSE h, n, c + 1, Attached(f, t, n))
<1> DEFINE g == [x \in DOMAIN f \union {n} |-> IF x = n THEN [Pair(NULL, NULL) EXCEPT !["previous"] = t]
                                               ELSE IF x = t THEN [f[x] EXCEPT !["next"] = n]
                                               ELSE f[x]]
<1>1. g = Attached(f, t, n)
  BY DEF Pair, Attached, Links
<1>2. /\ ListOf(h, t, c, f).tail = t /\ ListOf(h, t, c, f).link = f
      /\ ListOf(h, t, c, f).length = c
  BY DEF ListOf
<1>3. Attach(ListOf(h, t, c, f), n, "tail") =
        LET m == [ListOf(h, t, c, f) EXCEPT !.link = g, !["tail"] = n, !.length = c + 1]
        IN IF t = NULL THEN [m EXCEPT !["head"] = n] ELSE m
  BY <1>2 DEF Attach, Inner, Outer, Opposite, Pair
<1> QED
  BY <1>1, <1>3 DEF ListOf

LEMMA UnlinkForm ==
  ASSUME NEW h, NEW t, NEW c, NEW f, NEW n
  PROVE  Unlink(ListOf(h, t, c, f), n) = ListOf(h, t, c - 1, Cut(f, n))
<1>1. PICK l : l = ListOf(h, t, c, f)
  OBVIOUS
<1>2. l.link = f /\ l.length = c
  BY <1>1 DEF ListOf
<1>3. PICK g : g = Cut(f, n)
  OBVIOUS
<1>4. PICK m : m = [l EXCEPT !.link = g]
  OBVIOUS
<1>5. m = ListOf(h, t, c, g)
  BY <1>1, <1>4 DEF ListOf
<1>6. Unlink(l, n) = [m EXCEPT !.length = c - 1]
  BY <1>2, <1>3, <1>4 DEF Unlink, Cut
<1>7. [m EXCEPT !.length = c - 1] = ListOf(h, t, c - 1, g)
  BY <1>5 DEF ListOf
<1> QED
  BY <1>1, <1>3, <1>6, <1>7

LEMMA DetachForm ==
  ASSUME NEW h, NEW t, NEW c, NEW D, NEW N, NEW f \in [D -> Links(N)],
         h \in D, f[h].next # h, f[h].next \in D \/ f[h].next = NULL, NULL \notin D
  PROVE  Detach(ListOf(h, t, c, f), "head") =
           ListOf(f[h].next, IF t = h THEN NULL ELSE t, c - 1, Detached(f, h))
<1>1. PICK l : l = ListOf(h, t, c, f)
  OBVIOUS
<1>2. PICK g : g = [x \in D \ {h} |-> f[x]]
  OBVIOUS
<1>3. PICK u : u = Unlink(l, h)
  OBVIOUS
<1>4. PICK new : new = f[h].next
  OBVIOUS
<1>5. l.head = h /\ l.link = f
  BY <1>1 DEF ListOf
<1>6. u = ListOf(h, t, c - 1, g)
  <2>1. Cut(f, h) = g
    BY <1>2 DEF Cut
  <2>2. Unlink(ListOf(h, t, c, f), h) = ListOf(h, t, c - 1, Cut(f, h))
    BY UnlinkForm
  <2> QED
    BY <1>1, <1>2, <1>3, <2>1, <2>2
<1>7. Detach(l, "head") =
        LET m == [u EXCEPT !["head"] = new, !["tail"] = IF @ = h THEN NULL ELSE @]
        IN IF new = NULL THEN m ELSE [m EXCEPT !.link[new]["previous"] = NULL]
  BY <1>3, <1>4, <1>5 DEF Detach, Inner, Outer, Opposite
<1>8. [u EXCEPT !["head"] = new, !["tail"] = IF @ = h THEN NULL ELSE @]
        = ListOf(new, IF t = h THEN NULL ELSE t, c - 1, g)
  BY <1>6 DEF ListOf
<1>9. CASE new = NULL
  <2>1. Detached(f, h) = g
    BY <1>2, <1>4, <1>9 DEF Detached
  <2> QED
    BY <1>1, <1>4, <1>7, <1>8, <1>9, <2>1
<1>10. CASE new # NULL
  <2>1. new \in D \ {h} /\ f[new] \in Links(N) /\ g[new] = f[new]
    BY <1>2, <1>4, <1>10
  <2>2. PICK e : e = [g[new] EXCEPT !["previous"] = NULL]
    OBVIOUS
  <2>3. e = Pair(f[new].next, NULL)
    BY <2>1, <2>2 DEF Pair, Links
  <2>4. [g EXCEPT ![new] = e] = Detached(f, h)
    BY <1>2, <1>4, <2>3 DEF Detached
  <2>5. Detach(l, "head") = ListOf(new, IF t = h THEN NULL ELSE t, c - 1, [g EXCEPT ![new] = e])
    BY <1>7, <1>8, <1>10, <2>2 DEF ListOf
  <2> QED
    BY <1>1, <1>4, <2>4, <2>5
<1> QED
  BY <1>9, <1>10

LEMMA RemoveForm ==
  ASSUME NEW h, NEW t, NEW c, NEW D, NEW N, NEW f \in [D -> Links(N)], NEW n \in D
  PROVE  RemoveInternal(ListOf(h, t, c, f), n) =
           ListOf(IF f[n].previous = NULL THEN f[n].next ELSE h,
                  IF f[n].next = NULL THEN f[n].previous ELSE t, c - 1,
                  Bridged(f, n))
<1>1. PICK l : l = ListOf(h, t, c, f)
  OBVIOUS
<1>2. PICK g : g = [x \in D \ {n} |-> f[x]]
  OBVIOUS
<1>3. PICK u : u = Unlink(l, n)
  OBVIOUS
<1>4. PICK next, prev : next = f[n].next /\ prev = f[n].previous
  OBVIOUS
<1>5. l.link = f
  BY <1>1 DEF ListOf
<1>6. u = ListOf(h, t, c - 1, g)
  <2>1. Cut(f, n) = g
    BY <1>2 DEF Cut
  <2>2. Unlink(ListOf(h, t, c, f), n) = ListOf(h, t, c - 1, Cut(f, n))
    BY UnlinkForm
  <2> QED
    BY <1>1, <1>2, <1>3, <2>1, <2>2
<1>7. PICK m : m = [u EXCEPT !.head = IF prev = NULL THEN next ELSE @,
                             !.tail = IF next = NULL THEN prev ELSE @]
  OBVIOUS
<1>8. m = ListOf(IF prev = NULL THEN next ELSE h, IF next = NULL THEN prev ELSE t, c - 1, g)
  BY <1>6, <1>7 DEF ListOf
<1>9. RemoveInternal(l, n) =
        [m EXCEPT !.link = [x \in DOMAIN @ |->
                              IF x = next THEN [@[x] EXCEPT !.previous = prev]
                              ELSE IF x = prev THEN [@[x] EXCEPT !.next = next] ELSE @[x]]]
  BY <1>3, <1>4, <1>5, <1>7 DEF RemoveInternal
<1>10. PICK k : k = [x \in D \ {n} |-> IF x = next THEN [g[x] EXCEPT !.previous = prev]
                                       ELSE IF x = prev THEN [g[x] EXCEPT !.next = next] ELSE g[x]]
  OBVIOUS
<1>11. RemoveInternal(l, n) =
         ListOf(IF prev = NULL THEN next ELSE h, IF next = NULL THEN prev ELSE t, c - 1, k)
  <2>1. m.link = g /\ DOMAIN g = D \ {n}
    BY <1>2, <1>8 DEF ListOf
  <2>2. RemoveInternal(l, n) = [m EXCEPT !.link = k]
    BY <1>9, <1>10, <2>1
  <2> QED
    BY <1>8, <2>2 DEF ListOf
<1>12. k = Bridged(f, n)
  BY <1>2, <1>4, <1>10 DEF Pair, Bridged, Links
<1> QED
  BY <1>1, <1>4, <1>11, <1>12

----------------------------------------------------------------------------
(* A list is right when its fields spell one sequence of nodes              *)

NodesOf(k, s) == {s[i] : i \in 1 .. k}

Chain(N, l, k, s) ==
  /\ k \in Nat
  /\ s \in [1 .. k -> N]
  /\ \A i, j \in 1 .. k : s[i] = s[j] => i = j
  /\ l = ListOf(IF k = 0 THEN NULL ELSE s[1], IF k = 0 THEN NULL ELSE s[k], k, l.link)
  /\ l.link \in [NodesOf(k, s) -> Links(N)]
  /\ \A i \in 1 .. k : l.link[s[i]] = Pair(IF i = k THEN NULL ELSE s[i + 1],
                                           IF i = 1 THEN NULL ELSE s[i - 1])
Chained(N, l) == \E k, s : Chain(N, l, k, s)

\* The sequence with a node at its end, and without the j-th.
With(k, s, n)    == [i \in 1 .. k + 1 |-> IF i = k + 1 THEN n ELSE s[i]]
Without(k, s, j) == [i \in 1 .. k - 1 |-> IF i < j THEN s[i] ELSE s[i + 1]]

LEMMA ChainIs ==
  ASSUME NEW N, NULL \notin N, NEW l, NEW k, NEW s, Chain(N, l, k, s)
  PROVE  /\ k \in Nat /\ s \in [1 .. k -> N] /\ \A i, j \in 1 .. k : s[i] = s[j] => i = j
         /\ l.head = (IF k = 0 THEN NULL ELSE s[1])
         /\ l.tail = (IF k = 0 THEN NULL ELSE s[k])
         /\ l.length = k
         /\ DOMAIN l.link = NodesOf(k, s)
         /\ \A i \in 1 .. k : /\ s[i] \in DOMAIN l.link /\ s[i] # NULL
                              /\ l.link[s[i]].next = (IF i = k THEN NULL ELSE s[i + 1])
                              /\ l.link[s[i]].previous = (IF i = 1 THEN NULL ELSE s[i - 1])
<1>1. k \in Nat /\ s \in [1 .. k -> N] /\ \A i, j \in 1 .. k : s[i] = s[j] => i = j
  BY DEF Chain
<1>2. /\ l.head = (IF k = 0 THEN NULL ELSE s[1])
      /\ l.tail = (IF k = 0 THEN NULL ELSE s[k])
      /\ l.length = k
  BY DEF Chain, ListOf
<1>3. DOMAIN l.link = NodesOf(k, s)
  BY DEF Chain
<1>4. ASSUME NEW i \in 1 .. k
      PROVE  /\ s[i] \in DOMAIN l.link /\ s[i] # NULL
             /\ l.link[s[i]].next = (IF i = k THEN NULL ELSE s[i + 1])
             /\ l.link[s[i]].previous = (IF i = 1 THEN NULL ELSE s[i - 1])
  <2>1. s[i] \in DOMAIN l.link /\ s[i] # NULL
    BY <1>1, <1>3 DEF NodesOf
  <2>2. l.link[s[i]] = Pair(IF i = k THEN NULL ELSE s[i + 1], IF i = 1 THEN NULL ELSE s[i - 1])
    BY DEF Chain
  <2> QED
    BY <2>1, <2>2 DEF Pair
<1> QED
  BY <1>1, <1>2, <1>3, <1>4

LEMMA EmptyChained == ASSUME NEW N PROVE Chained(N, EmptyList) /\ DOMAIN EmptyList.link = {}
<1>1. PICK s : s = [i \in 1 .. 0 |-> NULL]
  OBVIOUS
<1>2. NodesOf(0, s) = {} /\ s \in [1 .. 0 -> N]
  BY <1>1 DEF NodesOf
<1>3. EmptyList.link = <<>> /\ EmptyList = ListOf(NULL, NULL, 0, EmptyList.link)
  BY DEF EmptyList, ListOf
<1>4. <<>> \in [{} -> Links(N)] /\ DOMAIN <<>> = {}
  OBVIOUS
<1>5. Chain(N, EmptyList, 0, s)
  BY <1>1, <1>2, <1>3, <1>4 DEF Chain
<1> QED
  BY <1>3, <1>5 DEF Chained

LEMMA ChainFacts ==
  ASSUME NEW N, NULL \notin N, NEW l, Chained(N, l)
  PROVE  /\ DOMAIN l.link \subseteq N
         /\ l.head = NULL <=> DOMAIN l.link = {}
         /\ l.length = 0 <=> DOMAIN l.link = {}
         /\ l.head # NULL => l.head \in DOMAIN l.link
<1>1. PICK k, s : Chain(N, l, k, s)
  BY DEF Chained
<1>2. DOMAIN l.link = NodesOf(k, s) /\ k \in Nat /\ s \in [1 .. k -> N]
  BY <1>1 DEF Chain
<1>3. l.head = (IF k = 0 THEN NULL ELSE s[1]) /\ l.length = k
  BY <1>1 DEF Chain, ListOf
<1>4. NodesOf(k, s) \subseteq N /\ NULL \notin N
  BY <1>2 DEF NodesOf
<1>5. CASE k = 0
  BY <1>2, <1>3, <1>5 DEF NodesOf
<1>6. CASE k # 0
  <2>1. 1 \in 1 .. k
    BY <1>2, <1>6
  <2> QED
    BY <1>2, <1>3, <1>4, <1>6, <2>1 DEF NodesOf
<1> QED
  BY <1>5, <1>6

LEMMA PushedChain ==
  ASSUME NEW N, NULL \notin N, NEW l, NEW k, NEW s, Chain(N, l, k, s), NEW n \in N, n \notin DOMAIN l.link
  PROVE  Chain(N, Attach(l, n, "tail"), k + 1, With(k, s, n))
<1>1. Chain(N, l, k, s)
  OBVIOUS
<1>2. /\ k \in Nat /\ s \in [1 .. k -> N]
      /\ \A i, j \in 1 .. k : s[i] = s[j] => i = j
  BY <1>1 DEF Chain
<1>3. PICK D, f : D = NodesOf(k, s) /\ f = l.link
  OBVIOUS
<1>4. PICK h, t : h = (IF k = 0 THEN NULL ELSE s[1]) /\ t = (IF k = 0 THEN NULL ELSE s[k])
  OBVIOUS
<1>5. l = ListOf(h, t, k, f) /\ f \in [D -> Links(N)] /\ DOMAIN f = D
  BY <1>1, <1>3, <1>4 DEF Chain
<1>6. \A i \in 1 .. k : s[i] \in D /\ s[i] # n
  BY <1>3, <1>5 DEF NodesOf
<1>7. (t = NULL <=> k = 0) /\ (k # 0 => t = s[k] /\ k \in 1 .. k)
  BY <1>2, <1>4
<1>8. PICK g : g = Attached(f, t, n)
  OBVIOUS
<1>9. g = [x \in D \union {n} |-> IF x = n THEN Pair(NULL, t)
                                   ELSE IF x = t THEN Pair(n, f[x].previous) ELSE f[x]]
  BY <1>5, <1>8 DEF Attached
<1>10. PICK a : a = Attach(l, n, "tail")
  OBVIOUS
<1>11. a = ListOf(IF t = NULL THEN n ELSE h, n, k + 1, g)
  BY <1>5, <1>8, <1>10, AttachForm
<1>12. PICK z : z = [i \in 1 .. k + 1 |-> IF i = k + 1 THEN n ELSE s[i]]
  OBVIOUS
<1>13. z \in [1 .. k + 1 -> N] /\ \A i, j \in 1 .. k + 1 : z[i] = z[j] => i = j
  BY <1>2, <1>6, <1>12
<1>14. NodesOf(k + 1, z) = D \union {n}
  BY <1>2, <1>3, <1>12 DEF NodesOf
<1>15. g \in [NodesOf(k + 1, z) -> Links(N)]
  <2>1. t \in N \union {NULL}
    BY <1>2, <1>4, <1>7
  <2>2. \A x \in D : f[x] \in Links(N)
    BY <1>5
  <2> QED
    BY <1>9, <1>14, <2>1, <2>2 DEF Pair, Links
<1>16. \A i \in 1 .. k + 1 : g[z[i]] = Pair(IF i = k + 1 THEN NULL ELSE z[i + 1],
                                            IF i = 1 THEN NULL ELSE z[i - 1])
  <2> SUFFICES ASSUME NEW i \in 1 .. k + 1
               PROVE  g[z[i]] = Pair(IF i = k + 1 THEN NULL ELSE z[i + 1],
                                     IF i = 1 THEN NULL ELSE z[i - 1])
    OBVIOUS
  <2>1. CASE i = k + 1
    <3>1. g[z[i]] = Pair(NULL, t)
      BY <1>9, <1>12, <2>1
    <3>2. t = IF i = 1 THEN NULL ELSE z[i - 1]
      BY <1>2, <1>4, <1>12, <2>1
    <3> QED
      BY <2>1, <3>1, <3>2
  <2>2. CASE i # k + 1
    <3>1. i \in 1 .. k /\ z[i] = s[i] /\ i + 1 \in 1 .. k + 1
      BY <1>2, <1>12, <2>2
    <3>2. f[s[i]] = Pair(IF i = k THEN NULL ELSE s[i + 1], IF i = 1 THEN NULL ELSE s[i - 1])
      BY <1>1, <1>3, <3>1 DEF Chain
    <3>3. i # 1 => z[i - 1] = s[i - 1]
      BY <1>2, <1>12, <3>1
    <3>4. CASE i = k
      <4>1. g[z[i]] = Pair(n, f[s[i]].previous) /\ z[i + 1] = n
        BY <1>6, <1>7, <1>9, <1>12, <3>1, <3>4
      <4> QED
        BY <2>2, <3>2, <3>3, <4>1 DEF Pair
    <3>5. CASE i # k
      <4>1. z[i + 1] = s[i + 1] /\ s[i] # t
        BY <1>2, <1>7, <1>12, <3>1, <3>5
      <4>2. g[z[i]] = f[s[i]]
        BY <1>6, <1>9, <3>1, <4>1
      <4> QED
        BY <2>2, <3>2, <3>3, <3>5, <4>1, <4>2
    <3> QED
      BY <3>4, <3>5
  <2> QED
    BY <2>1, <2>2
<1>17. /\ a.link = g /\ a.head = (IF t = NULL THEN n ELSE h)
       /\ z[k + 1] = n /\ z[1] = (IF t = NULL THEN n ELSE h) /\ k + 1 \in Nat /\ k + 1 # 0
  <2>1. k + 1 \in 1 .. k + 1 /\ 1 \in 1 .. k + 1 /\ (k = 0 \/ 1 # k + 1)
    BY <1>2
  <2> QED
    BY <1>2, <1>4, <1>7, <1>11, <1>12, <2>1 DEF ListOf
<1>18. Chain(N, a, k + 1, z)
  BY <1>11, <1>13, <1>15, <1>16, <1>17 DEF Chain
<1> QED
  BY <1>18, <1>10, <1>12 DEF With

LEMMA Pushed ==
  ASSUME NEW N, NULL \notin N, NEW l, Chained(N, l), NEW n \in N, n \notin DOMAIN l.link
  PROVE  /\ Chained(N, Attach(l, n, "tail"))
         /\ DOMAIN Attach(l, n, "tail").link = DOMAIN l.link \union {n}
         /\ Attach(l, n, "tail").head = IF DOMAIN l.link = {} THEN n ELSE l.head
<1>1. PICK k, s : Chain(N, l, k, s)
  BY DEF Chained
<1>2. PICK a, z : a = Attach(l, n, "tail") /\ z = With(k, s, n)
  OBVIOUS
<1>3. Chain(N, a, k + 1, z)
  BY <1>1, <1>2, PushedChain
<1>4. /\ k \in Nat /\ DOMAIN l.link = NodesOf(k, s) /\ DOMAIN a.link = NodesOf(k + 1, z)
      /\ l.head = (IF k = 0 THEN NULL ELSE s[1]) /\ a.head = (IF k + 1 = 0 THEN NULL ELSE z[1])
  BY <1>1, <1>3, ChainIs
<1>5. NodesOf(k + 1, z) = NodesOf(k, s) \union {n}
  BY <1>2, <1>4 DEF NodesOf, With
<1>6. z[1] = IF k = 0 THEN n ELSE s[1]
  BY <1>2, <1>4 DEF With
<1>7. NodesOf(k, s) = {} <=> k = 0
  <2>1. k # 0 => 1 \in 1 .. k
    BY <1>4
  <2>2. k = 0 => 1 .. k = {}
    OBVIOUS
  <2> QED
    BY <2>1, <2>2 DEF NodesOf
<1> QED
  BY <1>2, <1>3, <1>4, <1>5, <1>6, <1>7 DEF Chained

LEMMA RemovedChain ==
  ASSUME NEW N, NULL \notin N, NEW l, NEW k, NEW s, Chain(N, l, k, s), NEW j \in 1 .. k,
         NEW n, n = s[j]
  PROVE  /\ Chain(N, RemoveInternal(l, n), k - 1, Without(k, s, j))
         /\ NodesOf(k - 1, Without(k, s, j)) = NodesOf(k, s) \ {n}
<1>1. Chain(N, l, k, s)
  OBVIOUS
<1>2. /\ k \in Nat /\ s \in [1 .. k -> N]
      /\ \A a, b \in 1 .. k : s[a] = s[b] => a = b
  BY <1>1 DEF Chain
<1>3. PICK D, f : D = NodesOf(k, s) /\ f = l.link
  OBVIOUS
<1>4. l = ListOf(s[1], s[k], k, f) /\ f \in [D -> Links(N)] /\ DOMAIN f = D /\ n \in D
  <2>1. n \in NodesOf(k, s)
    BY DEF NodesOf
  <2>2. k # 0
    BY <2>1 DEF NodesOf
  <2> QED
    BY <1>1, <1>3, <2>1, <2>2 DEF Chain
<1>5. j \in 1 .. k /\ n = s[j]
  OBVIOUS
<1>6. \A i \in 1 .. k : s[i] \in D /\ s[i] # NULL /\ s[i] \in N
  BY <1>2, <1>3 DEF NodesOf
<1>7. \A i \in 1 .. k : f[s[i]] = Pair(IF i = k THEN NULL ELSE s[i + 1],
                                       IF i = 1 THEN NULL ELSE s[i - 1])
  BY <1>1, <1>3 DEF Chain
<1>8. PICK next, prev : /\ next = (IF j = k THEN NULL ELSE s[j + 1])
                        /\ prev = (IF j = 1 THEN NULL ELSE s[j - 1])
  OBVIOUS
<1>9. f[n].next = next /\ f[n].previous = prev
  <2>1. f[n] = Pair(next, prev)
    BY <1>5, <1>7, <1>8
  <2> QED
    BY <2>1 DEF Pair
<1>10. /\ next = NULL <=> j = k
       /\ prev = NULL <=> j = 1
       /\ \A i \in 1 .. k : (s[i] = next <=> i = j + 1) /\ (s[i] = prev <=> i = j - 1)
  <2>1. j # k => j + 1 \in 1 .. k
    BY <1>2, <1>5
  <2>2. j # 1 => j - 1 \in 1 .. k
    BY <1>2, <1>5
  <2>3. next = NULL <=> j = k
    BY <1>6, <1>8, <2>1
  <2>4. prev = NULL <=> j = 1
    BY <1>6, <1>8, <2>2
  <2>5. ASSUME NEW i \in 1 .. k PROVE s[i] = next <=> i = j + 1
    <3>1. CASE j = k
      BY <1>2, <1>6, <1>8, <2>5, <3>1
    <3>2. CASE j # k
      BY <1>2, <1>8, <2>1, <2>5, <3>2
    <3> QED
      BY <3>1, <3>2
  <2>6. ASSUME NEW i \in 1 .. k PROVE s[i] = prev <=> i = j - 1
    <3>1. CASE j = 1
      BY <1>2, <1>6, <1>8, <2>6, <3>1
    <3>2. CASE j # 1
      BY <1>2, <1>8, <2>2, <2>6, <3>2
    <3> QED
      BY <3>1, <3>2
  <2> QED
    BY <2>3, <2>4, <2>5, <2>6
<1>11. PICK a, g : a = RemoveInternal(l, n) /\ g = Bridged(f, n)
  OBVIOUS
<1>12. a = ListOf(IF prev = NULL THEN next ELSE s[1], IF next = NULL THEN prev ELSE s[k], k - 1, g)
  BY <1>4, <1>9, <1>11, RemoveForm
<1>13. g = [x \in D \ {n} |-> IF x = next THEN Pair(f[x].next, prev)
                              ELSE IF x = prev THEN Pair(next, f[x].previous) ELSE f[x]]
  BY <1>4, <1>9, <1>11 DEF Bridged
<1>14. PICK z : z = [i \in 1 .. k - 1 |-> IF i < j THEN s[i] ELSE s[i + 1]]
  OBVIOUS
<1>15. ASSUME NEW i \in 1 .. k - 1
       PROVE  \E m \in 1 .. k : m # j /\ z[i] = s[m] /\ m = IF i < j THEN i ELSE i + 1
  <2>1. (IF i < j THEN i ELSE i + 1) \in 1 .. k
    BY <1>2, <1>5
  <2> QED
    BY <1>2, <1>5, <1>14, <2>1
<1>16. z \in [1 .. k - 1 -> N] /\ \A i, m \in 1 .. k - 1 : z[i] = z[m] => i = m
  <2>1. \A i \in 1 .. k - 1 : z[i] \in N
    BY <1>6, <1>15
  <2>2. ASSUME NEW i \in 1 .. k - 1, NEW m \in 1 .. k - 1, z[i] = z[m] PROVE i = m
    <3>1. PICK p \in 1 .. k : z[i] = s[p] /\ p = IF i < j THEN i ELSE i + 1
      BY <1>15
    <3>2. PICK q \in 1 .. k : z[m] = s[q] /\ q = IF m < j THEN m ELSE m + 1
      BY <1>15
    <3>3. p = q
      BY <1>2, <2>2, <3>1, <3>2
    <3> QED
      BY <1>2, <1>5, <3>1, <3>2, <3>3
  <2> QED
    BY <1>14, <2>1, <2>2
<1>17. NodesOf(k - 1, z) = D \ {n}
  <2>1. ASSUME NEW i \in 1 .. k - 1 PROVE z[i] \in D \ {n}
    BY <1>2, <1>5, <1>6, <1>15
  <2>2. ASSUME NEW x \in D \ {n} PROVE x \in NodesOf(k - 1, z)
    <3>1. PICK m \in 1 .. k : x = s[m]
      BY <1>3 DEF NodesOf
    <3>2. m # j
      BY <1>5, <3>1
    <3>3. CASE m < j
      <4>1. m \in 1 .. k - 1 /\ z[m] = s[m]
        BY <1>2, <1>5, <1>14, <3>3
      <4> QED
        BY <3>1, <4>1 DEF NodesOf
    <3>4. CASE j < m
      <4>1. m - 1 \in 1 .. k - 1 /\ z[m - 1] = s[m]
        BY <1>2, <1>5, <1>14, <3>4
      <4> QED
        BY <3>1, <4>1 DEF NodesOf
    <3> QED
      BY <1>5, <3>2, <3>3, <3>4
  <2> QED
    BY <2>1, <2>2 DEF NodesOf
<1>18. next \in N \union {NULL} /\ prev \in N \union {NULL}
  BY <1>2, <1>5, <1>6, <1>8
<1>19. g \in [NodesOf(k - 1, z) -> Links(N)]
  <2>1. \A x \in D : f[x] \in Links(N)
    BY <1>4
  <2> QED
    BY <1>13, <1>17, <1>18, <2>1 DEF Pair, Links
<1>20. ASSUME NEW i \in 1 .. k - 1
       PROVE  g[z[i]] = Pair(IF i = k - 1 THEN NULL ELSE z[i + 1], IF i = 1 THEN NULL ELSE z[i - 1])
  <2>1. PICK m \in 1 .. k : m # j /\ z[i] = s[m] /\ m = IF i < j THEN i ELSE i + 1
    BY <1>15
  <2>2. s[m] \in D \ {n}
    BY <1>2, <1>5, <1>6, <2>1
  <2>3. f[s[m]] = Pair(IF m = k THEN NULL ELSE s[m + 1], IF m = 1 THEN NULL ELSE s[m - 1])
    BY <1>7
  <2>4. g[z[i]] = IF m = j + 1 THEN Pair(f[s[m]].next, prev)
                  ELSE IF m = j - 1 THEN Pair(next, f[s[m]].previous) ELSE f[s[m]]
    BY <1>10, <1>13, <2>1, <2>2
  <2>5. /\ i # k - 1 => z[i + 1] = IF i + 1 < j THEN s[i + 1] ELSE s[i + 2]
        /\ i # 1 => z[i - 1] = IF i - 1 < j THEN s[i - 1] ELSE s[i]
    BY <1>2, <1>14
  <2>6. CASE m = j + 1
    <3>1. i = j /\ (i = k - 1 <=> m = k)
      BY <1>2, <1>5, <2>1, <2>6
    <3>2. (IF i = k - 1 THEN NULL ELSE z[i + 1]) = f[s[m]].next
      BY <1>2, <1>5, <2>3, <2>5, <2>6, <3>1 DEF Pair
    <3>3. (IF i = 1 THEN NULL ELSE z[i - 1]) = prev
      BY <1>2, <1>5, <1>8, <2>5, <2>6, <3>1
    <3> QED
      BY <2>4, <2>6, <3>2, <3>3
  <2>7. CASE m = j - 1
    <3>1. i = j - 1 /\ (i = k - 1 <=> j = k) /\ m # j + 1
      BY <1>2, <1>5, <2>1, <2>7
    <3>2. (IF i = k - 1 THEN NULL ELSE z[i + 1]) = next
      BY <1>2, <1>5, <1>8, <2>5, <2>7, <3>1
    <3>3. (IF i = 1 THEN NULL ELSE z[i - 1]) = f[s[m]].previous
      BY <1>2, <1>5, <2>3, <2>5, <2>7, <3>1 DEF Pair
    <3> QED
      BY <2>4, <2>7, <3>1, <3>2, <3>3
  <2>8. CASE m # j + 1 /\ m # j - 1
    <3>1. (IF i = k - 1 THEN NULL ELSE z[i + 1]) = (IF m = k THEN NULL ELSE s[m + 1])
      BY <1>2, <1>5, <2>1, <2>5, <2>8
    <3>2. (IF i = 1 THEN NULL ELSE z[i - 1]) = (IF m = 1 THEN NULL ELSE s[m - 1])
      BY <1>2, <1>5, <2>1, <2>5, <2>8
    <3> QED
      BY <2>3, <2>4, <2>8, <3>1, <3>2
  <2> QED
    BY <2>6, <2>7, <2>8
<1>21. /\ (IF prev = NULL THEN next ELSE s[1]) = (IF k - 1 = 0 THEN NULL ELSE z[1])
       /\ (IF next = NULL THEN prev ELSE s[k]) = (IF k - 1 = 0 THEN NULL ELSE z[k - 1])
  <2>1. k # 1 => z[1] = (IF 1 < j THEN s[1] ELSE s[2]) /\ z[k - 1] = (IF k - 1 < j THEN s[k - 1] ELSE s[k])
    BY <1>2, <1>14
  <2>2. CASE k = 1
    BY <1>5, <1>8, <1>10, <2>2
  <2>3. CASE k # 1
    BY <1>2, <1>5, <1>8, <1>10, <2>1, <2>3
  <2> QED
    BY <2>2, <2>3
<1>22. a.link = g /\ k - 1 \in Nat
  BY <1>2, <1>5, <1>12 DEF ListOf
<1>23. Chain(N, a, k - 1, z)
  BY <1>12, <1>16, <1>19, <1>20, <1>21, <1>22 DEF Chain
<1> QED
  BY <1>3, <1>11, <1>14, <1>17, <1>23 DEF Without

LEMMA Removed ==
  ASSUME NEW N, NULL \notin N, NEW l, Chained(N, l), NEW n \in DOMAIN l.link
  PROVE  /\ Chained(N, RemoveInternal(l, n))
         /\ DOMAIN RemoveInternal(l, n).link = DOMAIN l.link \ {n}
         /\ n # l.head => RemoveInternal(l, n).head = l.head
<1>1. PICK k, s : Chain(N, l, k, s)
  BY DEF Chained
<1>2. PICK j \in 1 .. k : n = s[j]
  <2>1. DOMAIN l.link = NodesOf(k, s)
    BY <1>1, ChainIs
  <2> QED
    BY <2>1 DEF NodesOf
<1>3. PICK a, z : a = RemoveInternal(l, n) /\ z = Without(k, s, j)
  OBVIOUS
<1>4. Chain(N, a, k - 1, z) /\ NodesOf(k - 1, z) = NodesOf(k, s) \ {n}
  BY <1>1, <1>2, <1>3, RemovedChain
<1>5. /\ k \in Nat /\ DOMAIN l.link = NodesOf(k, s) /\ DOMAIN a.link = NodesOf(k - 1, z)
      /\ l.head = (IF k = 0 THEN NULL ELSE s[1]) /\ a.head = (IF k - 1 = 0 THEN NULL ELSE z[1])
  BY <1>1, <1>4, ChainIs
<1>6. ASSUME n # l.head PROVE a.head = l.head
  <2>1. 1 < j /\ k - 1 # 0 /\ 1 \in 1 .. k - 1
    BY <1>2, <1>5, <1>6
  <2>2. z[1] = s[1]
    BY <1>3, <2>1 DEF Without
  <2> QED
    BY <1>5, <2>1, <2>2
<1> QED
  BY <1>3, <1>4, <1>5, <1>6 DEF Chained

\* Taking the first node off is removing it.
LEMMA Shifted ==
  ASSUME NEW N, NULL \notin N, NEW l, Chained(N, l), DOMAIN l.link # {}
  PROVE  Detach(l, "head") = RemoveInternal(l, l.head)
<1>1. PICK k, s : Chain(N, l, k, s)
  BY DEF Chained
<1>2. /\ k \in Nat /\ s \in [1 .. k -> N]
      /\ \A i, j \in 1 .. k : s[i] = s[j] => i = j
  BY <1>1 DEF Chain
<1>3. PICK D, f : D = NodesOf(k, s) /\ f = l.link
  OBVIOUS
<1>4. k # 0 /\ 1 \in 1 .. k /\ k \in 1 .. k
  <2>1. NodesOf(k, s) # {}
    BY <1>1 DEF Chain
  <2> QED
    BY <1>2, <2>1 DEF NodesOf
<1>5. PICK h, t : h = s[1] /\ t = s[k]
  OBVIOUS
<1>6. l = ListOf(h, t, k, f) /\ f \in [D -> Links(N)] /\ DOMAIN f = D /\ l.head = h
  <2>1. l = ListOf(h, t, k, f) /\ f \in [D -> Links(N)]
    BY <1>1, <1>3, <1>4, <1>5 DEF Chain
  <2> QED
    BY <2>1 DEF ListOf
<1>7. f[h] = Pair(IF k = 1 THEN NULL ELSE s[2], NULL)
  BY <1>1, <1>3, <1>4, <1>5 DEF Chain
<1>8. f[h].previous = NULL /\ f[h].next = (IF k = 1 THEN NULL ELSE s[2])
  BY <1>7 DEF Pair
<1>9. h \in D /\ NULL \notin D
  <2>1. D \subseteq N /\ h \in D
    BY <1>2, <1>3, <1>4, <1>5 DEF NodesOf
  <2> QED
    BY <2>1
<1>10. k # 1 => s[2] \in D /\ s[2] # h
  BY <1>2, <1>3, <1>4, <1>5 DEF NodesOf
<1>11. t = h <=> k = 1
  BY <1>2, <1>4, <1>5
<1>12. f[h].next # h /\ (f[h].next \in D \/ f[h].next = NULL) /\ (f[h].next = NULL <=> t = h)
  BY <1>8, <1>9, <1>10, <1>11
<1>13. Detach(l, "head") = ListOf(f[h].next, IF t = h THEN NULL ELSE t, k - 1, Detached(f, h))
  BY <1>6, <1>9, <1>12, DetachForm
<1>14. RemoveInternal(l, h) = ListOf(f[h].next, IF t = h THEN NULL ELSE t, k - 1, Bridged(f, h))
  <2>1. RemoveInternal(l, h) = ListOf(IF f[h].previous = NULL THEN f[h].next ELSE h,
                                      IF f[h].next = NULL THEN f[h].previous ELSE t, k - 1, Bridged(f, h))
    BY <1>6, <1>9, RemoveForm
  <2>2. (IF f[h].previous = NULL THEN f[h].next ELSE h) = f[h].next
        /\ (IF f[h].next = NULL THEN f[h].previous ELSE t) = (IF t = h THEN NULL ELSE t)
    BY <1>8, <1>12
  <2> QED
    BY <2>1, <2>2
<1>15. Detached(f, h) = Bridged(f, h)
  <2>1. \A x \in D : x # NULL
    BY <1>9
  <2> QED
    BY <1>6, <1>8, <2>1 DEF Detached, Bridged
<1> QED
  BY <1>6, <1>13, <1>14, <1>15

----------------------------------------------------------------------------
(* The other end: a list turned round is a list, and what the functions do  *)
(* at the head of one they do at the tail of the other                      *)

Turned(f)  == [x \in DOMAIN f |-> Pair(f[x].previous, f[x].next)]
Flip(l)    == ListOf(l.tail, l.head, l.length, Turned(l.link))
Back(k, s) == [i \in 1 .. k |-> s[k + 1 - i]]

LEMMA FlipForm ==
  ASSUME NEW h, NEW t, NEW c, NEW f
  PROVE  Flip(ListOf(h, t, c, f)) = ListOf(t, h, c, Turned(f))
BY DEF Flip, ListOf

LEMMA TurnedType ==
  ASSUME NEW D, NEW N, NEW f \in [D -> Links(N)]
  PROVE  Turned(f) \in [D -> Links(N)] /\ Turned(Turned(f)) = f
<1>1. \A x \in D : f[x] \in Links(N)
  OBVIOUS
<1>2. Turned(f) = [x \in D |-> Pair(f[x].previous, f[x].next)]
  BY DEF Turned
<1>3. \A x \in D : /\ Pair(f[x].previous, f[x].next) \in Links(N)
                   /\ Pair(Pair(f[x].previous, f[x].next).previous,
                           Pair(f[x].previous, f[x].next).next) = f[x]
  BY <1>1 DEF Pair, Links
<1>4. Turned(f) \in [D -> Links(N)]
  BY <1>2, <1>3
<1>5. PICK g : g = Turned(f)
  OBVIOUS
<1>6. DOMAIN g = D /\ \A x \in D : g[x] = Pair(f[x].previous, f[x].next)
  BY <1>2, <1>5
<1>7. Turned(g) = [x \in D |-> f[x]]
  BY <1>3, <1>6 DEF Turned
<1> QED
  BY <1>4, <1>5, <1>7

LEMMA FlipChain ==
  ASSUME NEW N, NULL \notin N, NEW l, NEW k, NEW s, Chain(N, l, k, s)
  PROVE  Chain(N, Flip(l), k, Back(k, s)) /\ Flip(Flip(l)) = l
<1>1. /\ k \in Nat /\ s \in [1 .. k -> N]
      /\ \A i, j \in 1 .. k : s[i] = s[j] => i = j
  BY DEF Chain
<1>2. PICK f, h, t : f = l.link /\ h = (IF k = 0 THEN NULL ELSE s[1]) /\ t = (IF k = 0 THEN NULL ELSE s[k])
  OBVIOUS
<1>3. l = ListOf(h, t, k, f) /\ f \in [NodesOf(k, s) -> Links(N)]
  BY <1>2 DEF Chain
<1>4. PICK g, z : g = Turned(f) /\ z = Back(k, s)
  OBVIOUS
<1>5. g \in [NodesOf(k, s) -> Links(N)] /\ Turned(g) = f
  BY <1>3, <1>4, TurnedType
<1>6. Flip(l) = ListOf(t, h, k, g)
  BY <1>3, <1>4, FlipForm
<1>7. Flip(Flip(l)) = l
  BY <1>3, <1>5, <1>6, FlipForm
<1>8. /\ z \in [1 .. k -> N]
      /\ \A i \in 1 .. k : k + 1 - i \in 1 .. k /\ z[i] = s[k + 1 - i]
  BY <1>1, <1>4 DEF Back
<1>9. ASSUME NEW i \in 1 .. k, NEW j \in 1 .. k, z[i] = z[j] PROVE i = j
  BY <1>1, <1>8, <1>9
<1>10. NodesOf(k, z) = NodesOf(k, s)
  <2>1. \A i \in 1 .. k : z[k + 1 - i] = s[i] /\ k + 1 - i \in 1 .. k
    <3> SUFFICES ASSUME NEW i \in 1 .. k PROVE z[k + 1 - i] = s[i] /\ k + 1 - i \in 1 .. k
      OBVIOUS
    <3>1. k + 1 - i \in 1 .. k /\ k + 1 - (k + 1 - i) = i
      BY <1>1
    <3> QED
      BY <1>8, <3>1
  <2> QED
    BY <1>8, <2>1 DEF NodesOf
<1>11. (IF k = 0 THEN NULL ELSE z[1]) = t /\ (IF k = 0 THEN NULL ELSE z[k]) = h
  BY <1>1, <1>2, <1>8
<1>12. ASSUME NEW i \in 1 .. k
       PROVE  g[z[i]] = Pair(IF i = k THEN NULL ELSE z[i + 1], IF i = 1 THEN NULL ELSE z[i - 1])
  <2>1. PICK j \in 1 .. k : j = k + 1 - i /\ z[i] = s[j]
    BY <1>8
  <2>2. f[s[j]].next = (IF j = k THEN NULL ELSE s[j + 1])
        /\ f[s[j]].previous = (IF j = 1 THEN NULL ELSE s[j - 1])
    BY <1>2, ChainIs
  <2>3. s[j] \in DOMAIN f
    BY <1>3 DEF NodesOf
  <2>4. g[z[i]] = Pair(f[s[j]].previous, f[s[j]].next)
    BY <1>4, <2>1, <2>3 DEF Turned
  <2>5. f[s[j]].previous = (IF i = k THEN NULL ELSE z[i + 1])
    <3>1. i # k => i + 1 \in 1 .. k /\ k + 1 - (i + 1) = j - 1
      BY <1>1, <2>1
    <3>2. j = 1 <=> i = k
      BY <1>1, <2>1
    <3> QED
      BY <1>8, <2>2, <3>1, <3>2
  <2>6. f[s[j]].next = (IF i = 1 THEN NULL ELSE z[i - 1])
    <3>1. i # 1 => i - 1 \in 1 .. k /\ k + 1 - (i - 1) = j + 1
      BY <1>1, <2>1
    <3>2. j = k <=> i = 1
      BY <1>1, <2>1
    <3> QED
      BY <1>8, <2>2, <3>1, <3>2
  <2> QED
    BY <2>4, <2>5, <2>6
<1>13. Flip(l).link = g
  BY <1>6 DEF ListOf
<1>14. Chain(N, Flip(l), k, z)
  BY <1>1, <1>5, <1>6, <1>8, <1>9, <1>10, <1>11, <1>12, <1>13 DEF Chain
<1> QED
  BY <1>4, <1>7, <1>14

LEMMA AttachFlip ==
  ASSUME NEW N, NULL \notin N, NEW l, NEW k, NEW s, Chain(N, l, k, s), NEW n \in N, n \notin DOMAIN l.link
  PROVE  /\ Flip(Attach(l, n, "head")) = Attach(Flip(l), n, "tail")
         /\ Flip(Flip(Attach(l, n, "head"))) = Attach(l, n, "head")
<1>1. PICK f, h, t, D : /\ f = l.link /\ D = NodesOf(k, s)
                        /\ h = (IF k = 0 THEN NULL ELSE s[1]) /\ t = (IF k = 0 THEN NULL ELSE s[k])
  OBVIOUS
<1>2. l = ListOf(h, t, k, f) /\ f \in [D -> Links(N)]
  BY <1>1 DEF Chain
<1>3. PICK g : g = [x \in DOMAIN f \union {n} |-> IF x = n THEN Pair(h, NULL)
                                                  ELSE IF x = h THEN Pair(f[x].next, n) ELSE f[x]]
  OBVIOUS
<1>4. Attach(l, n, "head") = ListOf(n, IF h = NULL THEN n ELSE t, k + 1, g)
  <2>1. l.head = h /\ l.link = f /\ l.length = k
    BY <1>2 DEF ListOf
  <2>2. g = [x \in DOMAIN f \union {n} |-> IF x = n THEN [Pair(NULL, NULL) EXCEPT !["next"] = h]
                                           ELSE IF x = h THEN [f[x] EXCEPT !["previous"] = n]
                                           ELSE f[x]]
    BY <1>2, <1>3 DEF Pair, Links
  <2>3. Attach(l, n, "head") =
          LET m == [l EXCEPT !.link = g, !["head"] = n, !.length = k + 1]
          IN IF h = NULL THEN [m EXCEPT !["tail"] = n] ELSE m
    BY <2>1, <2>2 DEF Attach, Inner, Outer, Opposite, Pair
  <2> QED
    BY <1>2, <2>3 DEF ListOf
<1>5. Turned(g) = Attached(Turned(f), h, n)
  <2>1. DOMAIN g = D \union {n} /\ DOMAIN f = D /\ n \notin D
    BY <1>1, <1>2, <1>3
  <2>2. PICK e : e = Turned(f)
    OBVIOUS
  <2>3. DOMAIN e = D /\ \A x \in D : e[x] = Pair(f[x].previous, f[x].next)
    BY <2>1, <2>2 DEF Turned
  <2>4. Turned(g) = [x \in D \union {n} |-> Pair(g[x].previous, g[x].next)]
    BY <2>1 DEF Turned
  <2>5. Attached(e, h, n) = [x \in D \union {n} |-> IF x = n THEN Pair(NULL, h)
                                                    ELSE IF x = h THEN Pair(n, e[x].previous) ELSE e[x]]
    BY <2>3 DEF Attached
  <2>6. ASSUME NEW x \in D \union {n}
        PROVE  Pair(g[x].previous, g[x].next) = IF x = n THEN Pair(NULL, h)
                                                ELSE IF x = h THEN Pair(n, e[x].previous) ELSE e[x]
    <3>1. g[x] = IF x = n THEN Pair(h, NULL) ELSE IF x = h THEN Pair(f[x].next, n) ELSE f[x]
      BY <1>3, <2>1
    <3> QED
      BY <2>3, <3>1 DEF Pair
  <2> QED
    BY <2>2, <2>4, <2>5, <2>6
<1>6. Turned(f) \in [D -> Links(N)]
  BY <1>2, TurnedType
<1>7. Flip(l) = ListOf(t, h, k, Turned(f))
  BY <1>2, FlipForm
<1>8. Attach(Flip(l), n, "tail") = ListOf(IF h = NULL THEN n ELSE t, n, k + 1, Attached(Turned(f), h, n))
  BY <1>6, <1>7, AttachForm
<1>9. Flip(Attach(l, n, "head")) = ListOf(IF h = NULL THEN n ELSE t, n, k + 1, Turned(g))
  BY <1>4, FlipForm
<1>10. Turned(Turned(g)) = g
  <2>1. h \in N \union {NULL}
    BY <1>1, ChainIs
  <2>2. \A x \in D : f[x] \in Links(N)
    BY <1>2
  <2>3. g \in [D \union {n} -> Links(N)]
    BY <1>2, <1>3, <2>1, <2>2 DEF Pair, Links
  <2> QED
    BY <2>3, TurnedType
<1> QED
  BY <1>4, <1>5, <1>8, <1>9, <1>10, FlipForm

LEMMA DetachFlip ==
  ASSUME NEW N, NULL \notin N, NEW l, NEW k, NEW s, Chain(N, l, k, s), k # 0
  PROVE  /\ Flip(Detach(l, "tail")) = Detach(Flip(l), "head")
         /\ Flip(Flip(Detach(l, "tail"))) = Detach(l, "tail")
<1>1. PICK f, h, t, D : f = l.link /\ D = NodesOf(k, s) /\ h = s[1] /\ t = s[k]
  OBVIOUS
<1>2. l = ListOf(h, t, k, f) /\ f \in [D -> Links(N)] /\ DOMAIN f = D
  BY <1>1 DEF Chain
<1>3. k \in Nat /\ 1 \in 1 .. k /\ k \in 1 .. k
  BY ChainIs
<1>4. /\ t \in D /\ NULL \notin D
      /\ f[t].previous = (IF k = 1 THEN NULL ELSE s[k - 1])
      /\ f[t].previous # t
      /\ f[t].previous \in D \/ f[t].previous = NULL
  <2>1. t \in D /\ f[t].previous = (IF k = 1 THEN NULL ELSE s[k - 1])
    BY <1>1, <1>3, ChainIs
  <2>2. NULL \notin D
    <3>1. \A i \in 1 .. k : s[i] # NULL
      BY ChainIs
    <3> QED
      BY <1>1, <3>1 DEF NodesOf
  <2>3. k # 1 => k - 1 \in 1 .. k /\ s[k - 1] \in D /\ s[k - 1] # t
    <3>1. k # 1 => k - 1 \in 1 .. k /\ k - 1 # k
      BY <1>3
    <3>2. \A i, j \in 1 .. k : s[i] = s[j] => i = j
      BY ChainIs
    <3> QED
      BY <1>1, <1>3, <3>1, <3>2 DEF NodesOf
  <2> QED
    BY <2>1, <2>2, <2>3
<1>5. PICK new, g : new = f[t].previous /\ g = Cut(f, t)
  OBVIOUS
<1>6. PICK u : u = Unlink(l, t)
  OBVIOUS
<1>7. u = ListOf(h, t, k - 1, g)
  BY <1>2, <1>5, <1>6, UnlinkForm
<1>8. l.tail = t /\ l.link = f
  BY <1>2 DEF ListOf
<1>9. Detach(l, "tail") =
        LET m == [u EXCEPT !["tail"] = new, !["head"] = IF @ = t THEN NULL ELSE @]
        IN IF new = NULL THEN m ELSE [m EXCEPT !.link[new]["next"] = NULL]
  BY <1>5, <1>6, <1>8 DEF Detach, Inner, Outer, Opposite
<1>10. PICK m : m = [u EXCEPT !["tail"] = new, !["head"] = IF @ = t THEN NULL ELSE @]
  OBVIOUS
<1>11. m = ListOf(IF h = t THEN NULL ELSE h, new, k - 1, g)
  BY <1>7, <1>10 DEF ListOf
<1>12. PICK b : b = [x \in D \ {t} |-> IF x = new THEN Pair(NULL, f[x].previous) ELSE f[x]]
  OBVIOUS
<1>13. Detach(l, "tail") = ListOf(IF h = t THEN NULL ELSE h, new, k - 1, b)
  <2>1. g = [x \in D \ {t} |-> f[x]]
    BY <1>2, <1>5 DEF Cut
  <2>2. CASE new = NULL
    <3>1. b = g
      BY <1>4, <1>12, <2>1, <2>2
    <3> QED
      BY <1>9, <1>10, <1>11, <2>2, <3>1
  <2>3. CASE new # NULL
    <3>1. new \in D \ {t} /\ f[new] \in Links(N) /\ g[new] = f[new]
      BY <1>2, <1>4, <1>5, <2>1, <2>3
    <3>2. PICK e : e = [g[new] EXCEPT !["next"] = NULL]
      OBVIOUS
    <3>3. e = Pair(NULL, f[new].previous)
      BY <3>1, <3>2 DEF Pair, Links
    <3>4. [g EXCEPT ![new] = e] = b
      BY <1>12, <2>1, <3>3
    <3>5. Detach(l, "tail") = [m EXCEPT !.link[new]["next"] = NULL]
      BY <1>9, <1>10, <2>3
    <3>6. m.link = g
      BY <1>11 DEF ListOf
    <3>7. Detach(l, "tail") = [m EXCEPT !.link = b]
      BY <3>2, <3>4, <3>5, <3>6
    <3> QED
      BY <1>11, <3>7 DEF ListOf
  <2> QED
    BY <2>2, <2>3
<1>14. PICK e : e = Turned(f)
  OBVIOUS
<1>15. /\ e \in [D -> Links(N)]
       /\ \A x \in D : e[x] = Pair(f[x].previous, f[x].next)
       /\ e[t].next = new
  <2>1. e \in [D -> Links(N)] /\ \A x \in D : e[x] = Pair(f[x].previous, f[x].next)
    BY <1>2, <1>14, TurnedType DEF Turned
  <2> QED
    BY <1>4, <1>5, <2>1 DEF Pair
<1>16. Detach(Flip(l), "head") = ListOf(new, IF h = t THEN NULL ELSE h, k - 1, Detached(e, t))
  <2>1. Flip(l) = ListOf(t, h, k, e)
    BY <1>2, <1>14, FlipForm
  <2>2. /\ t \in D /\ e[t].next # t /\ (e[t].next \in D \/ e[t].next = NULL) /\ NULL \notin D
    BY <1>4, <1>5, <1>15
  <2> QED
    BY <1>15, <2>1, <2>2, DetachForm
<1>17. Turned(b) = Detached(e, t)
  <2>1. DOMAIN b = D \ {t} /\ DOMAIN e = D
    BY <1>12, <1>15
  <2>2. Turned(b) = [x \in D \ {t} |-> Pair(b[x].previous, b[x].next)]
    BY <2>1 DEF Turned
  <2>3. Detached(e, t) = [x \in D \ {t} |-> IF x = new THEN Pair(e[x].next, NULL) ELSE e[x]]
    BY <1>15, <2>1 DEF Detached
  <2>4. ASSUME NEW x \in D \ {t}
        PROVE  Pair(b[x].previous, b[x].next) = IF x = new THEN Pair(e[x].next, NULL) ELSE e[x]
    BY <1>12, <1>15 DEF Pair
  <2> QED
    BY <2>2, <2>3, <2>4
<1>18. Turned(Turned(b)) = b
  <2>1. \A x \in D : f[x] \in Links(N)
    BY <1>2
  <2>2. b \in [D \ {t} -> Links(N)]
    BY <1>12, <2>1 DEF Pair, Links
  <2> QED
    BY <2>2, TurnedType
<1> QED
  BY <1>13, <1>16, <1>17, <1>18, FlipForm

----------------------------------------------------------------------------
(* Every call as what it does to the sequence                              *)

LEMMA UnshiftedChain ==
  ASSUME NEW N, NULL \notin N, NEW l, NEW k, NEW s, Chain(N, l, k, s), NEW n \in N, n \notin DOMAIN l.link
  PROVE  \E z : /\ Chain(N, Attach(l, n, "head"), k + 1, z)
                /\ z[1] = n /\ \A i \in 1 .. k : z[i + 1] = s[i]
<1>1. k \in Nat
  BY ChainIs
<1>2. PICK r, w, z : r = Back(k, s) /\ w = With(k, r, n) /\ z = Back(k + 1, w)
  OBVIOUS
<1>3. Chain(N, Flip(l), k, r)
  BY <1>2, FlipChain
<1>4. n \notin DOMAIN Flip(l).link
  BY DEF Flip, ListOf, Turned
<1>5. PICK a : a = Attach(l, n, "head")
  OBVIOUS
<1>6. Chain(N, Flip(a), k + 1, w)
  BY <1>2, <1>3, <1>4, <1>5, AttachFlip, PushedChain
<1>7. Chain(N, Flip(Flip(a)), k + 1, z)
  BY <1>2, <1>6, FlipChain
<1>8. Flip(Flip(a)) = a
  BY <1>5, AttachFlip
<1>9. z[1] = n /\ \A i \in 1 .. k : z[i + 1] = s[i]
  <2>1. k + 1 \in 1 .. k + 1 /\ 1 \in 1 .. k + 1 /\ z[1] = w[k + 1]
    BY <1>1, <1>2 DEF Back
  <2>2. ASSUME NEW i \in 1 .. k PROVE z[i + 1] = s[i]
    <3>1. i + 1 \in 1 .. k + 1 /\ k + 1 + 1 - (i + 1) = k + 1 - i /\ k + 1 - i \in 1 .. k
          /\ k + 1 - (k + 1 - i) = i
      BY <1>1
    <3>2. z[i + 1] = w[k + 1 - i]
      BY <1>2, <3>1 DEF Back
    <3>3. w[k + 1 - i] = r[k + 1 - i]
      BY <1>1, <1>2, <3>1 DEF With
    <3>4. r[k + 1 - i] = s[i]
      BY <1>2, <3>1 DEF Back
    <3> QED
      BY <3>2, <3>3, <3>4
  <2> QED
    BY <1>1, <1>2, <2>1, <2>2 DEF With
<1> QED
  BY <1>5, <1>7, <1>8, <1>9

LEMMA ShiftedChain ==
  ASSUME NEW N, NULL \notin N, NEW l, NEW k, NEW s, Chain(N, l, k, s), k # 0
  PROVE  Chain(N, Detach(l, "head"), k - 1, Without(k, s, 1))
<1>1. /\ k \in Nat /\ 1 \in 1 .. k /\ l.head = s[1] /\ s[1] \in DOMAIN l.link
  BY ChainIs
<1>2. Chained(N, l) /\ DOMAIN l.link # {}
  BY <1>1 DEF Chained
<1>3. Detach(l, "head") = RemoveInternal(l, s[1])
  BY <1>1, <1>2, Shifted
<1> QED
  BY <1>1, <1>3, RemovedChain

LEMMA PoppedChain ==
  ASSUME NEW N, NULL \notin N, NEW l, NEW k, NEW s, Chain(N, l, k, s), k # 0
  PROVE  \E z : /\ Chain(N, Detach(l, "tail"), k - 1, z)
                /\ \A i \in 1 .. k - 1 : z[i] = s[i]
<1>1. k \in Nat
  BY ChainIs
<1>2. PICK r, w, z : r = Back(k, s) /\ w = Without(k, r, 1) /\ z = Back(k - 1, w)
  OBVIOUS
<1>3. Chain(N, Flip(l), k, r)
  BY <1>2, FlipChain
<1>4. PICK a : a = Detach(l, "tail")
  OBVIOUS
<1>5. Chain(N, Flip(a), k - 1, w)
  BY <1>2, <1>3, <1>4, DetachFlip, ShiftedChain
<1>6. Chain(N, a, k - 1, z)
  <2>1. Chain(N, Flip(Flip(a)), k - 1, z)
    BY <1>2, <1>5, FlipChain
  <2> QED
    BY <1>4, <2>1, DetachFlip
<1>7. ASSUME NEW i \in 1 .. k - 1 PROVE z[i] = s[i]
  <2>1. /\ k - i \in 1 .. k - 1 /\ k - 1 + 1 - i = k - i
        /\ k - i + 1 \in 1 .. k /\ k + 1 - (k - i + 1) = i
    BY <1>1
  <2>2. z[i] = w[k - i]
    BY <1>2, <2>1 DEF Back
  <2>3. w[k - i] = r[k - i + 1]
    BY <1>2, <2>1 DEF Without
  <2>4. r[k - i + 1] = s[i]
    BY <1>2, <2>1 DEF Back
  <2> QED
    BY <2>2, <2>3, <2>4
<1> QED
  BY <1>4, <1>6, <1>7

\* Following the next pointers from the head spells the sequence.
LEMMA ValuesAre ==
  ASSUME NEW N, NULL \notin N, NEW l, NEW k, NEW s, Chain(N, l, k, s)
  PROVE  ListValues(l) = s /\ s \in Seq(N) /\ Len(s) = k
<1>1. /\ k \in Nat /\ s \in [1 .. k -> N] /\ l.length = k
      /\ l.head = (IF k = 0 THEN NULL ELSE s[1])
      /\ \A i \in 1 .. k : l.link[s[i]].next = (IF i = k THEN NULL ELSE s[i + 1])
  BY ChainIs
<1>2. PICK v : v = ListValues(l)
  OBVIOUS
<1>3. v = CHOOSE at : at = [i \in 1 .. k |-> IF i = 1 THEN l.head ELSE l.link[at[i - 1]].next]
  BY <1>1, <1>2 DEF ListValues
<1>4. s = [i \in 1 .. k |-> IF i = 1 THEN l.head ELSE l.link[s[i - 1]].next]
  <2>1. ASSUME NEW i \in 1 .. k PROVE s[i] = IF i = 1 THEN l.head ELSE l.link[s[i - 1]].next
    <3>1. CASE i = 1
      BY <1>1, <3>1
    <3>2. CASE i # 1
      <4>1. i - 1 \in 1 .. k /\ i - 1 # k /\ i - 1 + 1 = i
        BY <1>1, <3>2
      <4> QED
        BY <1>1, <3>2, <4>1
    <3> QED
      BY <3>1, <3>2
  <2> QED
    BY <1>1, <2>1
<1>5. v = [i \in 1 .. k |-> IF i = 1 THEN l.head ELSE l.link[v[i - 1]].next]
  BY <1>3, <1>4
<1>6. v = s
  <2>1. PICK bad : bad = {i \in 1 .. k : v[i] # s[i]}
    OBVIOUS
  <2>2. CASE bad = {}
    <3>1. \A i \in 1 .. k : v[i] = s[i]
      BY <2>1, <2>2
    <3>2. v = [i \in 1 .. k |-> v[i]]
      BY <1>5
    <3> QED
      BY <1>1, <3>1, <3>2
  <2>3. CASE bad # {}
    <3>1. bad \in SUBSET Nat
      BY <1>1, <2>1
    <3>2. PICK m \in bad : \A i \in bad : m <= i
      BY <2>3, <3>1, MinExists
    <3>3. m \in 1 .. k /\ v[m] # s[m]
      BY <2>1, <3>2
    <3>4. m # 1 => v[m - 1] = s[m - 1]
      <4>1. m # 1 => m - 1 \in 1 .. k /\ ~(m <= m - 1)
        BY <1>1, <3>3
      <4> QED
        BY <2>1, <3>2, <4>1
    <3>5. v[m] = IF m = 1 THEN l.head ELSE l.link[v[m - 1]].next
      BY <1>5, <3>3
    <3>6. s[m] = IF m = 1 THEN l.head ELSE l.link[s[m - 1]].next
      BY <1>4, <3>3
    <3> QED
      BY <3>3, <3>4, <3>5, <3>6
  <2> QED
    BY <2>2, <2>3
<1> QED
  BY <1>1, <1>2, <1>6

----------------------------------------------------------------------------
(* Walking to an index                                                     *)

Places(l)      == [i : Int, n : DOMAIN l.link \union {NULL}]
Step(l, i, at) == IF at.i > i THEN [i |-> at.i - 1, n |-> l.link[at.n].previous]
                              ELSE [i |-> at.i + 1, n |-> l.link[at.n].next]
Walked(l, i, w, at) == IF at.i = i \/ at.n = NULL THEN at.n ELSE w[Step(l, i, at)]

\* Where a walk towards index i ends that is at node n, thought to be the j-th.
Pos(k, s, n)         == CHOOSE p \in 1 .. k : s[p] = n
Nth(k, s, q)         == IF q \in 1 .. k THEN s[q] ELSE NULL
Reaches(k, s, i, at) == IF at.n = NULL THEN NULL ELSE Nth(k, s, Pos(k, s, at.n) + i - at.i)

LEMMA StepFacts ==
  ASSUME NEW N, NULL \notin N, NEW l, NEW k, NEW s, Chain(N, l, k, s), NEW i \in Int,
         NEW at \in Places(l), at.n # NULL, at.i # i
  PROVE  /\ Step(l, i, at) \in Places(l)
         /\ Step(l, i, at).i = IF at.i > i THEN at.i - 1 ELSE at.i + 1
         /\ Reaches(k, s, i, Step(l, i, at)) = Reaches(k, s, i, at)
<1>1. /\ k \in Nat /\ s \in [1 .. k -> N] /\ DOMAIN l.link = NodesOf(k, s)
      /\ \A p, q \in 1 .. k : s[p] = s[q] => p = q
      /\ \A p \in 1 .. k : /\ s[p] \in DOMAIN l.link /\ s[p] # NULL
                           /\ l.link[s[p]].next = (IF p = k THEN NULL ELSE s[p + 1])
                           /\ l.link[s[p]].previous = (IF p = 1 THEN NULL ELSE s[p - 1])
  BY ChainIs
<1>2. PICK n, j : n = at.n /\ j = at.i
  OBVIOUS
<1>3. n \in NodesOf(k, s) /\ j \in Int /\ n # NULL /\ j # i
  BY <1>1, <1>2 DEF Places
<1>4. PICK p \in 1 .. k : n = s[p]
  BY <1>3 DEF NodesOf
<1>5. \A q \in 1 .. k : Pos(k, s, s[q]) = q
  BY <1>1 DEF Pos
<1>6. Reaches(k, s, i, at) = Nth(k, s, p + i - j)
  BY <1>2, <1>3, <1>4, <1>5 DEF Reaches
<1>7. PICK b : b = Step(l, i, at)
  OBVIOUS
<1>8. CASE j > i
  <2>1. b = [i |-> j - 1, n |-> IF p = 1 THEN NULL ELSE s[p - 1]]
    <3>1. l.link[n].previous = IF p = 1 THEN NULL ELSE s[p - 1]
      BY <1>1, <1>4
    <3> QED
      BY <1>2, <1>7, <1>8, <3>1 DEF Step
  <2>2. p # 1 => p - 1 \in 1 .. k
    BY <1>1
  <2>3. b.i = j - 1 /\ b.n = (IF p = 1 THEN NULL ELSE s[p - 1]) /\ b \in Places(l)
    BY <1>1, <1>3, <2>1, <2>2 DEF Places
  <2>4. CASE p = 1
    <3>1. Nth(k, s, p + i - j) = NULL
      BY <1>1, <1>3, <1>8, <2>4 DEF Nth
    <3>2. Reaches(k, s, i, b) = NULL
      BY <2>3, <2>4 DEF Reaches
    <3> QED
      BY <1>2, <1>6, <1>7, <1>8, <2>3, <3>1, <3>2
  <2>5. CASE p # 1
    <3>1. Reaches(k, s, i, b) = Nth(k, s, (p - 1) + i - (j - 1))
      BY <1>1, <1>5, <2>2, <2>3, <2>5 DEF Reaches
    <3>2. (p - 1) + i - (j - 1) = p + i - j
      BY <1>3
    <3> QED
      BY <1>2, <1>6, <1>7, <1>8, <2>3, <3>1, <3>2
  <2> QED
    BY <1>2, <1>6, <1>7, <1>8, <2>3, <2>4, <2>5
<1>9. CASE ~(j > i)
  <2>1. b = [i |-> j + 1, n |-> IF p = k THEN NULL ELSE s[p + 1]]
    <3>1. l.link[n].next = IF p = k THEN NULL ELSE s[p + 1]
      BY <1>1, <1>4
    <3> QED
      BY <1>2, <1>7, <1>9, <3>1 DEF Step
  <2>2. p # k => p + 1 \in 1 .. k
    BY <1>1
  <2>3. b.i = j + 1 /\ b.n = (IF p = k THEN NULL ELSE s[p + 1]) /\ b \in Places(l)
    BY <1>1, <1>3, <2>1, <2>2 DEF Places
  <2>4. CASE p = k
    <3>1. Nth(k, s, p + i - j) = NULL
      BY <1>1, <1>3, <1>9, <2>4 DEF Nth
    <3>2. Reaches(k, s, i, b) = NULL
      BY <2>3, <2>4 DEF Reaches
    <3> QED
      BY <1>2, <1>6, <1>7, <1>9, <2>3, <3>1, <3>2
  <2>5. CASE p # k
    <3>1. Reaches(k, s, i, b) = Nth(k, s, (p + 1) + i - (j + 1))
      BY <1>1, <1>5, <2>2, <2>3, <2>5 DEF Reaches
    <3>2. (p + 1) + i - (j + 1) = p + i - j
      BY <1>3
    <3> QED
      BY <1>2, <1>6, <1>7, <1>9, <2>3, <3>1, <3>2
  <2> QED
    BY <1>2, <1>6, <1>7, <1>9, <2>3, <2>4, <2>5
<1> QED
  BY <1>8, <1>9

\* The recursion of a walk has one solution, and it is where the walk ends.
LEMMA WalkIs ==
  ASSUME NEW N, NULL \notin N, NEW l, NEW k, NEW s, Chain(N, l, k, s), NEW i \in Int,
         NEW w, w = CHOOSE v : v = [at \in Places(l) |-> Walked(l, i, v, at)]
  PROVE  \A at \in Places(l) : w[at] = Reaches(k, s, i, at)
<1>1. PICK e : e = [at \in Places(l) |-> Reaches(k, s, i, at)]
  OBVIOUS
<1>2. ASSUME NEW at \in Places(l), at.i = i \/ at.n = NULL PROVE Reaches(k, s, i, at) = at.n
  <2>1. CASE at.n = NULL
    BY <2>1 DEF Reaches
  <2>2. CASE at.n # NULL
    <3>1. k \in Nat /\ DOMAIN l.link = NodesOf(k, s)
      BY ChainIs
    <3>2. at.n \in NodesOf(k, s)
      BY <2>2, <3>1 DEF Places
    <3>3. PICK p : p = Pos(k, s, at.n)
      OBVIOUS
    <3>4. p \in 1 .. k /\ s[p] = at.n
      BY <3>2, <3>3 DEF NodesOf, Pos
    <3>5. p + i - at.i = p
      BY <1>2, <2>2, <3>1, <3>4
    <3> QED
      BY <2>2, <3>3, <3>4, <3>5 DEF Reaches, Nth
  <2> QED
    BY <2>1, <2>2
<1>3. ASSUME NEW at \in Places(l) PROVE e[at] = Walked(l, i, e, at)
  BY <1>1, <1>2, StepFacts DEF Walked
<1>4. e = [at \in Places(l) |-> Walked(l, i, e, at)]
  BY <1>1, <1>3
<1>5. w = [at \in Places(l) |-> Walked(l, i, w, at)]
  BY <1>4
<1>6. PICK far : far = [at \in Places(l) |-> IF at.i > i THEN at.i - i ELSE i - at.i]
  OBVIOUS
<1>7. \A at \in Places(l) : far[at] \in Nat
  BY <1>6 DEF Places
<1>8. PICK bad : bad = {m \in Nat : \E at \in Places(l) : far[at] = m /\ w[at] # e[at]}
  OBVIOUS
<1>9. bad = {}
  <2> SUFFICES ASSUME bad # {} PROVE FALSE
    OBVIOUS
  <2>1. PICK m \in bad : \A x \in bad : m <= x
    BY <1>8, MinExists
  <2>2. PICK at \in Places(l) : far[at] = m /\ w[at] # e[at]
    BY <1>8, <2>1
  <2>3. w[at] = Walked(l, i, w, at) /\ e[at] = Walked(l, i, e, at)
    BY <1>3, <1>5
  <2>4. at.n # NULL /\ at.i # i
    BY <2>2, <2>3 DEF Walked
  <2>5. PICK b : b = Step(l, i, at)
    OBVIOUS
  <2>6. b \in Places(l) /\ b.i = (IF at.i > i THEN at.i - 1 ELSE at.i + 1)
    BY <2>4, <2>5, StepFacts
  <2>7. at.i \in Int
    BY DEF Places
  <2>8. far[b] = far[at] - 1
    BY <1>6, <2>4, <2>6, <2>7
  <2>9. w[b] # e[b]
    BY <2>2, <2>3, <2>4, <2>5 DEF Walked
  <2>10. far[b] \in bad
    BY <1>7, <1>8, <2>6, <2>9
  <2> QED
    BY <1>8, <2>1, <2>2, <2>8, <2>10
<1>10. \A at \in Places(l) : w[at] = e[at]
  BY <1>7, <1>8, <1>9
<1> QED
  BY <1>1, <1>10

LEMMA ElementIs ==
  ASSUME NEW N, NULL \notin N, NEW l, NEW k, NEW s, Chain(N, l, k, s), NEW i \in Nat
  PROVE  ElementAt(l, i) = IF i < k THEN s[i + 1] ELSE NULL
<1>1. /\ k \in Nat /\ l.length = k /\ DOMAIN l.link = NodesOf(k, s)
      /\ l.head = (IF k = 0 THEN NULL ELSE s[1])
      /\ l.tail = (IF k = 0 THEN NULL ELSE s[k])
      /\ \A p, q \in 1 .. k : s[p] = s[q] => p = q
      /\ \A p \in 1 .. k : s[p] \in DOMAIN l.link /\ s[p] # NULL
  BY ChainIs
<1>2. PICK w : w = CHOOSE v : v = [at \in Places(l) |-> Walked(l, i, v, at)]
  OBVIOUS
<1>3. PICK c \in BOOLEAN : c = (i = l.length \div 2 \/ l.length = 1)
  OBVIOUS
<1>4. PICK a : a = IF c THEN [i |-> 0, n |-> l.head] ELSE [i |-> l.length - 1, n |-> l.tail]
  OBVIOUS
<1>5. ElementAt(l, i) = w[a]
  BY <1>2, <1>3, <1>4 DEF ElementAt, Places, Walked, Step
<1>6. a \in Places(l) /\ a.i = (IF c THEN 0 ELSE k - 1) /\ a.n = (IF c THEN l.head ELSE l.tail)
  BY <1>1, <1>4 DEF Places
<1>7. w[a] = Reaches(k, s, i, a)
  BY <1>2, <1>6, WalkIs
<1>8. CASE k = 0
  BY <1>1, <1>5, <1>6, <1>7, <1>8 DEF Reaches
<1>9. CASE k # 0
  <2>1. 1 \in 1 .. k /\ k \in 1 .. k
    BY <1>1, <1>9
  <2>2. \A q \in 1 .. k : Pos(k, s, s[q]) = q
    BY <1>1 DEF Pos
  <2>3. a.n # NULL /\ Pos(k, s, a.n) = (IF c THEN 1 ELSE k)
    BY <1>1, <1>6, <1>9, <2>1, <2>2
  <2>4. Pos(k, s, a.n) + i - a.i = i + 1
    BY <1>1, <1>6, <2>3
  <2>5. i + 1 \in 1 .. k <=> i < k
    BY <1>1
  <2> QED
    BY <1>5, <1>7, <2>3, <2>4, <2>5 DEF Reaches, Nth
<1> QED
  BY <1>8, <1>9

----------------------------------------------------------------------------
(* The list implements the deque                                           *)

LEMMA AppendIs ==
  ASSUME NEW N, NEW k, NEW s \in Seq(N), Len(s) = k, NEW n \in N,
         NEW z \in Seq(N), z = With(k, s, n), Len(z) = k + 1
  PROVE  z = Append(s, n)
<1>1. k \in Nat
  BY LenProperties
<1>2. PICK a : a = Append(s, n)
  OBVIOUS
<1>3. a \in Seq(N) /\ Len(a) = k + 1 /\ (\A i \in 1 .. k : a[i] = s[i]) /\ a[k + 1] = n
  BY <1>2, AppendProperties
<1>4. \A i \in 1 .. k + 1 : z[i] = a[i]
  BY <1>1, <1>3 DEF With
<1> QED
  BY <1>2, <1>3, <1>4, SeqEqual

LEMMA PrependIs ==
  ASSUME NEW N, NEW k, NEW s \in Seq(N), Len(s) = k, NEW n \in N, NEW z \in Seq(N), Len(z) = k + 1,
         z[1] = n, \A i \in 1 .. k : z[i + 1] = s[i]
  PROVE  z = <<n>> \o s
<1>1. k \in Nat
  BY LenProperties
<1>2. PICK e, a : e = <<n>> /\ a = e \o s
  OBVIOUS
<1>3. e \in Seq(N) /\ Len(e) = 1 /\ e[1] = n
  BY <1>2
<1>4. /\ a \in Seq(N) /\ Len(a) = 1 + k
      /\ \A i \in 1 .. 1 + k : a[i] = IF i <= 1 THEN e[i] ELSE s[i - 1]
  BY <1>2, <1>3, ConcatProperties
<1>5. ASSUME NEW i \in 1 .. k + 1 PROVE z[i] = a[i]
  <2>1. CASE i = 1
    BY <1>1, <1>3, <1>4, <2>1
  <2>2. CASE i # 1
    <3>1. i - 1 \in 1 .. k /\ (i - 1) + 1 = i /\ ~(i <= 1) /\ i \in 1 .. 1 + k
      BY <1>1, <2>2
    <3>2. z[i] = s[i - 1]
      BY <3>1
    <3> QED
      BY <1>4, <3>1, <3>2
  <2> QED
    BY <2>1, <2>2
<1>6. Len(z) = Len(a)
  BY <1>1, <1>4
<1> QED
  BY <1>2, <1>4, <1>5, <1>6, SeqEqual

LEMMA FrontIs ==
  ASSUME NEW N, NEW k, NEW s \in Seq(N), Len(s) = k, k # 0, NEW z \in Seq(N), Len(z) = k - 1,
         \A i \in 1 .. k - 1 : z[i] = s[i]
  PROVE  z = SubSeq(s, 1, k - 1)
<1>1. k \in Nat /\ \A i \in 1 .. k : s[i] \in N
  BY LenProperties, ElementOfSeq
<1>2. PICK a : a = SubSeq(s, 1, k - 1)
  OBVIOUS
<1>3. /\ a \in Seq(N) /\ Len(a) = k - 1
      /\ \A i \in 1 .. k - 1 : a[i] = s[i]
  <2>1. \A i \in 1 .. k - 1 : s[i] \in N
    BY <1>1
  <2>2. 1 \in Int /\ k - 1 \in Int /\ (k - 1) - 1 + 1 = k - 1
    BY <1>1
  <2>3. /\ a \in Seq(N) /\ Len(a) = (IF 1 <= k - 1 THEN (k - 1) - 1 + 1 ELSE 0)
        /\ \A i \in 1 .. (k - 1) - 1 + 1 : a[i] = s[1 + i - 1]
    BY <1>2, <2>1, <2>2, SubSeqProperties
  <2>4. \A i \in 1 .. k - 1 : 1 + i - 1 = i
    BY <1>1
  <2> QED
    BY <1>1, <2>2, <2>3, <2>4
<1> QED
  BY <1>2, <1>3, SeqEqual

LEMMA TailIs ==
  ASSUME NEW N, NEW k, NEW s \in Seq(N), Len(s) = k, k # 0, Without(k, s, 1) \in Seq(N),
         Len(Without(k, s, 1)) = k - 1
  PROVE  Without(k, s, 1) = Tail(s) /\ Head(s) = s[1] /\ s # <<>>
<1>1. k \in Nat
  BY LenProperties
<1>2. s # <<>>
  BY EmptySeq
<1>3. PICK z, a : z = Without(k, s, 1) /\ a = Tail(s)
  OBVIOUS
<1>4. a \in Seq(N) /\ Len(a) = k - 1 /\ \A i \in 1 .. k - 1 : a[i] = s[i + 1]
  BY <1>2, <1>3, HeadTailProperties
<1>5. \A i \in 1 .. k - 1 : z[i] = a[i]
  BY <1>1, <1>3, <1>4 DEF Without
<1>6. z = a
  BY <1>3, <1>4, <1>5, SeqEqual
<1> QED
  BY <1>2, <1>3, <1>6

LEMMA DropIs ==
  ASSUME NEW N, NEW k, NEW s \in Seq(N), Len(s) = k, NEW j \in 1 .. k, Without(k, s, j) \in Seq(N),
         Len(Without(k, s, j)) = k - 1
  PROVE  Without(k, s, j) = SubSeq(s, 1, j - 1) \o SubSeq(s, j + 1, k)
<1>1. k \in Nat /\ \A i \in 1 .. k : s[i] \in N
  BY LenProperties, ElementOfSeq
<1>2. PICK z, a, b, c : z = Without(k, s, j) /\ a = SubSeq(s, 1, j - 1) /\ b = SubSeq(s, j + 1, k) /\ c = a \o b
  OBVIOUS
<1>3. a \in Seq(N) /\ Len(a) = j - 1 /\ \A i \in 1 .. j - 1 : a[i] = s[i]
  <2>1. 1 \in Int /\ j - 1 \in Int /\ \A i \in 1 .. j - 1 : s[i] \in N
    BY <1>1
  <2>2. /\ a \in Seq(N) /\ Len(a) = (IF 1 <= j - 1 THEN (j - 1) - 1 + 1 ELSE 0)
        /\ \A i \in 1 .. (j - 1) - 1 + 1 : a[i] = s[1 + i - 1]
    BY <1>2, <2>1, SubSeqProperties
  <2> QED
    BY <1>1, <2>2
<1>4. b \in Seq(N) /\ Len(b) = k - j /\ \A i \in 1 .. k - j : b[i] = s[j + i]
  <2>1. j + 1 \in Int /\ k \in Int /\ \A i \in j + 1 .. k : s[i] \in N
    BY <1>1
  <2>2. /\ b \in Seq(N) /\ Len(b) = (IF j + 1 <= k THEN k - (j + 1) + 1 ELSE 0)
        /\ \A i \in 1 .. k - (j + 1) + 1 : b[i] = s[(j + 1) + i - 1]
    BY <1>2, <2>1, SubSeqProperties
  <2>3. k - (j + 1) + 1 = k - j /\ \A i \in 1 .. k - j : (j + 1) + i - 1 = j + i
    BY <1>1
  <2> QED
    BY <1>1, <2>2, <2>3
<1>5. /\ c \in Seq(N) /\ Len(c) = (j - 1) + (k - j)
      /\ \A i \in 1 .. (j - 1) + (k - j) : c[i] = IF i <= j - 1 THEN a[i] ELSE b[i - (j - 1)]
  <2>1. a \in Seq(N) /\ b \in Seq(N) /\ Len(a) = j - 1 /\ Len(b) = k - j
    BY <1>3, <1>4
  <2>2. /\ a \o b \in Seq(N) /\ Len(a \o b) = Len(a) + Len(b)
        /\ \A i \in 1 .. Len(a) + Len(b) : (a \o b)[i] = IF i <= Len(a) THEN a[i] ELSE b[i - Len(a)]
    BY <2>1, ConcatProperties
  <2>3. c = a \o b
    BY <1>2
  <2> QED
    BY <2>1, <2>2, <2>3
<1>6. ASSUME NEW i \in 1 .. k - 1 PROVE z[i] = c[i]
  <2>1. z[i] = IF i < j THEN s[i] ELSE s[i + 1]
    BY <1>2 DEF Without
  <2>2. c[i] = IF i <= j - 1 THEN a[i] ELSE b[i - (j - 1)]
    BY <1>1, <1>5
  <2>3. CASE i < j
    BY <1>1, <1>3, <2>1, <2>2, <2>3
  <2>4. CASE ~(i < j)
    <3>1. i - (j - 1) \in 1 .. k - j /\ j + (i - (j - 1)) = i + 1 /\ ~(i <= j - 1)
      BY <1>1, <2>4
    <3> QED
      BY <1>4, <2>1, <2>2, <2>4, <3>1
  <2> QED
    BY <2>3, <2>4
<1>7. Len(c) = k - 1
  BY <1>1, <1>5
<1> QED
  BY <1>2, <1>5, <1>6, <1>7, SeqEqual

ListInv  == Chained(ListNodes, lst)
ListSpec == ListInit /\ [][ListNext]_lvars

LEMMA ListStart == ASSUME ListAssumption, ListInit PROVE ListInv /\ Dq!Init
<1>1. Chained(ListNodes, lst)
  BY EmptyChained DEF ListInit
<1>2. ListValues(EmptyList) = <<>>
  BY DEF ListValues, EmptyList
<1> QED
  BY <1>1, <1>2 DEF ListInit, ListInv, Dq!Init

LEMMA ListStep == ASSUME ListAssumption, ListInv, [ListNext]_lvars PROVE ListInv' /\ [Dq!Next]_(Dq!qvars)
<1>1. PICK k, s : Chain(ListNodes, lst, k, s)
  BY DEF ListInv, Chained
<1>2. /\ NULL \notin ListNodes /\ ListValues(lst) = s /\ s \in Seq(ListNodes) /\ Len(s) = k
      /\ k \in Nat /\ lst.length = k /\ DOMAIN lst.link = NodesOf(k, s) /\ DOMAIN s = 1 .. k
      /\ lst.head = (IF k = 0 THEN NULL ELSE s[1]) /\ lst.tail = (IF k = 0 THEN NULL ELSE s[k])
      /\ \A i \in 1 .. k : s[i] # NULL
  BY <1>1, ValuesAre, ChainIs DEF ListAssumption
<1>3. ASSUME NEW k2, NEW z, Chain(ListNodes, lst', k2, z)
      PROVE  ListInv' /\ ListValues(lst)' = z /\ z \in Seq(ListNodes) /\ Len(z) = k2
  BY <1>2, <1>3, ValuesAre DEF ListInv, Chained
<1>4. ASSUME NEW n \in ListNodes, ListAdd(n, "tail") PROVE ListInv' /\ Dq!Add(n)
  <2>1. Chain(ListNodes, lst', k + 1, With(k, s, n))
    BY <1>1, <1>2, <1>4, PushedChain DEF ListAdd
  <2>2. ListInv' /\ ListValues(lst)' = Append(s, n)
    <3>1. PICK z : z = With(k, s, n)
      OBVIOUS
    <3>2. ListInv' /\ ListValues(lst)' = z /\ z \in Seq(ListNodes) /\ Len(z) = k + 1
      BY <1>3, <2>1, <3>1
    <3>3. z = Append(s, n)
      BY <1>2, <3>1, <3>2, AppendIs
    <3> QED
      BY <3>2, <3>3
  <2>3. \A i \in DOMAIN s : s[i] # n
    BY <1>2, <1>4 DEF ListAdd, NodesOf
  <2> QED
    BY <1>2, <1>4, <2>2, <2>3 DEF ListAdd, Dq!Add, Dq!Absent
<1>5. ASSUME NEW n \in ListNodes, ListAdd(n, "head") PROVE ListInv' /\ Dq!Add(n)
  <2>1. PICK z : /\ Chain(ListNodes, lst', k + 1, z)
                 /\ z[1] = n /\ \A i \in 1 .. k : z[i + 1] = s[i]
    <3>1. n \notin DOMAIN lst.link /\ lst' = Attach(lst, n, "head")
      BY <1>5 DEF ListAdd
    <3>2. \E z : /\ Chain(ListNodes, Attach(lst, n, "head"), k + 1, z)
                 /\ z[1] = n /\ \A i \in 1 .. k : z[i + 1] = s[i]
      BY <1>1, <1>2, <3>1, UnshiftedChain
    <3> QED
      BY <3>1, <3>2
  <2>2. ListInv' /\ ListValues(lst)' = <<n>> \o s
    <3>1. ListInv' /\ ListValues(lst)' = z /\ z \in Seq(ListNodes) /\ Len(z) = k + 1
      BY <1>3, <2>1
    <3>2. z = <<n>> \o s
      BY <1>2, <2>1, <3>1, PrependIs
    <3> QED
      BY <3>1, <3>2
  <2>3. \A i \in DOMAIN s : s[i] # n
    BY <1>2, <1>5 DEF ListAdd, NodesOf
  <2> QED
    BY <1>2, <1>5, <2>2, <2>3 DEF ListAdd, Dq!Add, Dq!Absent
<1>6. CASE ListTake("head")
  <2>1. CASE k = 0
    <3>1. lst' = lst /\ found' = <<>> /\ s = <<>>
      BY <1>2, <1>6, <2>1 DEF ListTake
    <3> QED
      BY <1>2, <3>1 DEF ListInv, Dq!Next, Dq!TakeFirst
  <2>2. CASE k # 0
    <3>1. lst' = Detach(lst, "head") /\ found' = <<s[1]>>
      <4>1. 1 \in 1 .. k
        BY <1>2, <2>2
      <4> QED
        BY <1>2, <1>6, <2>2, <4>1 DEF ListTake
    <3>2. Chain(ListNodes, lst', k - 1, Without(k, s, 1))
      BY <1>1, <1>2, <2>2, <3>1, ShiftedChain
    <3>3. /\ ListInv' /\ ListValues(lst)' = Without(k, s, 1)
          /\ Without(k, s, 1) \in Seq(ListNodes) /\ Len(Without(k, s, 1)) = k - 1
      BY <1>3, <3>2
    <3>4. ListValues(lst)' = Tail(s) /\ Head(s) = s[1] /\ s # <<>>
      BY <1>2, <2>2, <3>3, TailIs
    <3> QED
      BY <1>2, <3>1, <3>3, <3>4 DEF Dq!Next, Dq!TakeFirst
  <2> QED
    BY <2>1, <2>2
<1>7. CASE ListTake("tail")
  <2>1. CASE k = 0
    <3>1. lst' = lst /\ found' = <<>> /\ s = <<>> /\ SubSeq(s, 1, 0 - 1) = <<>>
      BY <1>2, <1>7, <2>1, SubSeqEmpty DEF ListTake
    <3> QED
      BY <1>2, <2>1, <3>1 DEF ListInv, Dq!Next, Dq!TakeLast
  <2>2. CASE k # 0
    <3>1. lst' = Detach(lst, "tail") /\ found' = <<s[k]>>
      <4>1. k \in 1 .. k
        BY <1>2, <2>2
      <4> QED
        BY <1>2, <1>7, <2>2, <4>1 DEF ListTake
    <3>2. PICK z : Chain(ListNodes, lst', k - 1, z) /\ \A i \in 1 .. k - 1 : z[i] = s[i]
      BY <1>1, <1>2, <2>2, <3>1, PoppedChain
    <3>3. ListInv' /\ ListValues(lst)' = z /\ z \in Seq(ListNodes) /\ Len(z) = k - 1
      BY <1>3, <3>2
    <3>4. ListValues(lst)' = SubSeq(s, 1, k - 1) /\ s # <<>>
      BY <1>2, <2>2, <3>2, <3>3, FrontIs, EmptySeq
    <3> QED
      BY <1>2, <3>1, <3>3, <3>4 DEF Dq!Next, Dq!TakeLast
  <2> QED
    BY <2>1, <2>2
<1>8. ASSUME NEW n \in ListNodes, ListRemoveInternal(n) PROVE ListInv' /\ Dq!Next
  <2>1. PICK j \in 1 .. k : n = s[j]
    BY <1>2, <1>8 DEF ListRemoveInternal, NodesOf
  <2>2. Chain(ListNodes, lst', k - 1, Without(k, s, j))
    BY <1>1, <1>2, <1>8, <2>1, RemovedChain DEF ListRemoveInternal
  <2>3. ListInv' /\ ListValues(lst)' = SubSeq(s, 1, j - 1) \o SubSeq(s, j + 1, k)
    <3>1. /\ ListInv' /\ ListValues(lst)' = Without(k, s, j)
          /\ Without(k, s, j) \in Seq(ListNodes) /\ Len(Without(k, s, j)) = k - 1
      BY <1>3, <2>2
    <3>2. Without(k, s, j) = SubSeq(s, 1, j - 1) \o SubSeq(s, j + 1, k)
      BY <1>2, <3>1, DropIs
    <3> QED
      BY <3>1, <3>2
  <2>4. Dq!Drop(j)
    BY <1>2, <1>8, <2>3 DEF ListRemoveInternal, Dq!Drop
  <2> QED
    BY <1>2, <2>3, <2>4 DEF Dq!Next
<1>9. ASSUME NEW i \in 0 .. MaxIndex, ListElementAt(i) PROVE ListInv' /\ Dq!Next
  <2>1. i \in Nat
    OBVIOUS
  <2>2. ElementAt(lst, i) = IF i < k THEN s[i + 1] ELSE NULL
    BY <1>1, <1>2, <2>1, ElementIs
  <2>3. i < k => i + 1 \in 1 .. k
    BY <1>2, <2>1
  <2>4. found' = IF i < k THEN <<s[i + 1]>> ELSE <<>>
    BY <1>2, <1>9, <2>2, <2>3 DEF ListElementAt
  <2>5. lst' = lst
    BY <1>9 DEF ListElementAt
  <2>6. Dq!At(i)
    BY <1>2, <2>4, <2>5 DEF Dq!At
  <2> QED
    BY <2>5, <2>6 DEF ListInv, Dq!Next
<1>10. CASE ListGetValues
  BY <1>2, <1>10 DEF ListGetValues, ListInv, Dq!Next, Dq!All
<1>11. CASE ListDestroy
  <2>1. ListValues(EmptyList) = <<>>
    BY DEF ListValues, EmptyList
  <2>2. ListInv' /\ found' = ListValues(lst) /\ ListValues(lst)' = <<>>
    BY <1>11, <2>1, EmptyChained DEF ListDestroy, ListInv
  <2> QED
    BY <2>2 DEF Dq!Next, Dq!All
<1>12. CASE UNCHANGED lvars
  BY <1>12 DEF lvars, ListInv, Dq!qvars
<1> QED
  BY <1>4, <1>5, <1>6, <1>7, <1>8, <1>9, <1>10, <1>11, <1>12 DEF ListNext, Ends, Dq!Next

\* Whatever is pushed, popped, shifted, unshifted, removed from within or looked
\* up, the linked list and every answer are those of the sequence it stands for,
\* for any set of nodes and lists of any length.
THEOREM ListIsDeque == ASSUME ListAssumption PROVE ListSpec => ListImplementsDeque
<1>1. ListInit => ListInv /\ Dq!Init
  BY ListStart
<1>2. ListInv /\ [ListNext]_lvars => ListInv' /\ [Dq!Next]_(Dq!qvars)
  BY ListStep
<1> QED
  BY <1>1, <1>2, PTL DEF ListSpec, ListImplementsDeque, Dq!Spec

----------------------------------------------------------------------------
(* The smallest priority                                                    *)

\* A map of lists by priority.
Lists(m) == m = [p \in DOMAIN m |-> m[p]] /\ DOMAIN m \subseteq Priorities

LEMMA SmallestIs ==
  ASSUME QueueAssumption, NEW q, Lists(q.priorities), NEW p \in DOMAIN q.priorities,
         \A r \in DOMAIN q.priorities : p <= r
  PROVE  SmallestHead(q) = q.priorities[p].head
<1>1. DOMAIN q.priorities \subseteq Nat
  BY DEF Lists, QueueAssumption
<1>2. q.priorities # <<>>
  OBVIOUS
<1>3. PICK c : c = CHOOSE x \in DOMAIN q.priorities : \A r \in DOMAIN q.priorities : x <= r
  OBVIOUS
<1>4. c \in DOMAIN q.priorities /\ \A r \in DOMAIN q.priorities : c <= r
  BY <1>3
<1>5. c = p
  BY <1>1, <1>4
<1> QED
  BY <1>2, <1>3, <1>5 DEF SmallestHead

LEMMA SmallestNone ==
  ASSUME NEW q, Lists(q.priorities), DOMAIN q.priorities = {}
  PROVE  SmallestHead(q) = NULL
<1>1. q.priorities = <<>>
  BY DEF Lists
<1> QED
  BY <1>1 DEF SmallestHead

----------------------------------------------------------------------------
(* The queue: its lists hold the nodes of each priority, its map names only *)
(* nodes that are queued, its first is the head of the smallest priority    *)

QueueOf(ps, is, f, c) == [priorities |-> ps, ids |-> is, first |-> f, length |-> c]

Infos(info)   == DOMAIN info \subseteq QueueNodes /\ info \in [DOMAIN info -> [priority : Priorities, id : Ids]]
Of(info, p)   == {n \in DOMAIN info : info[n].priority = p}
ListsOK(m, info) ==
  /\ Lists(m)
  /\ \A n \in DOMAIN info : info[n].priority \in DOMAIN m
  /\ \A p \in DOMAIN m : Chained(QueueNodes, m[p]) /\ DOMAIN m[p].link = Of(info, p) /\ Of(info, p) # {}
IdsOK(is, info) ==
  \A h \in DOMAIN is : /\ is[h].node \in DOMAIN info
                       /\ is[h].list = info[is[h].node].priority
                       /\ Hash[info[is[h].node].id] = h
QueueOK(q, info) ==
  /\ q = QueueOf(q.priorities, q.ids, q.first, q.length)
  /\ Infos(info)
  /\ ListsOK(q.priorities, info)
  /\ IdsOK(q.ids, info)
  /\ q.first = SmallestHead(q)

LEMMA FirstIs ==
  ASSUME QueueAssumption, NEW q, NEW info, QueueOK(q, info)
  PROVE  \/ q.first = NULL /\ DOMAIN q.priorities = {}
         \/ \E p \in DOMAIN q.priorities : /\ \A r \in DOMAIN q.priorities : p <= r
                                           /\ q.first = q.priorities[p].head
                                           /\ q.first \in DOMAIN info /\ q.first # NULL
                                           /\ info[q.first].priority = p
<1>1. Lists(q.priorities) /\ DOMAIN q.priorities \subseteq Nat /\ q.first = SmallestHead(q)
  BY DEF QueueOK, ListsOK, Lists, QueueAssumption
<1>2. CASE DOMAIN q.priorities = {}
  BY <1>1, <1>2, SmallestNone
<1>3. CASE DOMAIN q.priorities # {}
  <2>1. PICK p \in DOMAIN q.priorities : \A r \in DOMAIN q.priorities : p <= r
    BY <1>1, <1>3, MinExists
  <2>2. q.first = q.priorities[p].head
    BY <1>1, <2>1, SmallestIs
  <2>3. /\ Chained(QueueNodes, q.priorities[p]) /\ DOMAIN q.priorities[p].link = Of(info, p)
        /\ Of(info, p) # {}
    BY DEF QueueOK, ListsOK
  <2>4. q.first # NULL /\ q.first \in Of(info, p)
    BY <2>2, <2>3, ChainFacts
  <2> QED
    BY <2>1, <2>2, <2>4 DEF Of
<1> QED
  BY <1>2, <1>3

LEMMA PushLists ==
  ASSUME QueueAssumption, NEW m, NEW info, Infos(info), ListsOK(m, info),
         NEW n \in QueueNodes \ DOMAIN info, NEW p \in Priorities, NEW id \in Ids,
         NEW info2, info2 = Put(info, n, [priority |-> p, id |-> id]),
         NEW m2, m2 = Put(m, p, Attach(IF p \in DOMAIN m THEN m[p] ELSE EmptyList, n, "tail"))
  PROVE  /\ Infos(info2)
         /\ ListsOK(m2, info2)
         /\ m2[p].head = IF p \in DOMAIN m THEN m[p].head ELSE n
<1>1. /\ DOMAIN info2 = DOMAIN info \union {n}
      /\ info2[n] = [priority |-> p, id |-> id]
      /\ \A x \in DOMAIN info : info2[x] = info[x] /\ x # n
      /\ info2 = [x \in DOMAIN info \union {n} |-> info2[x]]
  BY DEF Put
<1>2. Infos(info2)
  <2>1. \A x \in DOMAIN info2 : info2[x] \in [priority : Priorities, id : Ids]
    BY <1>1 DEF Infos
  <2> QED
    BY <1>1, <2>1 DEF Infos
<1>3. PICK o : o = IF p \in DOMAIN m THEN m[p] ELSE EmptyList
  OBVIOUS
<1>4. Chained(QueueNodes, o) /\ DOMAIN o.link = Of(info, p)
  <2>1. CASE p \in DOMAIN m
    BY <1>3, <2>1 DEF ListsOK
  <2>2. CASE p \notin DOMAIN m
    <3>1. Of(info, p) = {}
      BY <2>2 DEF ListsOK, Of
    <3> QED
      BY <1>3, <2>2, <3>1, EmptyChained
  <2> QED
    BY <2>1, <2>2
<1>5. PICK a : a = Attach(o, n, "tail")
  OBVIOUS
<1>6. /\ Chained(QueueNodes, a)
      /\ DOMAIN a.link = Of(info, p) \union {n}
      /\ a.head = IF Of(info, p) = {} THEN n ELSE o.head
  <2>1. n \notin DOMAIN o.link
    BY <1>4 DEF Of
  <2> QED
    BY <1>4, <1>5, <2>1, Pushed
<1>7. Of(info, p) = {} <=> p \notin DOMAIN m
  BY DEF ListsOK, Of
<1>8. /\ Of(info2, p) = Of(info, p) \union {n}
      /\ \A r : r # p => Of(info2, r) = Of(info, r)
  BY <1>1 DEF Of
<1>9. /\ DOMAIN m2 = DOMAIN m \union {p} /\ m2 = [r \in DOMAIN m2 |-> m2[r]]
      /\ m2[p] = a
      /\ \A r \in DOMAIN m : r # p => m2[r] = m[r]
  BY <1>3, <1>5 DEF Put
<1>10. ListsOK(m2, info2)
  <2>1. Lists(m2)
    BY <1>9 DEF ListsOK, Lists
  <2>2. \A x \in DOMAIN info2 : info2[x].priority \in DOMAIN m2
    BY <1>1, <1>9 DEF ListsOK
  <2>3. ASSUME NEW r \in DOMAIN m2
        PROVE  Chained(QueueNodes, m2[r]) /\ DOMAIN m2[r].link = Of(info2, r) /\ Of(info2, r) # {}
    <3>1. CASE r = p
      BY <1>6, <1>8, <1>9, <3>1
    <3>2. CASE r # p
      BY <1>8, <1>9, <2>3, <3>2 DEF ListsOK
    <3> QED
      BY <3>1, <3>2
  <2> QED
    BY <2>1, <2>2, <2>3 DEF ListsOK
<1> QED
  BY <1>2, <1>3, <1>6, <1>7, <1>9, <1>10

LEMMA PushOK ==
  ASSUME QueueAssumption, NEW q, NEW info, QueueOK(q, info),
         NEW n \in QueueNodes \ DOMAIN info, NEW p \in Priorities, NEW id \in Ids,
         NEW info2, info2 = Put(info, n, [priority |-> p, id |-> id])
  PROVE  QueueOK(PushNode(q, info2, n), info2)
<1>1. info2[n] = [priority |-> p, id |-> id] /\ \A x \in DOMAIN info : info2[x] = info[x]
  BY DEF Put
<1>2. PICK m2 : m2 = Put(q.priorities, p,
                         Attach(IF p \in DOMAIN q.priorities THEN q.priorities[p] ELSE EmptyList, n, "tail"))
  OBVIOUS
<1>3. PICK is2 : is2 = Put(q.ids, Hash[id], [list |-> p, node |-> n])
  OBVIOUS
<1>4. PICK f2 : f2 = FirstAfterPush(q, info2, n)
  OBVIOUS
<1>5. PICK q2 : q2 = PushNode(q, info2, n)
  OBVIOUS
<1>6. q2 = QueueOf(m2, is2, f2, q.length + 1)
  <2>1. info2[n].priority = p /\ info2[n].id = id
    BY <1>1
  <2> QED
    BY <1>2, <1>3, <1>4, <1>5, <2>1 DEF PushNode, QueueOf
<1>7. q2.priorities = m2 /\ q2.ids = is2 /\ q2.first = f2 /\ q2.length = q.length + 1
  BY <1>6 DEF QueueOf
<1>8. /\ Infos(info2) /\ ListsOK(m2, info2)
      /\ m2[p].head = IF p \in DOMAIN q.priorities THEN q.priorities[p].head ELSE n
  BY <1>2, PushLists DEF QueueOK
<1>9. IdsOK(is2, info2)
  <2> SUFFICES ASSUME NEW h \in DOMAIN is2
               PROVE  /\ is2[h].node \in DOMAIN info2
                      /\ is2[h].list = info2[is2[h].node].priority
                      /\ Hash[info2[is2[h].node].id] = h
    BY DEF IdsOK
  <2>1. DOMAIN info2 = DOMAIN info \union {n}
    BY DEF Put
  <2>2. CASE h = Hash[id]
    <3>1. is2[h] = [list |-> p, node |-> n]
      BY <1>3, <2>2 DEF Put
    <3> QED
      BY <1>1, <2>1, <2>2, <3>1
  <2>3. CASE h # Hash[id]
    <3>1. h \in DOMAIN q.ids /\ is2[h] = q.ids[h]
      BY <1>3, <2>3 DEF Put
    <3> QED
      BY <1>1, <2>1, <3>1 DEF QueueOK, IdsOK
  <2> QED
    BY <2>2, <2>3
<1>10. f2 = SmallestHead(q2)
  <2>1. /\ Lists(m2) /\ DOMAIN m2 = DOMAIN q.priorities \union {p}
        /\ DOMAIN q.priorities \subseteq Nat /\ p \in Nat
        /\ \A r \in DOMAIN q.priorities : r # p => m2[r] = q.priorities[r]
    BY <1>2, <1>8 DEF ListsOK, Lists, Put, QueueOK, QueueAssumption
  <2>2. CASE q.first = NULL /\ DOMAIN q.priorities = {}
    <3>1. SmallestHead(q2) = m2[p].head
      BY <1>7, <2>1, <2>2, SmallestIs
    <3> QED
      BY <1>4, <1>8, <2>2, <3>1 DEF FirstAfterPush
  <2>3. CASE \E s \in DOMAIN q.priorities : /\ \A r \in DOMAIN q.priorities : s <= r
                                            /\ q.first = q.priorities[s].head
                                            /\ q.first \in DOMAIN info /\ q.first # NULL
                                            /\ info[q.first].priority = s
    <3>1. PICK s \in DOMAIN q.priorities : /\ \A r \in DOMAIN q.priorities : s <= r
                                           /\ q.first = q.priorities[s].head
                                           /\ q.first \in DOMAIN info /\ q.first # NULL
                                           /\ info[q.first].priority = s
      BY <2>3
    <3>2. f2 = IF p < s THEN n ELSE q.first
      BY <1>1, <1>4, <3>1 DEF FirstAfterPush
    <3>3. CASE p < s
      <4>1. p \notin DOMAIN q.priorities /\ \A r \in DOMAIN m2 : p <= r
        BY <2>1, <3>1, <3>3
      <4>2. SmallestHead(q2) = m2[p].head
        BY <1>7, <2>1, <4>1, SmallestIs
      <4> QED
        BY <1>8, <3>2, <3>3, <4>1, <4>2
    <3>4. CASE ~(p < s)
      <4>1. s \in DOMAIN m2 /\ \A r \in DOMAIN m2 : s <= r
        BY <2>1, <3>1, <3>4
      <4>2. SmallestHead(q2) = m2[s].head
        BY <1>7, <2>1, <4>1, SmallestIs
      <4> QED
        BY <1>8, <2>1, <3>1, <3>2, <3>4, <4>2
    <3> QED
      BY <3>3, <3>4
  <2> QED
    BY <2>2, <2>3, FirstIs
<1> QED
  BY <1>5, <1>6, <1>7, <1>8, <1>9, <1>10 DEF QueueOK

\* The lists and the identifiers once node n has been taken off.
LEMMA TakeOK ==
  ASSUME QueueAssumption, NEW q, NEW info, QueueOK(q, info), NEW n \in DOMAIN info,
         NEW p, p = info[n].priority,
         NEW rest, rest = RemoveInternal(q.priorities[p], n),
         NEW m2, m2 = IF rest.length = 0 THEN Drop(q.priorities, p) ELSE Put(q.priorities, p, rest),
         NEW is2, is2 = Drop(q.ids, Hash[info[n].id]),
         NEW info2, info2 = Drop(info, n)
  PROVE  /\ p \in DOMAIN q.priorities
         /\ Infos(info2) /\ ListsOK(m2, info2) /\ IdsOK(is2, info2)
         /\ n # q.first => \A q2 : q2.priorities = m2 => SmallestHead(q2) = q.first
         /\ n = q.first /\ rest.length # 0 => \A q2 : q2.priorities = m2 => SmallestHead(q2) = rest.head
<1>1. /\ DOMAIN info2 = DOMAIN info \ {n}
      /\ \A x \in DOMAIN info2 : info2[x] = info[x]
      /\ info2 = [x \in DOMAIN info2 |-> info2[x]]
  BY DEF Drop
<1>2. Infos(info2)
  <2>1. \A x \in DOMAIN info2 : info2[x] \in [priority : Priorities, id : Ids]
    BY <1>1 DEF QueueOK, Infos
  <2> QED
    BY <1>1, <2>1 DEF QueueOK, Infos
<1>3. /\ p \in DOMAIN q.priorities
      /\ Chained(QueueNodes, q.priorities[p]) /\ DOMAIN q.priorities[p].link = Of(info, p) /\ n \in Of(info, p)
  BY DEF QueueOK, ListsOK, Of
<1>4. /\ Chained(QueueNodes, rest) /\ DOMAIN rest.link = Of(info, p) \ {n}
      /\ n # q.priorities[p].head => rest.head = q.priorities[p].head
  BY <1>3, Removed
<1>5. rest.length = 0 <=> Of(info, p) \ {n} = {}
  BY <1>4, ChainFacts
<1>6. /\ Of(info2, p) = Of(info, p) \ {n}
      /\ \A r : r # p => Of(info2, r) = Of(info, r)
  BY <1>1 DEF Of
<1>7. /\ m2 = [r \in DOMAIN m2 |-> m2[r]] /\ DOMAIN m2 \subseteq DOMAIN q.priorities
      /\ \A r \in DOMAIN q.priorities : r # p => r \in DOMAIN m2 /\ m2[r] = q.priorities[r]
      /\ p \in DOMAIN m2 <=> rest.length # 0
      /\ rest.length # 0 => m2[p] = rest
  BY <1>3 DEF Drop, Put
<1>8. ListsOK(m2, info2)
  <2>1. Lists(m2)
    BY <1>7 DEF ListsOK, Lists, QueueOK
  <2>2. ASSUME NEW x \in DOMAIN info2 PROVE info2[x].priority \in DOMAIN m2
    <3>1. x \in DOMAIN info /\ x # n /\ info[x].priority \in DOMAIN q.priorities
      BY <1>1 DEF QueueOK, ListsOK
    <3>2. info[x].priority = p => rest.length # 0
      BY <1>5, <3>1 DEF Of
    <3> QED
      BY <1>1, <1>7, <3>1, <3>2
  <2>3. ASSUME NEW r \in DOMAIN m2
        PROVE  Chained(QueueNodes, m2[r]) /\ DOMAIN m2[r].link = Of(info2, r) /\ Of(info2, r) # {}
    <3>1. CASE r = p
      BY <1>4, <1>5, <1>6, <1>7, <3>1
    <3>2. CASE r # p
      BY <1>6, <1>7, <3>2 DEF QueueOK, ListsOK
    <3> QED
      BY <3>1, <3>2
  <2> QED
    BY <2>1, <2>2, <2>3 DEF ListsOK
<1>9. IdsOK(is2, info2)
  <2> SUFFICES ASSUME NEW h \in DOMAIN is2
               PROVE  /\ is2[h].node \in DOMAIN info2
                      /\ is2[h].list = info2[is2[h].node].priority
                      /\ Hash[info2[is2[h].node].id] = h
    BY DEF IdsOK
  <2>1. h \in DOMAIN q.ids /\ h # Hash[info[n].id] /\ is2[h] = q.ids[h]
    BY DEF Drop
  <2>2. /\ q.ids[h].node \in DOMAIN info
        /\ q.ids[h].list = info[q.ids[h].node].priority
        /\ Hash[info[q.ids[h].node].id] = h
    BY <2>1 DEF QueueOK, IdsOK
  <2>3. q.ids[h].node # n
    BY <2>1, <2>2
  <2> QED
    BY <1>1, <2>1, <2>2, <2>3
<1>10. PICK s \in DOMAIN q.priorities : /\ \A r \in DOMAIN q.priorities : s <= r
                                        /\ q.first = q.priorities[s].head
                                        /\ q.first \in DOMAIN info /\ info[q.first].priority = s
  BY <1>3, FirstIs
<1>11. ASSUME s \in DOMAIN m2, NEW q2, q2.priorities = m2 PROVE SmallestHead(q2) = m2[s].head
  <2>1. Lists(q2.priorities) /\ \A r \in DOMAIN q2.priorities : s <= r
    BY <1>7, <1>8, <1>10, <1>11 DEF ListsOK
  <2> QED
    BY <1>11, <2>1, SmallestIs
<1>12. ASSUME n # q.first PROVE s \in DOMAIN m2 /\ m2[s].head = q.first
  <2>1. CASE s = p
    <3>1. q.first \in Of(info, p) \ {n}
      BY <1>10, <1>12, <2>1 DEF Of
    <3> QED
      BY <1>4, <1>5, <1>7, <1>10, <1>12, <2>1, <3>1
  <2>2. CASE s # p
    BY <1>7, <1>10, <2>2
  <2> QED
    BY <2>1, <2>2
<1>13. ASSUME n = q.first, rest.length # 0 PROVE s \in DOMAIN m2 /\ m2[s].head = rest.head
  BY <1>7, <1>10, <1>13
<1> QED
  BY <1>2, <1>3, <1>8, <1>9, <1>11, <1>12, <1>13

\* What both leave before they see to the cached first.
Edited(q, m, is, c) == [q EXCEPT !.priorities = m, !.ids = is, !.length = c]

LEMMA EditQueue ==
  ASSUME NEW q, q = QueueOf(q.priorities, q.ids, q.first, q.length), NEW m, NEW is, NEW c
  PROVE  Edited(q, m, is, c) = QueueOf(m, is, q.first, c)
<1>1. PICK a : a = [q EXCEPT !.priorities = m]
  OBVIOUS
<1>2. a = QueueOf(m, q.ids, q.first, q.length)
  BY <1>1 DEF QueueOf
<1>3. PICK b : b = [a EXCEPT !.ids = is]
  OBVIOUS
<1>4. b = QueueOf(m, is, q.first, q.length)
  BY <1>2, <1>3 DEF QueueOf
<1>5. [b EXCEPT !.length = c] = QueueOf(m, is, q.first, c)
  BY <1>4 DEF QueueOf
<1> QED
  BY <1>1, <1>3, <1>5 DEF Edited

\* What is left of the lists, the identifiers and the length without node n.
Taken(q, info, n, q2) ==
  LET p    == info[n].priority
      rest == RemoveInternal(q.priorities[p], n)
  IN /\ q2.priorities = IF rest.length = 0 THEN Drop(q.priorities, p) ELSE Put(q.priorities, p, rest)
     /\ q2.ids = Drop(q.ids, Hash[info[n].id])
     /\ q2.length = q.length - 1

LEMMA ShiftOK ==
  ASSUME QueueAssumption, NEW q, NEW info, QueueOK(q, info), q.first # NULL
  PROVE  /\ ShiftNode(q, info).node \in DOMAIN info
         /\ ShiftNode(q, info).node = q.first
         /\ Taken(q, info, ShiftNode(q, info).node, ShiftNode(q, info).queue)
         /\ QueueOK(ShiftNode(q, info).queue, Drop(info, ShiftNode(q, info).node))
<1>1. PICK p \in DOMAIN q.priorities : /\ q.first = q.priorities[p].head
                                       /\ q.first \in DOMAIN info /\ info[q.first].priority = p
  BY FirstIs
<1>2. PICK n : n = q.first
  OBVIOUS
<1>3. PICK rest : rest = Detach(q.priorities[p], "head")
  OBVIOUS
<1>4. rest = RemoveInternal(q.priorities[p], n)
  <2>1. Chained(QueueNodes, q.priorities[p]) /\ DOMAIN q.priorities[p].link # {}
    BY DEF QueueOK, ListsOK
  <2> QED
    BY <1>1, <1>2, <1>3, <2>1, Shifted
<1>5. PICK m2, is2 : /\ m2 = IF rest.length = 0 THEN Drop(q.priorities, p) ELSE Put(q.priorities, p, rest)
                     /\ is2 = Drop(q.ids, Hash[info[n].id])
  OBVIOUS
<1>6. PICK left : left = QueueOf(m2, is2, q.first, q.length - 1)
  OBVIOUS
<1>7. PICK f2 : f2 = IF rest.length = 0 THEN SmallestHead(left) ELSE rest.head
  OBVIOUS
<1>8. ShiftNode(q, info) = [node |-> n, queue |-> [left EXCEPT !.first = f2]]
  <2>1. q = QueueOf(q.priorities, q.ids, q.first, q.length)
    BY DEF QueueOK
  <2>2. [q EXCEPT !.priorities = m2, !.ids = is2, !.length = q.length - 1] = left
    <3>1. Edited(q, m2, is2, q.length - 1) = left
      BY <1>6, <2>1, EditQueue
    <3> QED
      BY <3>1 DEF Edited
  <2> QED
    BY <1>1, <1>2, <1>3, <1>5, <1>7, <2>2 DEF ShiftNode
<1>9. PICK q2 : q2 = QueueOf(m2, is2, f2, q.length - 1)
  OBVIOUS
<1>10. ShiftNode(q, info).node = n /\ ShiftNode(q, info).queue = q2
  BY <1>6, <1>8, <1>9 DEF QueueOf
<1>11. q2.priorities = m2 /\ q2.ids = is2 /\ q2.first = f2 /\ q2.length = q.length - 1
       /\ left.priorities = m2
  BY <1>6, <1>9 DEF QueueOf
<1>12. /\ Infos(Drop(info, n)) /\ ListsOK(m2, Drop(info, n)) /\ IdsOK(is2, Drop(info, n))
       /\ rest.length # 0 => \A x : x.priorities = m2 => SmallestHead(x) = rest.head
  BY <1>1, <1>2, <1>4, <1>5, TakeOK
<1>13. f2 = SmallestHead(q2)
  <2>1. SmallestHead(left) = SmallestHead(q2)
    BY <1>11 DEF SmallestHead
  <2> QED
    BY <1>7, <1>11, <1>12, <2>1
<1>14. QueueOK(q2, Drop(info, n))
  BY <1>9, <1>11, <1>12, <1>13 DEF QueueOK
<1>15. Taken(q, info, n, q2)
  BY <1>1, <1>2, <1>4, <1>5, <1>11 DEF Taken
<1> QED
  BY <1>1, <1>2, <1>10, <1>14, <1>15

LEMMA RemoveOK ==
  ASSUME QueueAssumption, NEW q, NEW info, QueueOK(q, info), NEW id, Hash[id] \in DOMAIN q.ids
  PROVE  /\ RemoveNode(q, info, id).node \in DOMAIN info
         /\ RemoveNode(q, info, id).node = q.ids[Hash[id]].node
         /\ Hash[info[RemoveNode(q, info, id).node].id] = Hash[id]
         /\ Taken(q, info, RemoveNode(q, info, id).node, RemoveNode(q, info, id).queue)
         /\ QueueOK(RemoveNode(q, info, id).queue, Drop(info, RemoveNode(q, info, id).node))
<1>1. PICK idn : idn = q.ids[Hash[id]]
  OBVIOUS
<1>2. PICK n, p : n = idn.node /\ p = idn.list
  OBVIOUS
<1>3. n \in DOMAIN info /\ p = info[n].priority /\ Hash[info[n].id] = Hash[id]
  BY <1>1, <1>2 DEF QueueOK, IdsOK
<1>4. PICK rest : rest = RemoveInternal(q.priorities[p], n)
  OBVIOUS
<1>5. PICK m2, is2 : /\ m2 = IF rest.length = 0 THEN Drop(q.priorities, p) ELSE Put(q.priorities, p, rest)
                     /\ is2 = Drop(q.ids, Hash[id])
  OBVIOUS
<1>6. PICK left : left = QueueOf(m2, is2, q.first, q.length - 1)
  OBVIOUS
<1>7. PICK f2 : f2 = IF n = q.first THEN SmallestHead(left) ELSE q.first
  OBVIOUS
<1>8. RemoveNode(q, info, id) = [node |-> n, queue |-> [left EXCEPT !.first = f2]]
  <2>1. q = QueueOf(q.priorities, q.ids, q.first, q.length)
    BY DEF QueueOK
  <2>2. [q EXCEPT !.priorities = m2, !.ids = is2, !.length = q.length - 1] = left /\ left.first = q.first
    <3>1. left.first = q.first
      BY <1>6 DEF QueueOf
    <3>2. Edited(q, m2, is2, q.length - 1) = left
      BY <1>6, <2>1, EditQueue
    <3> QED
      BY <3>1, <3>2 DEF Edited
  <2> QED
    BY <1>1, <1>2, <1>3, <1>4, <1>5, <1>7, <2>2 DEF RemoveNode, FirstAfterRemove
<1>9. PICK q2 : q2 = QueueOf(m2, is2, f2, q.length - 1)
  OBVIOUS
<1>10. RemoveNode(q, info, id).node = n /\ RemoveNode(q, info, id).queue = q2
  BY <1>6, <1>8, <1>9 DEF QueueOf
<1>11. q2.priorities = m2 /\ q2.ids = is2 /\ q2.first = f2 /\ q2.length = q.length - 1
       /\ left.priorities = m2
  BY <1>6, <1>9 DEF QueueOf
<1>12. /\ Infos(Drop(info, n)) /\ ListsOK(m2, Drop(info, n)) /\ IdsOK(is2, Drop(info, n))
       /\ n # q.first => \A x : x.priorities = m2 => SmallestHead(x) = q.first
  BY <1>3, <1>4, <1>5, TakeOK
<1>13. f2 = SmallestHead(q2)
  <2>1. SmallestHead(left) = SmallestHead(q2)
    BY <1>11 DEF SmallestHead
  <2> QED
    BY <1>7, <1>11, <1>12, <2>1
<1>14. QueueOK(q2, Drop(info, n))
  BY <1>9, <1>11, <1>12, <1>13 DEF QueueOK
<1>15. Taken(q, info, n, q2)
  BY <1>3, <1>4, <1>5, <1>11 DEF Taken
<1> QED
  BY <1>1, <1>2, <1>3, <1>10, <1>14, <1>15

----------------------------------------------------------------------------

QueueInv  == QueueOK(pq, pnode)
QueueSpec == QueueInit /\ [][QueueNext]_qvars

LEMMA QueueStart == ASSUME QueueAssumption PROVE QueueOK(EmptyQueue, <<>>)
<1>1. PICK m : m = <<>>
  OBVIOUS
<1>2. DOMAIN m = {} /\ m \in [{} -> [priority : Priorities, id : Ids]] /\ m = [x \in DOMAIN m |-> m[x]]
  BY <1>1
<1>3. EmptyQueue = QueueOf(m, m, NULL, 0)
  BY <1>1 DEF EmptyQueue, QueueOf
<1>4. EmptyQueue.priorities = m /\ EmptyQueue.ids = m /\ EmptyQueue.first = NULL /\ EmptyQueue.length = 0
  BY <1>3 DEF QueueOf
<1>5. Infos(m) /\ ListsOK(m, m) /\ IdsOK(m, m)
  BY <1>2 DEF Infos, ListsOK, IdsOK, Lists
<1>6. SmallestHead(EmptyQueue) = NULL
  BY <1>1, <1>4 DEF SmallestHead
<1> QED
  BY <1>1, <1>3, <1>4, <1>5, <1>6 DEF QueueOK

\* A node with another priority is one that was taken off and is there again.
Promoted(info, n, p) == [info EXCEPT ![n].priority = p]
Info(p, i)           == [priority |-> p, id |-> i]

LEMMA PriorityIs ==
  ASSUME NEW info, Infos(info), NEW n \in DOMAIN info, NEW p
  PROVE  /\ Promoted(info, n, p) = Put(Drop(info, n), n, Info(p, info[n].id))
         /\ n \in QueueNodes \ DOMAIN Drop(info, n)
         /\ info[n].id \in Ids
<1>1. PICK x, y, d, i : x = info[n] /\ y = [priority |-> p, id |-> i] /\ d = Drop(info, n) /\ i = info[n].id
  OBVIOUS
<1>2. x \in [priority : Priorities, id : Ids] /\ n \in QueueNodes /\ i \in Ids
  BY <1>1 DEF Infos
<1>3. [x EXCEPT !.priority = p] = y
  BY <1>1, <1>2
<1>4. [info EXCEPT ![n].priority = p] = [info EXCEPT ![n] = y]
  BY <1>1, <1>3
<1>5. info = [z \in DOMAIN info |-> info[z]]
  BY DEF Infos
<1>6. /\ DOMAIN d \union {n} = DOMAIN info /\ n \notin DOMAIN d
      /\ \A z \in DOMAIN info : z # n => d[z] = info[z]
  BY <1>1 DEF Drop
<1>7. [info EXCEPT ![n] = y] = Put(d, n, y)
  BY <1>5, <1>6 DEF Put
<1> QED
  BY <1>1, <1>2, <1>4, <1>6, <1>7 DEF Promoted, Info

LEMMA QueueStep ==
  ASSUME QueueAssumption, QueueInv, [QueueNext]_qvars
  PROVE  QueueInv'
<1>1. ASSUME NEW p \in Priorities, NEW id \in Ids, PQPush(p, id) PROVE QueueInv'
  BY <1>1, PushOK DEF PQPush, QueueInv
<1>2. CASE PQShift
  BY <1>2, ShiftOK DEF PQShift, QueueInv
<1>3. ASSUME NEW id \in Ids, PQRemove(id) PROVE QueueInv'
  BY <1>3, RemoveOK DEF PQRemove, Known, QueueInv
<1>4. ASSUME NEW id \in Ids, NEW p \in Priorities, PQSetPriority(id, p) PROVE QueueInv'
  <2>1. PICK r, i : r = RemoveNode(pq, pnode, id) /\ i = pnode[r.node].id
    OBVIOUS
  <2>2. r.node \in DOMAIN pnode /\ QueueOK(r.queue, Drop(pnode, r.node))
    BY <1>4, <2>1, RemoveOK DEF PQSetPriority, Known, QueueInv
  <2>3. pnode' = [pnode EXCEPT ![r.node].priority = p] /\ pq' = PushNode(r.queue, pnode', r.node)
    BY <1>4, <2>1 DEF PQSetPriority
  <2>4. /\ pnode' = Put(Drop(pnode, r.node), r.node, [priority |-> p, id |-> i])
        /\ r.node \in QueueNodes \ DOMAIN Drop(pnode, r.node) /\ i \in Ids
    <3>1. Infos(pnode)
      BY DEF QueueInv, QueueOK
    <3>2. /\ Promoted(pnode, r.node, p) = Put(Drop(pnode, r.node), r.node, Info(p, i))
          /\ r.node \in QueueNodes \ DOMAIN Drop(pnode, r.node) /\ i \in Ids
      BY <2>1, <2>2, <3>1, PriorityIs
    <3> QED
      BY <2>3, <3>2 DEF Promoted, Info
  <2> QED
    BY <2>2, <2>3, <2>4, PushOK DEF QueueInv
<1>5. CASE PQDestroy
  BY <1>5, QueueStart DEF PQDestroy, QueueInv
<1>6. CASE PQPeek \/ (\E id \in Ids : PQLookup(id)) \/ UNCHANGED qvars
  BY <1>6 DEF PQPeek, PQLookup, QueueInv, qvars
<1> QED
  BY <1>1, <1>2, <1>3, <1>4, <1>5, <1>6 DEF QueueNext

LEMMA QueueMeans == ASSUME QueueAssumption, QueueInv PROVE QueuePointers
<1>1. ListsOK(pq.priorities, pnode) /\ IdsOK(pq.ids, pnode) /\ pq.first = SmallestHead(pq)
  BY DEF QueueInv, QueueOK
<1>2. ASSUME NEW h \in DOMAIN pq.ids
      PROVE  /\ pq.ids[h].list \in DOMAIN pq.priorities
             /\ pq.ids[h].node \in DOMAIN pq.priorities[pq.ids[h].list].link
             /\ Hash[pnode[pq.ids[h].node].id] = h
  BY <1>1 DEF ListsOK, IdsOK, Of
<1>3. UNION {DOMAIN pq.priorities[p].link : p \in DOMAIN pq.priorities} = DOMAIN pnode
  <2>1. \A p \in DOMAIN pq.priorities : DOMAIN pq.priorities[p].link = Of(pnode, p)
    BY <1>1 DEF ListsOK
  <2>2. \A n \in DOMAIN pnode : pnode[n].priority \in DOMAIN pq.priorities /\ n \in Of(pnode, pnode[n].priority)
    BY <1>1 DEF ListsOK, Of
  <2>3. \A p : Of(pnode, p) \subseteq DOMAIN pnode
    BY DEF Of
  <2> QED
    BY <2>1, <2>2, <2>3
<1>4. ASSUME NEW p \in DOMAIN pq.priorities PROVE pq.priorities[p].head # NULL
  BY <1>1, ChainFacts DEF ListsOK
<1> QED
  BY <1>1, <1>2, <1>3, <1>4 DEF QueuePointers

\* No pointer of the priority queue dangles after any calls, with any number of
\* nodes, priorities and identifiers, whichever of them are equal or collide.
THEOREM QueuePointersAlways == ASSUME QueueAssumption PROVE QueueSpec => []QueuePointers
<1>1. QueueInit => QueueInv
  BY QueueStart DEF QueueInit, QueueInv
<1>2. QueueInv /\ [QueueNext]_qvars => QueueInv'
  BY QueueStep
<1>3. QueueInv => QueuePointers
  BY QueueMeans
<1> QED
  BY <1>1, <1>2, <1>3, PTL DEF QueueSpec

----------------------------------------------------------------------------
(* The order of the nodes of a list *)

\* Node a is met no later than node b, from the head on.
Before(l, a, b) ==
  LET values == ListValues(l)
  IN \E i, j \in DOMAIN values : i <= j /\ values[i] = a /\ values[j] = b

LEMMA BeforeIs ==
  ASSUME NEW N, NULL \notin N, NEW l, NEW k, NEW s, Chain(N, l, k, s), NEW a, NEW b
  PROVE  Before(l, a, b) <=> \E i, j \in 1 .. k : i <= j /\ s[i] = a /\ s[j] = b
<1>1. ListValues(l) = s /\ DOMAIN s = 1 .. k
  BY ValuesAre, ChainIs
<1> QED
  BY <1>1 DEF Before

LEMMA PushedBefore ==
  ASSUME NEW N, NULL \notin N, NEW l, Chained(N, l), NEW n \in N, n \notin DOMAIN l.link,
         NEW l2, l2 = Attach(l, n, "tail")
  PROVE  /\ \A a, b \in DOMAIN l.link : Before(l2, a, b) <=> Before(l, a, b)
         /\ \A a \in DOMAIN l.link : Before(l2, a, n) /\ ~Before(l2, n, a)
         /\ Before(l2, n, n)
<1>1. PICK k, s : Chain(N, l, k, s)
  BY DEF Chained
<1>2. PICK z : z = With(k, s, n)
  OBVIOUS
<1>3. Chain(N, l2, k + 1, z)
  BY <1>1, <1>2, PushedChain
<1>4. /\ k \in Nat /\ DOMAIN l.link = NodesOf(k, s)
      /\ \A i \in 1 .. k : s[i] \in DOMAIN l.link
  BY <1>1, ChainIs
<1>5. /\ z[k + 1] = n /\ k + 1 \in 1 .. k + 1
      /\ \A i \in 1 .. k : z[i] = s[i] /\ i \in 1 .. k + 1
      /\ \A i \in 1 .. k + 1 : i = k + 1 \/ i \in 1 .. k
  BY <1>2, <1>4 DEF With
<1>6. \A i \in 1 .. k + 1 : z[i] = n <=> i = k + 1
  BY <1>4, <1>5
<1>7. ASSUME NEW a \in DOMAIN l.link, NEW b \in DOMAIN l.link PROVE Before(l2, a, b) <=> Before(l, a, b)
  <2>1. a # n /\ b # n
    OBVIOUS
  <2>2. Before(l2, a, b) <=> \E i, j \in 1 .. k + 1 : i <= j /\ z[i] = a /\ z[j] = b
    BY <1>3, BeforeIs
  <2>3. Before(l, a, b) <=> \E i, j \in 1 .. k : i <= j /\ s[i] = a /\ s[j] = b
    BY <1>1, BeforeIs
  <2> QED
    BY <1>5, <2>1, <2>2, <2>3
<1>8. ASSUME NEW a \in DOMAIN l.link PROVE Before(l2, a, n) /\ ~Before(l2, n, a)
  <2>1. PICK i \in 1 .. k : s[i] = a
    BY <1>4 DEF NodesOf
  <2>2. i <= k + 1 /\ z[i] = a /\ i \in 1 .. k + 1
    BY <1>4, <1>5, <2>1
  <2>3. Before(l2, a, n)
    BY <1>3, <1>5, <2>2, BeforeIs
  <2>4. ASSUME NEW c \in 1 .. k + 1, NEW d \in 1 .. k + 1, c <= d, z[c] = n, z[d] = a PROVE FALSE
    <3>1. c = k + 1 /\ a # n
      BY <1>6, <2>4
    <3>2. d = k + 1
      BY <1>4, <2>4, <3>1
    <3> QED
      BY <1>5, <2>4, <3>1, <3>2
  <2>5. ~Before(l2, n, a)
    BY <1>3, <2>4, BeforeIs
  <2> QED
    BY <2>3, <2>5
<1>9. Before(l2, n, n)
  <2>1. k + 1 <= k + 1
    BY <1>4
  <2> QED
    BY <1>3, <1>5, <2>1, BeforeIs
<1> QED
  BY <1>7, <1>8, <1>9

LEMMA RemovedBefore ==
  ASSUME NEW N, NULL \notin N, NEW l, Chained(N, l), NEW n \in DOMAIN l.link,
         NEW l2, l2 = RemoveInternal(l, n), NEW a, NEW b, a # n, b # n
  PROVE  Before(l2, a, b) <=> Before(l, a, b)
<1>1. PICK k, s : Chain(N, l, k, s)
  BY DEF Chained
<1>2. /\ k \in Nat /\ DOMAIN l.link = NodesOf(k, s)
      /\ \A i, j \in 1 .. k : s[i] = s[j] => i = j
  BY <1>1, ChainIs
<1>3. PICK j \in 1 .. k : n = s[j]
  BY <1>2 DEF NodesOf
<1>4. PICK z : z = Without(k, s, j)
  OBVIOUS
<1>5. Chain(N, l2, k - 1, z)
  BY <1>1, <1>3, <1>4, RemovedChain
<1>6. /\ \A i \in 1 .. k - 1 : z[i] = IF i < j THEN s[i] ELSE s[i + 1]
      /\ j \in Nat /\ 1 <= j /\ j <= k
  BY <1>2, <1>4 DEF Without
<1>7. ASSUME Before(l2, a, b) PROVE Before(l, a, b)
  <2>1. PICK c \in 1 .. k - 1, d \in 1 .. k - 1 : c <= d /\ z[c] = a /\ z[d] = b
    BY <1>5, <1>7, BeforeIs
  <2>2. PICK e, f : e = (IF c < j THEN c ELSE c + 1) /\ f = (IF d < j THEN d ELSE d + 1)
    OBVIOUS
  <2>3. e \in 1 .. k /\ f \in 1 .. k /\ e <= f
    BY <1>2, <1>6, <2>1, <2>2
  <2>4. s[e] = a /\ s[f] = b
    BY <1>6, <2>1, <2>2
  <2> QED
    BY <1>1, <2>3, <2>4, BeforeIs
<1>8. ASSUME Before(l, a, b) PROVE Before(l2, a, b)
  <2>1. PICK c \in 1 .. k, d \in 1 .. k : c <= d /\ s[c] = a /\ s[d] = b
    BY <1>1, <1>8, BeforeIs
  <2>2. c # j /\ d # j
    BY <1>3, <2>1
  <2>3. PICK e, f : e = (IF c < j THEN c ELSE c - 1) /\ f = (IF d < j THEN d ELSE d - 1)
    OBVIOUS
  <2>4. e \in 1 .. k - 1 /\ f \in 1 .. k - 1 /\ e <= f
    BY <1>2, <1>6, <2>1, <2>2, <2>3
  <2>5. z[e] = a
    <3>1. CASE c < j
      BY <1>6, <2>1, <2>3, <2>4, <3>1
    <3>2. CASE ~(c < j)
      <4>1. e = c - 1 /\ ~(e < j) /\ e + 1 = c
        BY <1>6, <2>1, <2>2, <2>3, <3>2
      <4> QED
        BY <1>6, <2>1, <2>4, <4>1
    <3> QED
      BY <3>1, <3>2
  <2>6. z[f] = b
    <3>1. CASE d < j
      BY <1>6, <2>1, <2>3, <2>4, <3>1
    <3>2. CASE ~(d < j)
      <4>1. f = d - 1 /\ ~(f < j) /\ f + 1 = d
        BY <1>6, <2>1, <2>2, <2>3, <3>2
      <4> QED
        BY <1>6, <2>1, <2>4, <4>1
    <3> QED
      BY <3>1, <3>2
  <2> QED
    BY <1>5, <2>4, <2>5, <2>6, BeforeIs
<1> QED
  BY <1>7, <1>8

LEMMA HeadBefore ==
  ASSUME NEW N, NULL \notin N, NEW l, Chained(N, l), NEW a \in DOMAIN l.link
  PROVE  /\ Before(l, l.head, a)
         /\ Before(l, a, l.head) => a = l.head
<1>1. PICK k, s : Chain(N, l, k, s)
  BY DEF Chained
<1>2. /\ k \in Nat /\ DOMAIN l.link = NodesOf(k, s) /\ l.head = (IF k = 0 THEN NULL ELSE s[1])
      /\ \A i, j \in 1 .. k : s[i] = s[j] => i = j
  BY <1>1, ChainIs
<1>3. PICK j \in 1 .. k : a = s[j]
  BY <1>2 DEF NodesOf
<1>4. 1 \in 1 .. k /\ 1 <= j /\ l.head = s[1]
  BY <1>2, <1>3
<1>5. Before(l, l.head, a)
  BY <1>1, <1>3, <1>4, BeforeIs
<1>6. ASSUME Before(l, a, l.head) PROVE a = l.head
  <2>1. PICK c \in 1 .. k, d \in 1 .. k : c <= d /\ s[c] = a /\ s[d] = l.head
    BY <1>1, <1>6, BeforeIs
  <2>2. d = 1
    BY <1>2, <1>4, <2>1
  <2>3. c = 1
    BY <2>1, <2>2
  <2> QED
    BY <1>4, <2>1, <2>3
<1> QED
  BY <1>5, <1>6

----------------------------------------------------------------------------
(* The queue in order: w lists its nodes, each where it leaves.  The code   *)
(* has no such array; it says that lists, map and length agree.             *)

Precedes(ps, info, a, b) ==
  \/ info[a].priority < info[b].priority
  \/ info[a].priority = info[b].priority /\ Before(ps[info[b].priority], a, b)

SortedIn(ps, info, w, m) ==
  /\ m \in Nat /\ w \in [1 .. m -> DOMAIN info]
  /\ \A n \in DOMAIN info : \E i \in 1 .. m : w[i] = n
  /\ \A i, j \in 1 .. m : Precedes(ps, info, w[i], w[j]) <=> i <= j

Entry(info, n)    == [token |-> n, priority |-> info[n].priority, id |-> info[n].id]
Items(info, w, m) == [i \in 1 .. m |-> Entry(info, w[i])]

\* The first k of things that differ are k.
LEMMA FirstCount ==
  ASSUME NEW m \in Nat, NEW w, \A a, b \in 1 .. m : w[a] = w[b] => a = b,
         NEW k \in Nat, k <= m, NEW T, T = {w[j] : j \in 1 .. k}
  PROVE  IsFiniteSet(T) /\ Cardinality(T) = k
<1>1. PICK v : v = [j \in 1 .. k |-> w[j]]
  OBVIOUS
<1>2. 1 .. k \subseteq 1 .. m
  OBVIOUS
<1>3. v \in [1 .. k -> T]
  BY <1>1
<1>4. \A a, b \in 1 .. k : v[a] = v[b] => a = b
  BY <1>1, <1>2
<1>5. \A t \in T : \E j \in 1 .. k : v[j] = t
  BY <1>1
<1>6. v \in Bijection(1 .. k, T)
  BY <1>3, <1>4, <1>5, Fun_IsBij
<1>7. ExistsBijection(1 .. k, T)
  BY <1>6, Fun_ExistsBij
<1>8. IsFiniteSet(1 .. k)
  BY FS_Interval
<1> QED
  BY <1>7, <1>8, FS_Bijection, FS_CountingElements

LEMMA SortedDiffer ==
  ASSUME NEW ps, NEW info, NEW w, NEW m, SortedIn(ps, info, w, m)
  PROVE  \A a, b \in 1 .. m : w[a] = w[b] => a = b
<1> SUFFICES ASSUME NEW a \in 1 .. m, NEW b \in 1 .. m, w[a] = w[b] PROVE a = b
  OBVIOUS
<1>1. /\ Precedes(ps, info, w[a], w[b]) <=> a <= b
      /\ Precedes(ps, info, w[b], w[a]) <=> b <= a
      /\ Precedes(ps, info, w[a], w[a]) <=> a <= a
      /\ m \in Nat
  BY DEF SortedIn
<1>2. a \in Nat /\ b \in Nat
  BY <1>1
<1>3. a <= b /\ b <= a
  BY <1>1, <1>2
<1> QED
  BY <1>2, <1>3

LEMMA PlaceIs ==
  ASSUME QueueAssumption, NEW q, NEW info, QueueOK(q, info), NEW w, NEW m,
         SortedIn(q.priorities, info, w, m), NEW k \in 1 .. m
  PROVE  PlaceOf(q, info, w[k]) = k
<1>1. /\ m \in Nat /\ w \in [1 .. m -> DOMAIN info]
      /\ \A n \in DOMAIN info : \E i \in 1 .. m : w[i] = n
      /\ \A i \in 1 .. m : Precedes(q.priorities, info, w[i], w[k]) <=> i <= k
  BY DEF SortedIn
<1>2. PICK n, p, l : n = w[k] /\ p = info[n].priority /\ l = q.priorities[p]
  OBVIOUS
<1>3. n \in DOMAIN info /\ k \in Nat /\ k <= m
  BY <1>1, <1>2
<1>4. /\ Chained(QueueNodes, l) /\ DOMAIN l.link = Of(info, p) /\ n \in Of(info, p)
      /\ NULL \notin QueueNodes
  BY <1>2, <1>3 DEF QueueOK, ListsOK, Of, QueueAssumption
<1>5. \A x \in DOMAIN info : info[x].priority \in Nat
  BY DEF QueueOK, Infos, QueueAssumption
<1>6. PICK c, s : Chain(QueueNodes, l, c, s)
  BY <1>4 DEF Chained
<1>7. /\ c \in Nat /\ s \in [1 .. c -> QueueNodes] /\ \A i, j \in 1 .. c : s[i] = s[j] => i = j
      /\ ListValues(l) = s /\ Of(info, p) = {s[i] : i \in 1 .. c}
  BY <1>4, <1>6, ChainIs, ValuesAre DEF NodesOf
<1>8. PICK j \in 1 .. c : s[j] = n
  BY <1>4, <1>7
<1>9. j \in Nat /\ 1 <= j /\ j <= c
  BY <1>7
<1>10. PICK S, A, B : /\ S = {w[i] : i \in 1 .. k}
                      /\ A = {x \in DOMAIN info : info[x].priority < p}
                      /\ B = {s[i] : i \in 1 .. j}
  OBVIOUS
<1>11. IsFiniteSet(S) /\ Cardinality(S) = k
  <2>1. \A a, b \in 1 .. m : w[a] = w[b] => a = b
    BY SortedDiffer
  <2>2. m \in Nat /\ k \in Nat /\ k <= m /\ S = {w[i] : i \in 1 .. k}
    BY <1>1, <1>3, <1>10
  <2> QED
    BY ONLY <2>1, <2>2, FirstCount
<1>12. IsFiniteSet(B) /\ Cardinality(B) = j
  <2>1. c \in Nat /\ j \in Nat /\ j <= c /\ B = {s[i] : i \in 1 .. j}
    BY <1>7, <1>9, <1>10
  <2>2. \A a, b \in 1 .. c : s[a] = s[b] => a = b
    BY <1>7
  <2> QED
    BY ONLY <2>1, <2>2, FirstCount
<1>13. ASSUME NEW x PROVE x \in S <=> x \in DOMAIN info /\ Precedes(q.priorities, info, x, n)
  <2>1. ASSUME x \in S PROVE x \in DOMAIN info /\ Precedes(q.priorities, info, x, n)
    <3>1. PICK i \in 1 .. k : x = w[i]
      BY <1>10, <2>1
    <3>2. i \in 1 .. m /\ i <= k
      BY <1>1, <1>3
    <3> QED
      BY <1>1, <1>2, <3>1, <3>2
  <2>2. ASSUME x \in DOMAIN info, Precedes(q.priorities, info, x, n) PROVE x \in S
    <3>1. PICK i \in 1 .. m : x = w[i]
      BY <1>1, <2>2
    <3>2. i <= k
      BY <1>1, <1>2, <2>2, <3>1
    <3>3. i \in 1 .. k
      BY <1>1, <1>3, <3>2
    <3> QED
      BY <1>10, <3>1, <3>3
  <2> QED
    BY <2>1, <2>2
<1>14. ASSUME NEW x PROVE x \in B <=> x \in Of(info, p) /\ Before(l, x, n)
  <2>0. Before(l, x, n) <=> \E a, b \in 1 .. c : a <= b /\ s[a] = x /\ s[b] = n
    BY <1>4, <1>6, BeforeIs
  <2>1. ASSUME x \in B PROVE x \in Of(info, p) /\ Before(l, x, n)
    <3>1. PICK i \in 1 .. j : x = s[i]
      BY <1>10, <2>1
    <3>2. i \in 1 .. c /\ i <= j
      BY <1>7, <1>9
    <3> QED
      BY <1>7, <1>8, <2>0, <3>1, <3>2
  <2>2. ASSUME x \in Of(info, p), Before(l, x, n) PROVE x \in B
    <3>1. PICK a \in 1 .. c, b \in 1 .. c : a <= b /\ s[a] = x /\ s[b] = n
      BY <2>0, <2>2
    <3>2. b = j
      BY <1>7, <1>8, <3>1
    <3>3. a \in 1 .. j
      BY <1>7, <1>9, <3>1, <3>2
    <3> QED
      BY <1>10, <3>1, <3>3
  <2> QED
    BY <2>1, <2>2
<1>15. S = A \union B /\ A \cap B = {}
  <2>1. \A x : x \in Of(info, p) <=> x \in DOMAIN info /\ info[x].priority = p
    BY DEF Of
  <2>2. \A x : Precedes(q.priorities, info, x, n)
                 <=> info[x].priority < p \/ (info[x].priority = p /\ Before(l, x, n))
    BY <1>2 DEF Precedes
  <2>3. p \in Nat
    BY <1>2, <1>3, <1>5
  <2>4. \A x : x \in S <=> x \in A \/ x \in B
    BY <1>10, <1>13, <1>14, <2>1, <2>2
  <2>5. \A x : ~(x \in A /\ x \in B)
    BY <1>5, <1>10, <1>14, <2>1, <2>3
  <2> QED
    BY <2>4, <2>5
<1>16. Cardinality(A) + j = k
  <2>1. IsFiniteSet(A)
    BY <1>11, <1>15, FS_Subset
  <2>2. Cardinality(A) \in Nat
    BY <2>1, FS_CardinalityType
  <2>3. Cardinality(S) = Cardinality(A) + Cardinality(B) - Cardinality(A \cap B)
    BY <1>12, <1>15, <2>1, FS_Union
  <2>4. Cardinality(A \cap B) = 0
    BY <1>15, FS_EmptySet
  <2> QED
    BY <1>3, <1>9, <1>11, <1>12, <2>2, <2>3, <2>4
<1>17. (CHOOSE i \in DOMAIN s : s[i] = n) = j
  BY <1>7, <1>8
<1> QED
  BY <1>2, <1>7, <1>10, <1>16, <1>17 DEF PlaceOf

LEMMA QueuedIs ==
  ASSUME QueueAssumption, NEW q, NEW info, QueueOK(q, info), NEW w, NEW m,
         SortedIn(q.priorities, info, w, m)
  PROVE  QueuedIn(q, info) = Items(info, w, m)
<1>1. /\ m \in Nat /\ w \in [1 .. m -> DOMAIN info]
      /\ \A n \in DOMAIN info : \E i \in 1 .. m : w[i] = n
      /\ \A a, b \in 1 .. m : w[a] = w[b] => a = b
  BY SortedDiffer DEF SortedIn
<1>2. Cardinality(DOMAIN info) = m
  <2>1. \A j \in 1 .. m : w[j] \in DOMAIN info
    BY <1>1
  <2>2. DOMAIN info = {w[j] : j \in 1 .. m}
    BY <1>1, <2>1
  <2>3. m \in Nat /\ m <= m /\ \A a, b \in 1 .. m : w[a] = w[b] => a = b
    BY <1>1
  <2> QED
    BY ONLY <2>2, <2>3, FirstCount
<1>3. ASSUME NEW i \in 1 .. m
      PROVE  (CHOOSE n \in DOMAIN info : PlaceOf(q, info, n) = i) = w[i]
  <2>1. \A j \in 1 .. m : PlaceOf(q, info, w[j]) = j
    BY PlaceIs
  <2>2. w[i] \in DOMAIN info /\ PlaceOf(q, info, w[i]) = i
    BY <1>1, <2>1
  <2>3. \A n \in DOMAIN info : PlaceOf(q, info, n) = i => n = w[i]
    BY <1>1, <2>1
  <2> QED
    BY <2>2, <2>3
<1> QED
  BY <1>2, <1>3 DEF QueuedIn, Items, Entry

LEMMA SortedRises ==
  ASSUME QueueAssumption, NEW q, NEW info, QueueOK(q, info), NEW w, NEW m,
         SortedIn(q.priorities, info, w, m), NEW p \in Nat
  PROVE  \E k \in Nat : k <= m /\ \A i \in 1 .. m : info[w[i]].priority <= p <=> i <= k
<1>1. /\ m \in Nat /\ w \in [1 .. m -> DOMAIN info]
      /\ \A i, j \in 1 .. m : Precedes(q.priorities, info, w[i], w[j]) <=> i <= j
  BY DEF SortedIn
<1>2. \A i \in 1 .. m : info[w[i]].priority \in Nat
  <2>1. \A x \in DOMAIN info : info[x].priority \in Nat
    BY DEF QueueOK, Infos, QueueAssumption
  <2> QED
    BY <1>1, <2>1
<1>3. ASSUME NEW i \in 1 .. m, NEW j \in 1 .. m, i <= j PROVE info[w[i]].priority <= info[w[j]].priority
  <2>1. Precedes(q.priorities, info, w[i], w[j])
    BY <1>1, <1>3
  <2>2. info[w[i]].priority < info[w[j]].priority \/ info[w[i]].priority = info[w[j]].priority
    BY <2>1 DEF Precedes
  <2> QED
    BY <1>2, <2>2
<1>4. PICK above : above = {i \in 1 .. m : p < info[w[i]].priority}
  OBVIOUS
<1>5. CASE above = {}
  <2>1. \A i \in 1 .. m : info[w[i]].priority <= p
    BY <1>2, <1>4, <1>5
  <2> QED
    BY <1>1, <2>1
<1>6. CASE above # {}
  <2>1. above \in SUBSET Nat
    BY <1>1, <1>4
  <2>2. PICK b \in above : \A i \in above : b <= i
    BY <1>6, <2>1, MinExists
  <2>3. b \in 1 .. m /\ p < info[w[b]].priority /\ b \in Nat /\ b # 0
    BY <1>1, <1>4, <2>2
  <2>4. ASSUME NEW i \in 1 .. m PROVE info[w[i]].priority <= p <=> i <= b - 1
    <3>1. i \in Nat
      BY <1>1
    <3>2. i < b => i \notin above
      BY <2>1, <2>2, <2>3, <3>1
    <3>3. i < b => info[w[i]].priority <= p
      BY <1>2, <1>4, <3>2
    <3>4. b <= i => info[w[b]].priority <= info[w[i]].priority
      BY <1>3, <2>3
    <3>5. info[w[i]].priority \in Nat /\ info[w[b]].priority \in Nat
      BY <1>2, <2>3
    <3> QED
      BY <2>3, <3>1, <3>3, <3>4, <3>5
  <2>5. b - 1 \in Nat /\ b - 1 <= m
    BY <1>1, <2>3
  <2> QED
    BY <2>4, <2>5
<1> QED
  BY <1>5, <1>6

\* The order with a node put behind the first k.
Inserted(m, w, k, n) == [i \in 1 .. m + 1 |-> IF i <= k THEN w[i] ELSE IF i = k + 1 THEN n ELSE w[i - 1]]

LEMMA PushPrecedes ==
  ASSUME QueueAssumption, NEW ps, NEW info, Infos(info), ListsOK(ps, info),
         NEW n \in QueueNodes \ DOMAIN info, NEW p \in Priorities, NEW id,
         NEW info2, info2 = Put(info, n, [priority |-> p, id |-> id]),
         NEW m2, m2 = Put(ps, p, Attach(IF p \in DOMAIN ps THEN ps[p] ELSE EmptyList, n, "tail"))
  PROVE  /\ \A x, y \in DOMAIN info : Precedes(m2, info2, x, y) <=> Precedes(ps, info, x, y)
         /\ \A x \in DOMAIN info : /\ Precedes(m2, info2, x, n) <=> info[x].priority <= p
                                   /\ Precedes(m2, info2, n, x) <=> p < info[x].priority
         /\ Precedes(m2, info2, n, n)
<1>1. /\ info2[n].priority = p
      /\ \A x \in DOMAIN info : info2[x] = info[x] /\ x # n
  BY DEF Put
<1>2. PICK o : o = IF p \in DOMAIN ps THEN ps[p] ELSE EmptyList
  OBVIOUS
<1>3. Chained(QueueNodes, o) /\ DOMAIN o.link = Of(info, p)
  <2>1. CASE p \in DOMAIN ps
    BY <1>2, <2>1 DEF ListsOK
  <2>2. CASE p \notin DOMAIN ps
    <3>1. Of(info, p) = {}
      BY <2>2 DEF ListsOK, Of
    <3> QED
      BY <1>2, <2>2, <3>1, EmptyChained
  <2> QED
    BY <2>1, <2>2
<1>4. PICK a : a = Attach(o, n, "tail")
  OBVIOUS
<1>5. /\ \A x, y \in Of(info, p) : Before(a, x, y) <=> Before(o, x, y)
      /\ \A x \in Of(info, p) : Before(a, x, n) /\ ~Before(a, n, x)
      /\ Before(a, n, n)
  <2>1. n \notin DOMAIN o.link /\ n \in QueueNodes /\ NULL \notin QueueNodes
    BY <1>3 DEF Of, QueueAssumption
  <2>2. /\ \A x, y \in DOMAIN o.link : Before(a, x, y) <=> Before(o, x, y)
        /\ \A x \in DOMAIN o.link : Before(a, x, n) /\ ~Before(a, n, x)
        /\ Before(a, n, n)
    BY <1>3, <1>4, <2>1, PushedBefore
  <2> QED
    BY <1>3, <2>2
<1>6. /\ m2[p] = a
      /\ \A r \in DOMAIN ps : r # p => m2[r] = ps[r]
      /\ \A x \in DOMAIN info : info[x].priority \in DOMAIN ps
      /\ \A x \in DOMAIN info : info[x].priority = p <=> x \in Of(info, p)
  BY <1>2, <1>4 DEF Put, ListsOK, Of
<1>7. ASSUME NEW x \in DOMAIN info, NEW y \in DOMAIN info
      PROVE  Precedes(m2, info2, x, y) <=> Precedes(ps, info, x, y)
  <2>1. info2[x] = info[x] /\ info2[y] = info[y]
    BY <1>1
  <2>2. info[x].priority = info[y].priority
          => (Before(m2[info[y].priority], x, y) <=> Before(ps[info[y].priority], x, y))
    BY <1>2, <1>5, <1>6
  <2> QED
    BY <2>1, <2>2 DEF Precedes
<1>8. ASSUME NEW x \in DOMAIN info
      PROVE  /\ Precedes(m2, info2, x, n) <=> info[x].priority <= p
             /\ Precedes(m2, info2, n, x) <=> p < info[x].priority
  <2>1. info2[x] = info[x] /\ info2[n].priority = p
    BY <1>1
  <2>2. info[x].priority \in Nat /\ p \in Nat
    BY DEF Infos, QueueAssumption
  <2>3. info[x].priority = p => Before(a, x, n) /\ ~Before(a, n, x)
    BY <1>5, <1>6
  <2>4. Precedes(m2, info2, x, n) <=> info[x].priority < p \/ (info[x].priority = p /\ Before(a, x, n))
    BY <1>6, <2>1 DEF Precedes
  <2>5. Precedes(m2, info2, n, x) <=> p < info[x].priority \/ (p = info[x].priority /\ Before(m2[p], n, x))
    BY <2>1 DEF Precedes
  <2> QED
    BY <1>6, <2>2, <2>3, <2>4, <2>5
<1>9. Precedes(m2, info2, n, n)
  BY <1>1, <1>5, <1>6 DEF Precedes
<1> QED
  BY <1>7, <1>8, <1>9

LEMMA SortedPush ==
  ASSUME QueueAssumption, NEW q, NEW info, QueueOK(q, info), NEW w, NEW m,
         SortedIn(q.priorities, info, w, m),
         NEW n \in QueueNodes \ DOMAIN info, NEW p \in Priorities, NEW id,
         NEW info2, info2 = Put(info, n, [priority |-> p, id |-> id]),
         NEW m2, m2 = Put(q.priorities, p,
                          Attach(IF p \in DOMAIN q.priorities THEN q.priorities[p] ELSE EmptyList, n, "tail")),
         NEW k \in Nat, k <= m, \A i \in 1 .. m : info[w[i]].priority <= p <=> i <= k
  PROVE  SortedIn(m2, info2, Inserted(m, w, k, n), m + 1)
<1>1. /\ m \in Nat /\ w \in [1 .. m -> DOMAIN info]
      /\ \A x \in DOMAIN info : \E i \in 1 .. m : w[i] = x
      /\ \A i, j \in 1 .. m : Precedes(q.priorities, info, w[i], w[j]) <=> i <= j
  BY DEF SortedIn
<1>2. PICK v : v = Inserted(m, w, k, n)
  OBVIOUS
<1>3. DOMAIN info2 = DOMAIN info \union {n}
  BY DEF Put
<1>4. /\ \A x, y \in DOMAIN info : Precedes(m2, info2, x, y) <=> Precedes(q.priorities, info, x, y)
      /\ \A x \in DOMAIN info : /\ Precedes(m2, info2, x, n) <=> info[x].priority <= p
                                /\ Precedes(m2, info2, n, x) <=> p < info[x].priority
      /\ Precedes(m2, info2, n, n)
  <2>1. Infos(info) /\ ListsOK(q.priorities, info)
    BY DEF QueueOK
  <2> QED
    BY <2>1, PushPrecedes
<1>5. /\ v = [i \in 1 .. m + 1 |-> v[i]]
      /\ \A i \in 1 .. m : i <= k => v[i] = w[i]
      /\ v[k + 1] = n
      /\ \A i \in 1 .. m : ~(i <= k) => v[i + 1] = w[i]
  <2>1. v = [i \in 1 .. m + 1 |-> IF i <= k THEN w[i] ELSE IF i = k + 1 THEN n ELSE w[i - 1]]
    BY <1>2 DEF Inserted
  <2>2. k + 1 \in 1 .. m + 1
    BY <1>1
  <2>3. \A i \in 1 .. m : i \in 1 .. m + 1 /\ i + 1 \in 1 .. m + 1 /\ (i + 1) - 1 = i
    BY <1>1
  <2>4. v[k + 1] = n
    BY <1>1, <2>1, <2>2
  <2>5. ASSUME NEW i \in 1 .. m, ~(i <= k) PROVE v[i + 1] = w[i]
    <3>1. ~(i + 1 <= k) /\ i + 1 # k + 1
      BY <1>1, <2>5
    <3> QED
      BY <2>1, <2>3, <3>1
  <2> QED
    BY <2>1, <2>3, <2>4, <2>5
<1>6. ASSUME NEW i \in 1 .. m + 1
      PROVE  \/ i = k + 1 /\ v[i] = n
             \/ \E c \in 1 .. m : v[i] = w[c] /\ ((c <= k /\ i = c) \/ (~(c <= k) /\ i = c + 1))
  <2>1. CASE i <= k
    <3>1. i \in 1 .. m
      BY <1>1, <2>1
    <3> QED
      BY <1>5, <2>1, <3>1
  <2>2. CASE i = k + 1
    BY <1>5, <2>2
  <2>3. CASE ~(i <= k) /\ i # k + 1
    <3>1. i - 1 \in 1 .. m /\ ~(i - 1 <= k) /\ (i - 1) + 1 = i
      BY <1>1, <2>3
    <3> QED
      BY <1>5, <3>1
  <2> QED
    BY <2>1, <2>2, <2>3
<1>7. v \in [1 .. m + 1 -> DOMAIN info2]
  <2>1. ASSUME NEW i \in 1 .. m + 1 PROVE v[i] \in DOMAIN info2
    BY <1>1, <1>3, <1>6
  <2> QED
    BY <1>5, <2>1
<1>8. ASSUME NEW x \in DOMAIN info2 PROVE \E i \in 1 .. m + 1 : v[i] = x
  <2>1. CASE x = n
    <3>1. k + 1 \in 1 .. m + 1
      BY <1>1
    <3> QED
      BY <1>5, <2>1, <3>1
  <2>2. CASE x # n
    <3>1. PICK i \in 1 .. m : w[i] = x
      BY <1>1, <1>3, <2>2
    <3>2. i \in 1 .. m + 1 /\ i + 1 \in 1 .. m + 1
      BY <1>1
    <3> QED
      BY <1>5, <3>1, <3>2
  <2> QED
    BY <2>1, <2>2
<1>9. ASSUME NEW c \in 1 .. m
      PROVE  /\ w[c] \in DOMAIN info /\ c \in Nat
             /\ Precedes(m2, info2, w[c], n) <=> c <= k
             /\ Precedes(m2, info2, n, w[c]) <=> ~(c <= k)
  <2>1. w[c] \in DOMAIN info /\ c \in Nat
    BY <1>1
  <2>2. info[w[c]].priority \in Nat /\ p \in Nat
    BY <2>1 DEF QueueOK, Infos, QueueAssumption
  <2>3. /\ Precedes(m2, info2, w[c], n) <=> info[w[c]].priority <= p
        /\ Precedes(m2, info2, n, w[c]) <=> p < info[w[c]].priority
        /\ info[w[c]].priority <= p <=> c <= k
    BY <1>4, <2>1
  <2> QED
    BY <2>1, <2>2, <2>3
<1>10. ASSUME NEW i \in 1 .. m + 1, NEW j \in 1 .. m + 1
       PROVE  Precedes(m2, info2, v[i], v[j]) <=> i <= j
  <2>0. i \in Nat /\ j \in Nat
    OBVIOUS
  <2>1. CASE i = k + 1 /\ v[i] = n /\ j = k + 1 /\ v[j] = n
    BY <1>4, <2>1
  <2>2. ASSUME i = k + 1, v[i] = n,
               NEW d \in 1 .. m, v[j] = w[d], (d <= k /\ j = d) \/ (~(d <= k) /\ j = d + 1)
        PROVE  Precedes(m2, info2, v[i], v[j]) <=> i <= j
    <3>1. d \in Nat /\ (Precedes(m2, info2, n, w[d]) <=> ~(d <= k))
      BY <1>9
    <3>2. i <= j <=> ~(d <= k)
      BY <2>2, <3>1
    <3> QED
      BY <2>2, <3>1, <3>2
  <2>3. ASSUME j = k + 1, v[j] = n,
               NEW c \in 1 .. m, v[i] = w[c], (c <= k /\ i = c) \/ (~(c <= k) /\ i = c + 1)
        PROVE  Precedes(m2, info2, v[i], v[j]) <=> i <= j
    <3>1. c \in Nat /\ (Precedes(m2, info2, w[c], n) <=> c <= k)
      BY <1>9
    <3>2. i <= j <=> c <= k
      BY <2>3, <3>1
    <3> QED
      BY <2>3, <3>1, <3>2
  <2>4. ASSUME NEW c \in 1 .. m, v[i] = w[c], (c <= k /\ i = c) \/ (~(c <= k) /\ i = c + 1),
               NEW d \in 1 .. m, v[j] = w[d], (d <= k /\ j = d) \/ (~(d <= k) /\ j = d + 1)
        PROVE  Precedes(m2, info2, v[i], v[j]) <=> i <= j
    <3>1. c \in Nat /\ d \in Nat /\ w[c] \in DOMAIN info /\ w[d] \in DOMAIN info
      BY <1>9
    <3>2. Precedes(m2, info2, w[c], w[d]) <=> c <= d
      BY <1>1, <1>4, <3>1
    <3>3. i <= j <=> c <= d
      BY <2>4, <3>1
    <3> QED
      BY <2>4, <3>2, <3>3
  <2> QED
    BY <1>6, <2>1, <2>2, <2>3, <2>4
<1>11. m + 1 \in Nat
  BY <1>1
<1> QED
  BY <1>2, <1>7, <1>8, <1>10, <1>11 DEF SortedIn

LEMMA TakePrecedes ==
  ASSUME QueueAssumption, NEW ps, NEW info, Infos(info), ListsOK(ps, info), NEW n \in DOMAIN info,
         NEW p, p = info[n].priority,
         NEW rest, rest = RemoveInternal(ps[p], n),
         NEW m2, m2 = IF rest.length = 0 THEN Drop(ps, p) ELSE Put(ps, p, rest),
         NEW info2, info2 = Drop(info, n), NEW x \in DOMAIN info2, NEW y \in DOMAIN info2
  PROVE  Precedes(m2, info2, x, y) <=> Precedes(ps, info, x, y)
<1>1. /\ x \in DOMAIN info /\ x # n /\ info2[x] = info[x]
      /\ y \in DOMAIN info /\ y # n /\ info2[y] = info[y]
  BY DEF Drop
<1>2. /\ p \in DOMAIN ps /\ NULL \notin QueueNodes
      /\ Chained(QueueNodes, ps[p]) /\ DOMAIN ps[p].link = Of(info, p) /\ n \in Of(info, p)
  BY DEF ListsOK, Of, QueueAssumption
<1>3. CASE info[y].priority # p
  <2>1. info[y].priority \in DOMAIN ps
    BY <1>1 DEF ListsOK
  <2>2. m2[info[y].priority] = ps[info[y].priority]
    BY <1>3, <2>1 DEF Drop, Put
  <2> QED
    BY <1>1, <2>2 DEF Precedes
<1>4. CASE info[y].priority = p
  <2>1. Chained(QueueNodes, rest) /\ DOMAIN rest.link = Of(info, p) \ {n}
    BY <1>2, Removed
  <2>2. y \in DOMAIN rest.link
    BY <1>1, <1>4, <2>1 DEF Of
  <2>3. rest.length # 0
    BY <1>2, <2>1, <2>2, ChainFacts
  <2>4. m2[p] = rest
    BY <2>3 DEF Put
  <2>5. Before(rest, x, y) <=> Before(ps[p], x, y)
    BY <1>1, <1>2, RemovedBefore
  <2> QED
    BY <1>1, <1>4, <2>4, <2>5 DEF Precedes
<1> QED
  BY <1>3, <1>4

LEMMA SortedTake ==
  ASSUME QueueAssumption, NEW q, NEW info, QueueOK(q, info), NEW w, NEW m,
         SortedIn(q.priorities, info, w, m), NEW k \in 1 .. m, NEW n, n = w[k],
         NEW p, p = info[n].priority,
         NEW rest, rest = RemoveInternal(q.priorities[p], n),
         NEW m2, m2 = IF rest.length = 0 THEN Drop(q.priorities, p) ELSE Put(q.priorities, p, rest),
         NEW info2, info2 = Drop(info, n)
  PROVE  SortedIn(m2, info2, Without(m, w, k), m - 1)
<1>1. /\ m \in Nat /\ w \in [1 .. m -> DOMAIN info]
      /\ \A x \in DOMAIN info : \E i \in 1 .. m : w[i] = x
      /\ \A i, j \in 1 .. m : Precedes(q.priorities, info, w[i], w[j]) <=> i <= j
      /\ \A i, j \in 1 .. m : w[i] = w[j] => i = j
  BY SortedDiffer DEF SortedIn
<1>2. n \in DOMAIN info /\ k \in Nat /\ 1 <= k /\ k <= m
  BY <1>1
<1>3. DOMAIN info2 = DOMAIN info \ {n}
  BY DEF Drop
<1>4. \A x, y \in DOMAIN info2 : Precedes(m2, info2, x, y) <=> Precedes(q.priorities, info, x, y)
  <2>1. Infos(info) /\ ListsOK(q.priorities, info)
    BY DEF QueueOK
  <2> QED
    BY <1>2, <2>1, TakePrecedes
<1>5. PICK v : v = Without(m, w, k)
  OBVIOUS
<1>6. v = [i \in 1 .. m - 1 |-> IF i < k THEN w[i] ELSE w[i + 1]]
  BY <1>5 DEF Without
<1>7. ASSUME NEW i \in 1 .. m - 1
      PROVE  \E c \in 1 .. m : v[i] = w[c] /\ c # k /\ ((i < k /\ c = i) \/ (~(i < k) /\ c = i + 1))
  <2>1. CASE i < k
    <3>1. i \in 1 .. m /\ i # k
      BY <1>1, <1>2, <2>1
    <3> QED
      BY <1>6, <2>1, <3>1
  <2>2. CASE ~(i < k)
    <3>1. i + 1 \in 1 .. m /\ i + 1 # k
      BY <1>1, <1>2, <2>2
    <3> QED
      BY <1>6, <2>2, <3>1
  <2> QED
    BY <2>1, <2>2
<1>8. ASSUME NEW c \in 1 .. m, c # k PROVE w[c] \in DOMAIN info2 /\ c \in Nat
  BY <1>1, <1>3, <1>8
<1>9. v \in [1 .. m - 1 -> DOMAIN info2]
  <2>1. ASSUME NEW i \in 1 .. m - 1 PROVE v[i] \in DOMAIN info2
    BY <1>7, <1>8
  <2> QED
    BY <1>6, <2>1
<1>10. ASSUME NEW x \in DOMAIN info2 PROVE \E i \in 1 .. m - 1 : v[i] = x
  <2>1. x \in DOMAIN info /\ x # n
    BY <1>3
  <2>2. PICK c \in 1 .. m : w[c] = x
    BY <1>1, <2>1
  <2>3. c # k
    BY <2>1, <2>2
  <2>4. CASE c < k
    <3>1. c \in 1 .. m - 1
      BY <1>1, <1>2, <2>4
    <3> QED
      BY <1>6, <2>2, <2>4, <3>1
  <2>5. CASE ~(c < k)
    <3>1. c - 1 \in 1 .. m - 1 /\ ~(c - 1 < k) /\ (c - 1) + 1 = c
      BY <1>1, <1>2, <2>3, <2>5
    <3> QED
      BY <1>6, <2>2, <3>1
  <2> QED
    BY <2>4, <2>5
<1>11. ASSUME NEW i \in 1 .. m - 1, NEW j \in 1 .. m - 1
       PROVE  Precedes(m2, info2, v[i], v[j]) <=> i <= j
  <2>1. PICK c \in 1 .. m : v[i] = w[c] /\ c # k /\ ((i < k /\ c = i) \/ (~(i < k) /\ c = i + 1))
    BY <1>7
  <2>2. PICK d \in 1 .. m : v[j] = w[d] /\ d # k /\ ((j < k /\ d = j) \/ (~(j < k) /\ d = j + 1))
    BY <1>7
  <2>3. Precedes(m2, info2, w[c], w[d]) <=> c <= d
    BY <1>1, <1>4, <1>8, <2>1, <2>2
  <2>4. i <= j <=> c <= d
    BY <1>2, <2>1, <2>2
  <2> QED
    BY <2>1, <2>2, <2>3, <2>4
<1>12. m - 1 \in Nat
  BY <1>1, <1>2
<1> QED
  BY <1>5, <1>9, <1>10, <1>11, <1>12 DEF SortedIn

LEMMA FirstSorted ==
  ASSUME QueueAssumption, NEW q, NEW info, QueueOK(q, info), NEW w, NEW m,
         SortedIn(q.priorities, info, w, m)
  PROVE  q.first = IF m = 0 THEN NULL ELSE w[1]
<1>1. /\ m \in Nat /\ w \in [1 .. m -> DOMAIN info]
      /\ \A x \in DOMAIN info : \E i \in 1 .. m : w[i] = x
      /\ \A i, j \in 1 .. m : Precedes(q.priorities, info, w[i], w[j]) <=> i <= j
  BY DEF SortedIn
<1>2. \A x \in DOMAIN info : info[x].priority \in DOMAIN q.priorities /\ info[x].priority \in Nat
  BY DEF QueueOK, ListsOK, Infos, QueueAssumption
<1>3. CASE m = 0
  <2>1. \A i : i \notin 1 .. m
    BY <1>3
  <2>2. \A x : x \notin DOMAIN info
    BY <1>1, <2>1
  <2> QED
    BY <1>3, <2>2, FirstIs
<1>4. CASE m # 0
  <2>1. 1 \in 1 .. m /\ w[1] \in DOMAIN info
    BY <1>1, <1>4
  <2>2. PICK p \in DOMAIN q.priorities : /\ \A r \in DOMAIN q.priorities : p <= r
                                         /\ q.first = q.priorities[p].head
                                         /\ q.first \in DOMAIN info
                                         /\ info[q.first].priority = p
    BY <1>2, <2>1, FirstIs
  <2>3. PICK j \in 1 .. m : w[j] = q.first
    BY <1>1, <2>2
  <2>4. Precedes(q.priorities, info, q.first, w[1])
    <3>1. p <= info[w[1]].priority /\ p \in Nat /\ info[w[1]].priority \in Nat
      BY <1>2, <2>1, <2>2
    <3>2. CASE info[w[1]].priority = p
      <4>1. /\ NULL \notin QueueNodes /\ Chained(QueueNodes, q.priorities[p])
            /\ w[1] \in DOMAIN q.priorities[p].link
        BY <2>1, <2>2, <3>2 DEF QueueOK, ListsOK, Of, QueueAssumption
      <4>2. Before(q.priorities[p], q.first, w[1])
        BY <2>2, <4>1, HeadBefore
      <4> QED
        BY <2>2, <3>2, <4>2 DEF Precedes
    <3>3. CASE info[w[1]].priority # p
      BY <2>2, <3>1, <3>3 DEF Precedes
    <3> QED
      BY <3>2, <3>3
  <2>5. j <= 1
    BY <1>1, <2>1, <2>3, <2>4
  <2>6. j = 1
    BY <1>1, <2>5
  <2> QED
    BY <1>4, <2>3, <2>6
<1> QED
  BY <1>3, <1>4

----------------------------------------------------------------------------
(* What the sequence is after a push and after a node is taken off          *)

Joined(a, o, b) == a \o o \o b

\* a, o and b are s up to k, the element e and s from there on.
Parts(N, m, s, k, e, a, o, b) ==
  /\ m \in Nat /\ s \in Seq(N) /\ Len(s) = m /\ k \in Nat /\ k <= m
  /\ a \in Seq(N) /\ Len(a) = k /\ \A i \in 1 .. k : a[i] = s[i]
  /\ o \in Seq(N) /\ Len(o) = 1 /\ o[1] = e
  /\ b \in Seq(N) /\ Len(b) = m - k /\ \A i \in 1 .. m - k : b[i] = s[k + i]

LEMMA InsertSeq ==
  ASSUME NEW N, NEW m, NEW s, NEW k, NEW e, NEW a, NEW o, NEW b, Parts(N, m, s, k, e, a, o, b)
  PROVE  Joined(a, o, b) = Inserted(m, s, k, e)
<1>1. m \in Nat /\ s \in Seq(N) /\ Len(s) = m /\ k \in Nat /\ k <= m
  BY DEF Parts
<1>2. PICK c, d : c = a \o o /\ d = c \o b
  OBVIOUS
<1>3. a \in Seq(N) /\ Len(a) = k /\ \A i \in 1 .. k : a[i] = s[i]
  BY DEF Parts
<1>4. b \in Seq(N) /\ Len(b) = m - k /\ \A i \in 1 .. m - k : b[i] = s[k + i]
  BY DEF Parts
<1>5. o \in Seq(N) /\ Len(o) = 1 /\ o[1] = e
  BY DEF Parts
<1>6. /\ c \in Seq(N) /\ Len(c) = k + 1
      /\ \A i \in 1 .. k + 1 : c[i] = IF i <= k THEN s[i] ELSE e
  <2>1. /\ a \o o \in Seq(N) /\ Len(a \o o) = Len(a) + Len(o)
        /\ \A i \in 1 .. Len(a) + Len(o) : (a \o o)[i] = IF i <= Len(a) THEN a[i] ELSE o[i - Len(a)]
    <3>1. a \in Seq(N) /\ o \in Seq(N)
      BY <1>3, <1>5
    <3> QED
      BY ONLY <3>1, ConcatProperties
  <2>2. \A i \in 1 .. k + 1 : c[i] = IF i <= k THEN a[i] ELSE o[i - k]
    BY <1>2, <1>3, <1>5, <2>1
  <2>3. ASSUME NEW i \in 1 .. k + 1 PROVE c[i] = IF i <= k THEN s[i] ELSE e
    <3>1. i <= k => i \in 1 .. k
      BY <1>1
    <3>2. ~(i <= k) => i - k = 1
      BY <1>1
    <3> QED
      BY <1>3, <1>5, <2>2, <3>1, <3>2
  <2> QED
    BY <1>2, <1>3, <1>5, <2>1, <2>3
<1>7. /\ d \in Seq(N) /\ Len(d) = m + 1
      /\ \A i \in 1 .. m + 1 : d[i] = IF i <= k + 1 THEN c[i] ELSE b[i - (k + 1)]
  <2>1. /\ c \o b \in Seq(N) /\ Len(c \o b) = Len(c) + Len(b)
        /\ \A i \in 1 .. Len(c) + Len(b) : (c \o b)[i] = IF i <= Len(c) THEN c[i] ELSE b[i - Len(c)]
    <3>1. c \in Seq(N) /\ b \in Seq(N)
      BY <1>4, <1>6
    <3> QED
      BY ONLY <3>1, ConcatProperties
  <2>2. Len(c) + Len(b) = m + 1 /\ Len(c) = k + 1
    BY <1>1, <1>4, <1>6
  <2> QED
    BY <1>2, <2>1, <2>2
<1>8. ASSUME NEW i \in 1 .. m + 1
      PROVE  d[i] = IF i <= k THEN s[i] ELSE IF i = k + 1 THEN e ELSE s[i - 1]
  <2>1. CASE i <= k + 1
    <3>1. i \in 1 .. k + 1 /\ (i <= k \/ i = k + 1)
      BY <1>1, <2>1
    <3> QED
      BY <1>6, <1>7, <2>1, <3>1
  <2>2. CASE ~(i <= k + 1)
    <3>1. i - (k + 1) \in 1 .. m - k /\ k + (i - (k + 1)) = i - 1 /\ ~(i <= k) /\ i # k + 1
      BY <1>1, <2>2
    <3> QED
      BY <1>4, <1>7, <2>2, <3>1
  <2> QED
    BY <2>1, <2>2
<1>9. d = [i \in 1 .. m + 1 |-> d[i]]
  BY <1>1, <1>7
<1>10. Joined(a, o, b) = d
  BY <1>2 DEF Joined
<1> QED
  BY <1>8, <1>9, <1>10 DEF Inserted

Listed(info, w, m)       == m \in Nat /\ w \in [1 .. m -> DOMAIN info]
Splits(info, w, m, p, k) == k \in Nat /\ k <= m /\ \A i \in 1 .. m : info[w[i]].priority <= p <=> i <= k

Entries(info) == {Entry(info, x) : x \in DOMAIN info}

LEMMA ItemsAre ==
  ASSUME NEW info, NEW m, NEW w, Listed(info, w, m), NEW s, s = Items(info, w, m)
  PROVE  /\ s \in Seq(Entries(info)) /\ Len(s) = m /\ DOMAIN s = 1 .. m
         /\ \A i \in 1 .. m : /\ s[i] = Entry(info, w[i]) /\ s[i].token = w[i]
                              /\ s[i].priority = info[w[i]].priority /\ s[i].id = info[w[i]].id
<1>0. m \in Nat /\ w \in [1 .. m -> DOMAIN info]
  BY DEF Listed
<1>1. \A i \in 1 .. m : Entry(info, w[i]) \in Entries(info)
  BY <1>0 DEF Entries
<1>2. s = [i \in 1 .. m |-> Entry(info, w[i])]
  BY DEF Items
<1>3. s \in [1 .. m -> Entries(info)]
  BY <1>1, <1>2
<1>4. s \in Seq(Entries(info)) /\ Len(s) = m
  BY <1>0, <1>3
<1> QED
  BY <1>0, <1>2, <1>4 DEF Entry

LEMMA InsertIs ==
  ASSUME NEW info, NEW m, NEW w, Listed(info, w, m),
         NEW info2, \A x \in DOMAIN info : info2[x] = info[x], NEW n, NEW p, info2[n].priority = p,
         NEW k, Splits(info, w, m, p, k)
  PROVE  Sq!Insert(Items(info, w, m), Entry(info2, n)) = Items(info2, Inserted(m, w, k, n), m + 1)
<1>0. /\ m \in Nat /\ w \in [1 .. m -> DOMAIN info] /\ k \in Nat /\ k <= m
      /\ \A i \in 1 .. m : info[w[i]].priority <= p <=> i <= k
  BY DEF Listed, Splits
<1>1. PICK s, e : s = Items(info, w, m) /\ e = Entry(info2, n)
  OBVIOUS
<1>2. PICK N : N = Entries(info) \union {e}
  OBVIOUS
<1>3. /\ s \in Seq(Entries(info)) /\ Len(s) = m /\ DOMAIN s = 1 .. m
      /\ \A i \in 1 .. m : s[i] = Entry(info, w[i]) /\ s[i].priority = info[w[i]].priority
  <2>1. /\ s \in Seq(Entries(info)) /\ Len(s) = m /\ DOMAIN s = 1 .. m
        /\ \A i \in 1 .. m : /\ s[i] = Entry(info, w[i]) /\ s[i].token = w[i]
                             /\ s[i].priority = info[w[i]].priority /\ s[i].id = info[w[i]].id
    BY ONLY <1>1, Listed(info, w, m), ItemsAre
  <2> QED
    BY <2>1
<1>4. s \in Seq(N)
  <2>1. Entries(info) \subseteq N
    BY <1>2
  <2>2. s \in [1 .. m -> Entries(info)]
    BY <1>3
  <2>3. s \in [1 .. m -> N]
    BY <2>1, <2>2
  <2> QED
    BY <1>0, <2>3
<1>5. (CHOOSE c \in 0 .. Len(s) : \A i \in DOMAIN s : i <= c <=> s[i].priority <= e.priority) = k
  <2>1. e.priority = p
    BY <1>1 DEF Entry
  <2>2. k \in 0 .. Len(s) /\ \A i \in DOMAIN s : i <= k <=> s[i].priority <= e.priority
    BY <1>0, <1>3, <2>1
  <2>3. ASSUME NEW c \in 0 .. Len(s), \A i \in DOMAIN s : i <= c <=> s[i].priority <= e.priority
        PROVE  c = k
    <3>1. c \in Nat /\ c <= m /\ \A i \in 1 .. m : i <= c <=> i <= k
      BY <1>0, <1>3, <2>2, <2>3
    <3>2. c > 0 => c \in 1 .. m
      BY <3>1
    <3>3. k > 0 => k \in 1 .. m
      BY <1>0
    <3>4. c > 0 => c <= k
      BY <3>1, <3>2
    <3>5. k > 0 => k <= c
      BY <1>0, <3>1, <3>3
    <3> QED
      BY <1>0, <3>1, <3>4, <3>5
  <2> QED
    BY <2>2, <2>3
<1>6. PICK o : o = <<e>>
  OBVIOUS
<1>7. Sq!Insert(s, e) = Inserted(m, s, k, e)
  <2>1. e \in N /\ s \in Seq(N) /\ Len(s) = m /\ k \in Nat /\ k <= m
    BY <1>0, <1>2, <1>3, <1>4
  <2>2. o \in Seq(N) /\ Len(o) = 1 /\ o[1] = e
    BY <1>6, <2>1
  <2>3. PICK a, b : a = SubSeq(s, 1, k) /\ b = SubSeq(s, k + 1, m)
    OBVIOUS
  <2>0. m \in Nat /\ k \in Nat /\ k <= m /\ \A i \in 1 .. m : s[i] \in N
    BY <1>0, <2>1, ElementOfSeq
  <2>8. a \in Seq(N) /\ Len(a) = k /\ \A i \in 1 .. k : a[i] = s[i]
    <3>1. 1 \in Int /\ k \in Int /\ \A i \in 1 .. k : s[i] \in N
      BY <2>0
    <3>2. /\ a \in Seq(N) /\ Len(a) = (IF 1 <= k THEN k - 1 + 1 ELSE 0)
          /\ \A i \in 1 .. k - 1 + 1 : a[i] = s[1 + i - 1]
      BY <2>3, <3>1, SubSeqProperties
    <3> QED
      BY <2>0, <3>2
  <2>9. b \in Seq(N) /\ Len(b) = m - k /\ \A i \in 1 .. m - k : b[i] = s[k + i]
    <3>1. k + 1 \in Int /\ m \in Int /\ \A i \in k + 1 .. m : s[i] \in N
      BY <2>0
    <3>2. /\ b \in Seq(N) /\ Len(b) = (IF k + 1 <= m THEN m - (k + 1) + 1 ELSE 0)
          /\ \A i \in 1 .. m - (k + 1) + 1 : b[i] = s[(k + 1) + i - 1]
      BY <2>3, <3>1, SubSeqProperties
    <3>3. m - (k + 1) + 1 = m - k /\ \A i \in 1 .. m - k : (k + 1) + i - 1 = k + i
      BY <2>0
    <3> QED
      BY <2>0, <3>2, <3>3
  <2>4. Joined(a, o, b) = Inserted(m, s, k, e)
    <3>1. Parts(N, m, s, k, e, a, o, b)
      BY <2>1, <2>2, <2>8, <2>9 DEF Parts
    <3> QED
      BY ONLY <3>1, InsertSeq
  <2>5. PICK c : c = CHOOSE j \in 0 .. Len(s) : \A i \in DOMAIN s : i <= j <=> s[i].priority <= e.priority
    OBVIOUS
  <2>6. Sq!Insert(s, e) = Joined(SubSeq(s, 1, c), <<e>>, SubSeq(s, c + 1, Len(s)))
    BY <2>5 DEF Sq!Insert, Joined
  <2> QED
    BY <1>3, <1>5, <1>6, <2>3, <2>4, <2>5, <2>6
<1>8. /\ Entry(info2, n) = e
      /\ \A x \in DOMAIN info : Entry(info2, x) = Entry(info, x)
  BY <1>1 DEF Entry
<1>9. PICK v : v = Inserted(m, w, k, n)
  OBVIOUS
<1>10. ASSUME NEW i \in 1 .. m + 1
       PROVE  Entry(info2, v[i]) = IF i <= k THEN s[i] ELSE IF i = k + 1 THEN e ELSE s[i - 1]
  <2>1. v[i] = IF i <= k THEN w[i] ELSE IF i = k + 1 THEN n ELSE w[i - 1]
    BY <1>9 DEF Inserted
  <2>2. CASE i <= k
    <3>1. i \in 1 .. m
      BY <1>0, <2>2
    <3> QED
      BY <1>0, <1>3, <1>8, <2>1, <2>2, <3>1
  <2>3. CASE i = k + 1
    BY <1>0, <1>8, <2>1, <2>3
  <2>4. CASE ~(i <= k) /\ i # k + 1
    <3>1. i - 1 \in 1 .. m
      BY <1>0, <2>4
    <3> QED
      BY <1>0, <1>3, <1>8, <2>1, <2>4, <3>1
  <2> QED
    BY <2>2, <2>3, <2>4
<1>11. Items(info2, v, m + 1) = Inserted(m, s, k, e)
  BY <1>10 DEF Items, Inserted
<1> QED
  BY <1>1, <1>7, <1>9, <1>11

LEMMA PlaceInItems ==
  ASSUME NEW info, NEW m, NEW w, Listed(info, w, m),
         \A a, b \in 1 .. m : w[a] = w[b] => a = b
  PROVE  \A k \in 1 .. m : Sq!Place(Items(info, w, m), w[k]) = k
<1>1. PICK s : s = Items(info, w, m)
  OBVIOUS
<1>2. /\ s \in Seq(Entries(info)) /\ Len(s) = m /\ DOMAIN s = 1 .. m
      /\ \A i \in 1 .. m : /\ s[i] = Entry(info, w[i]) /\ s[i].token = w[i]
                           /\ s[i].priority = info[w[i]].priority /\ s[i].id = info[w[i]].id
  BY <1>1, ItemsAre
<1>3. ASSUME NEW k \in 1 .. m PROVE (CHOOSE i \in DOMAIN s : s[i].token = w[k]) = k
  BY <1>2
<1> QED
  BY <1>1, <1>3 DEF Sq!Place

LEMMA WithoutIs ==
  ASSUME NEW info, NEW m, NEW w, Listed(info, w, m),
         \A a, b \in 1 .. m : w[a] = w[b] => a = b, NEW k \in 1 .. m,
         NEW n, n = w[k], NEW info2, info2 = Drop(info, n)
  PROVE  Sq!Without(Items(info, w, m), n) = Items(info2, Without(m, w, k), m - 1)
<1>0. m \in Nat /\ w \in [1 .. m -> DOMAIN info]
  BY DEF Listed
<1>1. PICK s : s = Items(info, w, m)
  OBVIOUS
<1>2. /\ s \in Seq(Entries(info)) /\ Len(s) = m
      /\ \A i \in 1 .. m : s[i] = Entry(info, w[i])
  BY <1>1, ItemsAre
<1>3. PICK z : z = Without(m, s, k)
  OBVIOUS
<1>4. z = [i \in 1 .. m - 1 |-> IF i < k THEN s[i] ELSE s[i + 1]]
  BY <1>3 DEF Without
<1>5. z \in Seq(Entries(info)) /\ Len(z) = m - 1
  <2>1. m - 1 \in Nat
    BY <1>0
  <2>2. \A i \in 1 .. m : s[i] \in Entries(info)
    BY <1>2
  <2>3. ASSUME NEW i \in 1 .. m - 1 PROVE z[i] \in Entries(info)
    <3>1. i \in 1 .. m /\ i + 1 \in 1 .. m
      BY <1>0
    <3> QED
      BY <1>4, <2>2, <3>1
  <2>4. z \in [1 .. m - 1 -> Entries(info)]
    BY <1>4, <2>3
  <2> QED
    BY <2>1, <2>4
<1>6. z = SubSeq(s, 1, k - 1) \o SubSeq(s, k + 1, m)
  BY <1>2, <1>3, <1>5, DropIs
<1>7. Sq!Place(s, n) = k
  BY <1>1, PlaceInItems
<1>8. Sq!Without(s, n) = z
  BY <1>2, <1>6, <1>7 DEF Sq!Without
<1>9. \A x \in DOMAIN info : x # n => Entry(info2, x) = Entry(info, x)
  BY DEF Drop, Entry
<1>10. PICK v : v = Without(m, w, k)
  OBVIOUS
<1>11. ASSUME NEW i \in 1 .. m - 1 PROVE Entry(info2, v[i]) = z[i]
  <2>1. v[i] = IF i < k THEN w[i] ELSE w[i + 1]
    BY <1>10 DEF Without
  <2>2. i \in 1 .. m /\ i + 1 \in 1 .. m
    BY <1>0
  <2>3. CASE i < k
    <3>1. w[i] # n /\ w[i] \in DOMAIN info
      BY <1>0, <2>2, <2>3
    <3> QED
      BY <1>2, <1>4, <1>9, <2>1, <2>2, <2>3, <3>1
  <2>4. CASE ~(i < k)
    <3>1. w[i + 1] # n /\ w[i + 1] \in DOMAIN info
      BY <1>0, <2>2, <2>4
    <3> QED
      BY <1>2, <1>4, <1>9, <2>1, <2>2, <2>4, <3>1
  <2> QED
    BY <2>3, <2>4
<1>12. Items(info2, v, m - 1) = z
  BY <1>4, <1>11 DEF Items
<1> QED
  BY <1>1, <1>8, <1>10, <1>12

----------------------------------------------------------------------------
(* Every call, on the queue and on the sequence                             *)

Sorted(q, info, w) == SortedIn(q.priorities, info, w, q.length)
Good(q, info)      == QueueOK(q, info) /\ \E w : Sorted(q, info, w)
IndexOf(q)         == [h \in DOMAIN q.ids |-> q.ids[h].node]

\* What an ordered queue is: as long as its length says, its nodes in w.
LEMMA GoodIs ==
  ASSUME QueueAssumption, NEW q, NEW info, QueueOK(q, info), NEW w, Sorted(q, info, w),
         NEW m, m = q.length, NEW s, s = QueuedIn(q, info)
  PROVE  /\ m \in Nat /\ w \in [1 .. m -> DOMAIN info]
         /\ \A n \in DOMAIN info : \E i \in 1 .. m : w[i] = n
         /\ \A a, b \in 1 .. m : w[a] = w[b] => a = b
         /\ Listed(info, w, m) /\ s = Items(info, w, m)
         /\ s \in Seq(Entries(info)) /\ Len(s) = m /\ DOMAIN s = 1 .. m
         /\ \A i \in 1 .. m : s[i] = Entry(info, w[i])
<1>1. SortedIn(q.priorities, info, w, m)
  BY DEF Sorted
<1>2. /\ m \in Nat /\ w \in [1 .. m -> DOMAIN info]
      /\ \A n \in DOMAIN info : \E i \in 1 .. m : w[i] = n
  BY <1>1 DEF SortedIn
<1>3. \A a, b \in 1 .. m : w[a] = w[b] => a = b
  BY <1>1, SortedDiffer
<1>4. s = Items(info, w, m)
  BY <1>1, QueuedIs
<1>5. /\ s \in Seq(Entries(info)) /\ Len(s) = m /\ DOMAIN s = 1 .. m
      /\ \A i \in 1 .. m : /\ s[i] = Entry(info, w[i]) /\ s[i].token = w[i]
                           /\ s[i].priority = info[w[i]].priority /\ s[i].id = info[w[i]].id
  <2>1. Listed(info, w, m)
    BY <1>2 DEF Listed
  <2> QED
    BY ONLY <1>4, <2>1, ItemsAre
<1> QED
  BY <1>2, <1>3, <1>4, <1>5 DEF Listed

LEMMA PushGood ==
  ASSUME QueueAssumption, NEW q, NEW info, Good(q, info),
         NEW n \in QueueNodes \ DOMAIN info, NEW p \in Priorities, NEW id \in Ids,
         NEW info2, info2 = Put(info, n, [priority |-> p, id |-> id]),
         NEW q2, q2 = PushNode(q, info2, n)
  PROVE  /\ Good(q2, info2)
         /\ QueuedIn(q2, info2) = Sq!Insert(QueuedIn(q, info), [token |-> n, priority |-> p, id |-> id])
         /\ IndexOf(q2) = Put(IndexOf(q), Hash[id], n)
<1>1. QueueOK(q, info) /\ QueueOK(q2, info2)
  BY PushOK DEF Good
<1>2. PICK w : Sorted(q, info, w)
  BY DEF Good
<1>3. PICK m : m = q.length
  OBVIOUS
<1>4. SortedIn(q.priorities, info, w, m)
  BY <1>2, <1>3 DEF Sorted
<1>5. /\ m \in Nat /\ w \in [1 .. m -> DOMAIN info] /\ QueuedIn(q, info) = Items(info, w, m)
  BY <1>1, <1>2, <1>3, GoodIs
<1>6. p \in Nat
  BY DEF QueueAssumption
<1>7. PICK k \in Nat : k <= m /\ \A i \in 1 .. m : info[w[i]].priority <= p <=> i <= k
  BY <1>1, <1>4, <1>6, SortedRises
<1>8. PICK m2 : m2 = Put(q.priorities, p,
                         Attach(IF p \in DOMAIN q.priorities THEN q.priorities[p] ELSE EmptyList, n, "tail"))
  OBVIOUS
<1>9. info2[n].priority = p /\ info2[n].id = id
  BY DEF Put
<1>10. /\ q2.priorities = m2 /\ q2.length = m + 1
       /\ q2.ids = Put(q.ids, Hash[id], [list |-> p, node |-> n])
  BY <1>3, <1>8, <1>9 DEF PushNode
<1>11. PICK v : v = Inserted(m, w, k, n)
  OBVIOUS
<1>12. SortedIn(m2, info2, v, m + 1)
  BY <1>1, <1>4, <1>7, <1>8, <1>11, SortedPush
<1>13. Sorted(q2, info2, v)
  BY <1>10, <1>12 DEF Sorted
<1>14. QueuedIn(q2, info2) = Items(info2, v, m + 1)
  BY <1>1, <1>10, <1>13, GoodIs
<1>15. Sq!Insert(Items(info, w, m), [token |-> n, priority |-> p, id |-> id]) = Items(info2, v, m + 1)
  <2>1. \A x \in DOMAIN info : info2[x] = info[x]
    BY DEF Put
  <2>2. Entry(info2, n) = [token |-> n, priority |-> p, id |-> id]
    BY <1>9 DEF Entry
  <2>3. Listed(info, w, m) /\ Splits(info, w, m, p, k) /\ info2[n].priority = p
    BY <1>5, <1>7, <1>9 DEF Listed, Splits
  <2>4. Sq!Insert(Items(info, w, m), Entry(info2, n)) = Items(info2, Inserted(m, w, k, n), m + 1)
    BY ONLY <2>1, <2>3, InsertIs
  <2> QED
    BY <1>11, <2>2, <2>4
<1>16. IndexOf(q2) = Put(IndexOf(q), Hash[id], n)
  <2>1. /\ DOMAIN q2.ids = DOMAIN q.ids \union {Hash[id]}
        /\ \A h \in DOMAIN q2.ids : q2.ids[h].node = IF h = Hash[id] THEN n ELSE q.ids[h].node
    BY <1>10 DEF Put
  <2> QED
    BY <2>1 DEF IndexOf, Put
<1> QED
  BY <1>1, <1>5, <1>13, <1>14, <1>15, <1>16 DEF Good

LEMMA TakeGood ==
  ASSUME QueueAssumption, NEW q, NEW info, Good(q, info), NEW n \in DOMAIN info,
         NEW info2, info2 = Drop(info, n), NEW q2, Taken(q, info, n, q2), QueueOK(q2, info2)
  PROVE  /\ Good(q2, info2)
         /\ QueuedIn(q2, info2) = Sq!Without(QueuedIn(q, info), n)
         /\ QueuedIn(q, info)[Sq!Place(QueuedIn(q, info), n)] = Entry(info, n)
         /\ IndexOf(q2) = Drop(IndexOf(q), Hash[info[n].id])
<1>1. PICK w : QueueOK(q, info) /\ Sorted(q, info, w)
  BY DEF Good
<1>2. PICK m, s : m = q.length /\ s = QueuedIn(q, info)
  OBVIOUS
<1>3. SortedIn(q.priorities, info, w, m)
  BY <1>1, <1>2 DEF Sorted
<1>4. /\ m \in Nat /\ w \in [1 .. m -> DOMAIN info]
      /\ \A x \in DOMAIN info : \E i \in 1 .. m : w[i] = x
      /\ \A a, b \in 1 .. m : w[a] = w[b] => a = b
      /\ s = Items(info, w, m)
      /\ \A i \in 1 .. m : s[i] = Entry(info, w[i])
  BY <1>1, <1>2, GoodIs
<1>5. PICK k \in 1 .. m : w[k] = n
  BY <1>4
<1>6. PICK p, rest : p = info[n].priority /\ rest = RemoveInternal(q.priorities[p], n)
  OBVIOUS
<1>7. PICK m2 : m2 = IF rest.length = 0 THEN Drop(q.priorities, p) ELSE Put(q.priorities, p, rest)
  OBVIOUS
<1>8. /\ q2.priorities = m2 /\ q2.length = m - 1 /\ q2.ids = Drop(q.ids, Hash[info[n].id])
  BY <1>2, <1>6, <1>7 DEF Taken
<1>9. PICK v : v = Without(m, w, k)
  OBVIOUS
<1>10. SortedIn(m2, info2, v, m - 1)
  BY <1>1, <1>3, <1>5, <1>6, <1>7, <1>9, SortedTake
<1>11. Sorted(q2, info2, v)
  BY <1>8, <1>10 DEF Sorted
<1>12. QueuedIn(q2, info2) = Items(info2, v, m - 1)
  BY <1>8, <1>11, GoodIs
<1>13. Sq!Without(s, n) = Items(info2, v, m - 1)
  <2>1. Listed(info, w, m) /\ \A a, b \in 1 .. m : w[a] = w[b] => a = b
    BY <1>4 DEF Listed
  <2>2. n = w[k] /\ k \in 1 .. m /\ info2 = Drop(info, n)
    BY <1>5
  <2>3. Sq!Without(Items(info, w, m), n) = Items(info2, Without(m, w, k), m - 1)
    BY ONLY <2>1, <2>2, WithoutIs
  <2> QED
    BY <1>4, <1>9, <2>3
<1>14. Sq!Place(s, n) = k
  <2>1. Listed(info, w, m)
    BY <1>4 DEF Listed
  <2>2. \A i \in 1 .. m : Sq!Place(Items(info, w, m), w[i]) = i
    BY <1>4, <2>1, PlaceInItems
  <2> QED
    BY <1>4, <1>5, <2>2
<1>15. IndexOf(q2) = Drop(IndexOf(q), Hash[info[n].id])
  BY <1>8 DEF IndexOf, Drop
<1> QED
  BY <1>2, <1>4, <1>5, <1>11, <1>12, <1>13, <1>14, <1>15 DEF Good

LEMMA ShiftGood ==
  ASSUME QueueAssumption, NEW q, NEW info, Good(q, info), q.first # NULL,
         NEW r, r = ShiftNode(q, info), NEW info2, info2 = Drop(info, r.node)
  PROVE  /\ Good(r.queue, info2)
         /\ r.node \in DOMAIN info /\ r.queue.length = q.length - 1
         /\ QueuedIn(q, info) # <<>>
         /\ Head(QueuedIn(q, info)) = Entry(info, r.node)
         /\ QueuedIn(r.queue, info2) = Tail(QueuedIn(q, info))
         /\ IndexOf(r.queue) = Drop(IndexOf(q), Hash[info[r.node].id])
<1>1. PICK w : QueueOK(q, info) /\ Sorted(q, info, w)
  BY DEF Good
<1>2. PICK m, s : m = q.length /\ s = QueuedIn(q, info)
  OBVIOUS
<1>3. SortedIn(q.priorities, info, w, m)
  BY <1>1, <1>2 DEF Sorted
<1>4. /\ m \in Nat /\ w \in [1 .. m -> DOMAIN info]
      /\ \A a, b \in 1 .. m : w[a] = w[b] => a = b
      /\ s = Items(info, w, m)
      /\ s \in Seq(Entries(info)) /\ Len(s) = m
      /\ \A i \in 1 .. m : s[i] = Entry(info, w[i])
  BY <1>1, <1>2, GoodIs
<1>5. PICK n, q2 : n = r.node /\ q2 = r.queue
  OBVIOUS
<1>6. n \in DOMAIN info /\ n = q.first /\ Taken(q, info, n, q2) /\ QueueOK(q2, info2)
  BY <1>1, <1>5, ShiftOK
<1>7. m # 0 /\ n = w[1] /\ 1 \in 1 .. m
  <2>1. q.first = IF m = 0 THEN NULL ELSE w[1]
    BY <1>1, <1>3, FirstSorted
  <2> QED
    BY <1>4, <1>6, <2>1
<1>8. /\ Good(q2, info2)
      /\ QueuedIn(q2, info2) = Sq!Without(s, n)
      /\ IndexOf(q2) = Drop(IndexOf(q), Hash[info[n].id])
  BY <1>2, <1>5, <1>6, TakeGood
<1>9. q2.length = m - 1
  BY <1>2, <1>6 DEF Taken
<1>10. s # <<>> /\ Head(s) = s[1]
  BY <1>4, <1>7, EmptySeq, HeadTailProperties
<1>11. PICK t : t = Tail(s)
  OBVIOUS
<1>12. t \in Seq(Entries(info)) /\ Len(t) = m - 1 /\ \A i \in 1 .. m - 1 : t[i] = s[i + 1]
  BY <1>4, <1>10, <1>11, HeadTailProperties
<1>13. Sq!Without(s, n) = t
  <2>1. PICK v : v = Without(m, w, 1)
    OBVIOUS
  <2>2. Sq!Without(s, n) = Items(info2, v, m - 1)
    <3>1. Listed(info, w, m) /\ (\A a, b \in 1 .. m : w[a] = w[b] => a = b) /\ info2 = Drop(info, n)
      BY <1>4, <1>5 DEF Listed
    <3>2. Sq!Without(Items(info, w, m), n) = Items(info2, Without(m, w, 1), m - 1)
      BY ONLY <1>7, <3>1, WithoutIs
    <3> QED
      BY <1>4, <2>1, <3>2
  <2>3. ASSUME NEW i \in 1 .. m - 1 PROVE Entry(info2, v[i]) = t[i]
    <3>1. i + 1 \in 1 .. m /\ ~(i < 1) /\ i + 1 # 1
      BY <1>4
    <3>2. v[i] = w[i + 1] /\ w[i + 1] # n /\ w[i + 1] \in DOMAIN info
      BY <1>4, <1>7, <2>1, <3>1 DEF Without
    <3>3. Entry(info2, v[i]) = Entry(info, w[i + 1])
      BY <1>5, <3>2 DEF Drop, Entry
    <3> QED
      BY <1>4, <1>12, <3>1, <3>3
  <2>4. Items(info2, v, m - 1) = [i \in 1 .. m - 1 |-> t[i]]
    BY <2>3 DEF Items
  <2>5. t = [i \in 1 .. m - 1 |-> t[i]]
    BY <1>12
  <2> QED
    BY <2>2, <2>4, <2>5
<1> QED
  BY <1>2, <1>4, <1>5, <1>6, <1>7, <1>8, <1>9, <1>10, <1>11, <1>13

LEMMA FoundIs ==
  ASSUME QueueAssumption, NEW q, NEW info, Good(q, info), NEW n \in DOMAIN info
  PROVE  QueuedIn(q, info)[Sq!Place(QueuedIn(q, info), n)] = Entry(info, n)
<1>1. PICK w : QueueOK(q, info) /\ Sorted(q, info, w)
  BY DEF Good
<1>2. PICK m, s : m = q.length /\ s = QueuedIn(q, info)
  OBVIOUS
<1>3. /\ Listed(info, w, m) /\ s = Items(info, w, m)
      /\ \A x \in DOMAIN info : \E i \in 1 .. m : w[i] = x
      /\ \A a, b \in 1 .. m : w[a] = w[b] => a = b
      /\ \A i \in 1 .. m : s[i] = Entry(info, w[i])
  BY <1>1, <1>2, GoodIs
<1>4. PICK k \in 1 .. m : w[k] = n
  BY <1>3
<1>5. \A i \in 1 .. m : Sq!Place(Items(info, w, m), w[i]) = i
  BY <1>3, PlaceInItems
<1> QED
  BY <1>2, <1>3, <1>4, <1>5

LEMMA NoneQueued ==
  ASSUME QueueAssumption, NEW q, NEW info, Good(q, info)
  PROVE  /\ q.first = NULL <=> QueuedIn(q, info) = <<>>
         /\ q.first = NULL <=> q.length = 0
         /\ q.length \in Nat
<1>1. PICK w : QueueOK(q, info) /\ Sorted(q, info, w)
  BY DEF Good
<1>2. PICK m, s : m = q.length /\ s = QueuedIn(q, info)
  OBVIOUS
<1>3. m \in Nat /\ w \in [1 .. m -> DOMAIN info] /\ s \in Seq(Entries(info)) /\ Len(s) = m
  BY <1>1, <1>2, GoodIs
<1>4. q.first = IF m = 0 THEN NULL ELSE w[1]
  BY <1>1, <1>2, FirstSorted DEF Sorted
<1>5. m # 0 => w[1] # NULL
  <2>1. DOMAIN info \subseteq QueueNodes /\ NULL \notin QueueNodes
    BY <1>1 DEF QueueOK, Infos, QueueAssumption
  <2>2. m # 0 => w[1] \in DOMAIN info
    BY <1>3
  <2> QED
    BY <2>1, <2>2
<1>6. s = <<>> <=> m = 0
  BY <1>3, EmptySeq
<1> QED
  BY <1>2, <1>3, <1>4, <1>5, <1>6

GoodNow == Good(pq, pnode)

LEMMA StablePush ==
  ASSUME QueueAssumption, GoodNow, NEW p \in Priorities, NEW id \in Ids, PQPush(p, id)
  PROVE  GoodNow' /\ Sq!Next
<1>1. PICK n \in QueueNodes \ DOMAIN pnode :
        /\ pnode' = Put(pnode, n, [priority |-> p, id |-> id])
        /\ pq' = PushNode(pq, pnode', n)
  BY DEF PQPush
<1>2. PICK s, s2 : s = QueuedIn(pq, pnode) /\ s2 = QueuedIn(pq', pnode')
  OBVIOUS
<1>3. /\ Good(pq', pnode')
      /\ s2 = Sq!Insert(s, [token |-> n, priority |-> p, id |-> id])
      /\ IndexOf(pq') = Put(IndexOf(pq), Hash[id], n)
  BY <1>1, <1>2, PushGood DEF GoodNow
<1>4. \A i \in DOMAIN s : s[i].token # n
  <2>1. PICK w : QueueOK(pq, pnode) /\ Sorted(pq, pnode, w)
    BY DEF GoodNow, Good
  <2>2. PICK m : m = pq.length
    OBVIOUS
  <2>3. /\ w \in [1 .. m -> DOMAIN pnode] /\ DOMAIN s = 1 .. m
        /\ \A i \in 1 .. m : s[i] = Entry(pnode, w[i])
    BY <1>2, <2>1, <2>2, GoodIs
  <2>4. \A i \in 1 .. m : s[i].token = w[i]
    BY <2>3 DEF Entry
  <2> QED
    BY <2>3, <2>4
<1>5. Sq!Push(n, p, id)
  BY <1>2, <1>3, <1>4 DEF Sq!Push, Sq!Learn, PQPush, IndexOf, Put
<1> QED
  BY <1>3, <1>5 DEF Sq!Next, GoodNow

LEMMA StableShift ==
  ASSUME QueueAssumption, GoodNow, PQShift
  PROVE  GoodNow' /\ Sq!Next
<1>1. PICK r : r = ShiftNode(pq, pnode)
  OBVIOUS
<1>2. /\ pq.first # NULL /\ pq' = r.queue /\ pnode' = Drop(pnode, r.node)
      /\ seen' = <<[priority |-> pnode[r.node].priority, id |-> pnode[r.node].id]>>
  BY <1>1 DEF PQShift, Handed
<1>3. PICK s, s2 : s = QueuedIn(pq, pnode) /\ s2 = QueuedIn(pq', pnode')
  OBVIOUS
<1>4. /\ Good(pq', pnode') /\ s # <<>> /\ s2 = Tail(s)
      /\ Head(s) = Entry(pnode, r.node)
      /\ IndexOf(pq') = Drop(IndexOf(pq), Hash[pnode[r.node].id])
  BY <1>1, <1>2, <1>3, ShiftGood DEF GoodNow
<1>5. seen' = Sq!Item(Head(s)) /\ seen' # <<>> /\ Head(s).id = pnode[r.node].id
  BY <1>2, <1>4 DEF Sq!Item, Entry
<1>6. Sq!Shift
  BY <1>3, <1>4, <1>5 DEF Sq!Shift, Sq!Forget, IndexOf, Drop
<1> QED
  BY <1>4, <1>6 DEF Sq!Next, GoodNow

LEMMA StablePeek ==
  ASSUME QueueAssumption, GoodNow, PQPeek
  PROVE  GoodNow' /\ Sq!Next
<1>1. PICK s : s = QueuedIn(pq, pnode)
  OBVIOUS
<1>2. pq' = pq /\ pnode' = pnode /\ seen' = IF pq.first = NULL THEN <<>> ELSE Handed(pq.first)
  BY DEF PQPeek
<1>3. pq.first = NULL <=> s = <<>>
  BY <1>1, NoneQueued DEF GoodNow
<1>4. pq.first # NULL => Handed(pq.first) = Sq!Item(Head(s))
  <2>1. SUFFICES ASSUME pq.first # NULL PROVE Handed(pq.first) = Sq!Item(Head(s))
    OBVIOUS
  <2>2. PICK r : r = ShiftNode(pq, pnode)
    OBVIOUS
  <2>3. Head(s) = Entry(pnode, r.node)
    BY <1>1, <2>1, <2>2, ShiftGood DEF GoodNow
  <2>4. r.node = pq.first
    BY <2>1, <2>2, ShiftOK DEF GoodNow, Good
  <2> QED
    BY <2>3, <2>4 DEF Handed, Sq!Item, Entry
<1>5. Sq!Peek
  BY <1>1, <1>2, <1>3, <1>4 DEF Sq!Peek
<1> QED
  BY <1>2, <1>5 DEF Sq!Next, GoodNow

LEMMA StableFound ==
  ASSUME QueueAssumption, GoodNow, NEW id, Known(id), NEW n, n = pq.ids[Hash[id]].node
  PROVE  /\ n \in DOMAIN pnode /\ n \in QueueNodes /\ Hash[pnode[n].id] = Hash[id]
         /\ pnode[n] \in [priority : Priorities, id : Ids]
         /\ Sq!Known(id) /\ IndexOf(pq)[Hash[id]] = n /\ Sq!Found(id) = Entry(pnode, n)
<1>1. Hash[id] \in DOMAIN pq.ids /\ IndexOf(pq)[Hash[id]] = n /\ DOMAIN IndexOf(pq) = DOMAIN pq.ids
  BY DEF Known, IndexOf
<1>2. n \in DOMAIN pnode /\ Hash[pnode[n].id] = Hash[id]
  BY <1>1 DEF GoodNow, Good, QueueOK, IdsOK
<1>3. n \in QueueNodes /\ pnode[n] \in [priority : Priorities, id : Ids]
  BY <1>2 DEF GoodNow, Good, QueueOK, Infos
<1>4. QueuedIn(pq, pnode)[Sq!Place(QueuedIn(pq, pnode), n)] = Entry(pnode, n)
  BY <1>2, FoundIs DEF GoodNow
<1>5. Sq!Known(id)
  BY <1>1 DEF Sq!Known, IndexOf
<1>6. Sq!Found(id) = Entry(pnode, n)
  BY <1>1, <1>4 DEF Sq!Found, IndexOf
<1> QED
  BY <1>1, <1>2, <1>3, <1>5, <1>6

LEMMA StableLookup ==
  ASSUME QueueAssumption, GoodNow, NEW id \in Ids, PQLookup(id)
  PROVE  GoodNow' /\ Sq!Next
<1>1. pq' = pq /\ pnode' = pnode /\ seen' = IF Known(id) THEN Handed(pq.ids[Hash[id]].node) ELSE <<>>
  BY DEF PQLookup
<1>2. Sq!Known(id) <=> Known(id)
  BY DEF Sq!Known, Known
<1>3. Known(id) => Handed(pq.ids[Hash[id]].node) = Sq!Item(Sq!Found(id))
  BY StableFound DEF Handed, Sq!Item, Entry
<1>4. Sq!Lookup(id)
  BY <1>1, <1>2, <1>3 DEF Sq!Lookup
<1> QED
  BY <1>1, <1>4 DEF Sq!Next, GoodNow

LEMMA StableRemove ==
  ASSUME QueueAssumption, GoodNow, NEW id \in Ids, PQRemove(id)
  PROVE  GoodNow' /\ Sq!Next
<1>1. PICK r, n : r = RemoveNode(pq, pnode, id) /\ n = pq.ids[Hash[id]].node
  OBVIOUS
<1>2. /\ Known(id) /\ pq' = r.queue /\ pnode' = Drop(pnode, r.node)
      /\ seen' = <<[priority |-> pnode[r.node].priority, id |-> pnode[r.node].id]>>
  BY <1>1 DEF PQRemove, Handed
<1>3. PICK s, s2 : s = QueuedIn(pq, pnode) /\ s2 = QueuedIn(pq', pnode')
  OBVIOUS
<1>4. /\ n \in DOMAIN pnode /\ Hash[pnode[n].id] = Hash[id]
      /\ Sq!Known(id) /\ IndexOf(pq)[Hash[id]] = n /\ Sq!Found(id) = Entry(pnode, n)
  BY <1>1, <1>2, StableFound
<1>5. r.node = n /\ Taken(pq, pnode, n, pq') /\ QueueOK(pq', pnode')
  BY <1>1, <1>2, RemoveOK DEF GoodNow, Good, Known
<1>6. /\ Good(pq', pnode') /\ s2 = Sq!Without(s, n)
      /\ IndexOf(pq') = Drop(IndexOf(pq), Hash[pnode[n].id])
  BY <1>2, <1>3, <1>4, <1>5, TakeGood DEF GoodNow
<1>7. seen' = Sq!Item(Sq!Found(id))
  BY <1>2, <1>4, <1>5 DEF Sq!Item, Entry
<1>8. Sq!Remove(id)
  BY <1>3, <1>4, <1>6, <1>7 DEF Sq!Remove, Sq!Forget, IndexOf, Drop
<1> QED
  BY <1>6, <1>8 DEF Sq!Next, GoodNow

LEMMA StableSetPriority ==
  ASSUME QueueAssumption, GoodNow, NEW id \in Ids, NEW p \in Priorities, PQSetPriority(id, p)
  PROVE  GoodNow' /\ Sq!Next
<1>1. PICK r, n, i : /\ r = RemoveNode(pq, pnode, id)
                     /\ n = pq.ids[Hash[id]].node /\ i = pnode[n].id
  OBVIOUS
<1>2. /\ n \in DOMAIN pnode /\ Hash[i] = Hash[id]
      /\ Sq!Known(id) /\ IndexOf(pq)[Hash[id]] = n /\ Sq!Found(id) = Entry(pnode, n)
  BY <1>1, StableFound DEF PQSetPriority
<1>3. PICK o : o = Drop(pnode, n)
  OBVIOUS
<1>4. r.node = n /\ Taken(pq, pnode, n, r.queue) /\ QueueOK(r.queue, o)
  BY <1>1, <1>3, RemoveOK DEF PQSetPriority, GoodNow, Good, Known
<1>5. pnode' = [pnode EXCEPT ![n].priority = p] /\ pq' = PushNode(r.queue, pnode', n)
  BY <1>1, <1>4 DEF PQSetPriority
<1>6. /\ pnode' = Put(o, n, [priority |-> p, id |-> i])
      /\ n \in QueueNodes \ DOMAIN o /\ i \in Ids
  <2>1. Infos(pnode)
    BY DEF GoodNow, Good, QueueOK
  <2>2. Promoted(pnode, n, p) = Put(o, n, Info(p, i)) /\ n \in QueueNodes \ DOMAIN o /\ i \in Ids
    BY <1>1, <1>2, <1>3, <2>1, PriorityIs
  <2> QED
    BY <1>5, <2>2 DEF Promoted, Info
<1>7. PICK s, t, s2 : s = QueuedIn(pq, pnode) /\ t = QueuedIn(r.queue, o) /\ s2 = QueuedIn(pq', pnode')
  OBVIOUS
<1>8. /\ Good(r.queue, o) /\ t = Sq!Without(s, n)
      /\ IndexOf(r.queue) = Drop(IndexOf(pq), Hash[i])
  BY <1>1, <1>2, <1>3, <1>4, <1>7, TakeGood DEF GoodNow
<1>9. /\ Good(pq', pnode') /\ s2 = Sq!Insert(t, [token |-> n, priority |-> p, id |-> i])
      /\ IndexOf(pq') = Put(IndexOf(r.queue), Hash[i], n)
  <2>1. pq' = PushNode(r.queue, pnode', n) /\ Good(r.queue, o) /\ p \in Priorities
    BY <1>5, <1>8
  <2> QED
    BY ONLY QueueAssumption, <1>6, <1>7, <2>1, PushGood
<1>10. [Sq!Found(id) EXCEPT !.priority = p] = [token |-> n, priority |-> p, id |-> i]
  BY <1>1, <1>2 DEF Entry
<1>11. IndexOf(pq') = IndexOf(pq)
  <2>1. PICK a, h : a = IndexOf(pq) /\ h = Hash[id]
    OBVIOUS
  <2>2. a = [x \in DOMAIN a |-> a[x]] /\ h \in DOMAIN a /\ a[h] = n
    BY <1>2, <2>1 DEF IndexOf, Sq!Known
  <2>3. IndexOf(pq') = Put(Drop(a, h), h, n)
    BY <1>2, <1>8, <1>9, <2>1
  <2>4. Put(Drop(a, h), h, n) = a
    BY <2>2 DEF Put, Drop
  <2> QED
    BY <2>1, <2>3, <2>4
<1>12. seen' = <<>>
  BY DEF PQSetPriority
<1>13. Sq!SetPriority(id, p)
  <2>1. PICK e : e = [token |-> n, priority |-> p, id |-> i]
    OBVIOUS
  <2>2. s2 = Sq!Insert(Sq!Without(s, e.token), e)
    BY <1>8, <1>9, <2>1
  <2> QED
    BY <1>2, <1>7, <1>10, <1>11, <1>12, <2>1, <2>2 DEF Sq!SetPriority, IndexOf
<1> QED
  BY <1>9, <1>13 DEF Sq!Next, GoodNow

----------------------------------------------------------------------------
(* Shifting until the queue is empty: after j shifts the j first are handed *)
(* out and the queue holds the others.  A shift looks at its own node only, *)
(* so it does not matter that the nodes handed out are still in info.       *)

Given(e)       == [priority |-> e.priority, id |-> e.id]
Gifts(s, m)    == {Given(s[i]) : i \in 1 .. m}
Hand(info, n)  == <<[priority |-> info[n].priority, id |-> info[n].id]>>
Served(info, d) ==
  LET r == ShiftNode(d.queue, info)
  IN [queue |-> r.queue, items |-> d.items \o Hand(info, r.node)]
Drains(q, info, j, d) ==
  d = [i \in 0 .. j |-> IF i = 0 THEN [queue |-> q, items |-> <<>>] ELSE Served(info, d[i - 1])]

Part(inf, info) == \A x \in DOMAIN inf : x \in DOMAIN info /\ inf[x] = info[x]
After(info, s, m, j, d) ==
  /\ j \in Nat /\ j <= m
  /\ \E inf : /\ Good(d.queue, inf) /\ Part(inf, info)
              /\ d.queue.length = m - j
              /\ \A i \in 1 .. m - j : QueuedIn(d.queue, inf)[i] = s[j + i]
  /\ d.items \in Seq(Gifts(s, m)) /\ Len(d.items) = j
  /\ \A i \in 1 .. j : d.items[i] = Given(s[i])

LEMMA SameShift ==
  ASSUME QueueAssumption, NEW q, NEW inf, Good(q, inf), q.first # NULL, NEW info, Part(inf, info)
  PROVE  ShiftNode(q, info) = ShiftNode(q, inf)
<1>1. PICK p \in DOMAIN q.priorities : /\ q.first = q.priorities[p].head
                                       /\ q.first \in DOMAIN inf /\ inf[q.first].priority = p
  BY FirstIs DEF Good
<1>2. info[q.first] = inf[q.first]
  BY <1>1 DEF Part
<1> QED
  BY <1>1, <1>2 DEF ShiftNode

LEMMA ServedIs ==
  ASSUME QueueAssumption, NEW info, NEW s, NEW m \in Nat, NEW j, NEW d,
         After(info, s, m, j, d), j # m
  PROVE  After(info, s, m, j + 1, Served(info, d))
<1>1. PICK inf : /\ Good(d.queue, inf) /\ Part(inf, info)
                 /\ d.queue.length = m - j
                 /\ \A i \in 1 .. m - j : QueuedIn(d.queue, inf)[i] = s[j + i]
  BY DEF After
<1>2. /\ j \in Nat /\ j < m
      /\ d.items \in Seq(Gifts(s, m)) /\ Len(d.items) = j
      /\ \A i \in 1 .. j : d.items[i] = Given(s[i])
  BY DEF After
<1>3. PICK q, r, n, t : /\ q = d.queue /\ r = ShiftNode(q, inf) /\ n = r.node
                        /\ t = QueuedIn(q, inf)
  OBVIOUS
<1>4. PICK inf2, t2 : inf2 = Drop(inf, n) /\ t2 = QueuedIn(r.queue, inf2)
  OBVIOUS
<1>5. q.first # NULL
  BY <1>1, <1>2, <1>3, NoneQueued
<1>6. ShiftNode(q, info) = r
  BY <1>1, <1>3, <1>5, SameShift
<1>7. /\ Good(r.queue, inf2) /\ n \in DOMAIN inf /\ r.queue.length = q.length - 1
      /\ t # <<>> /\ Head(t) = Entry(inf, n) /\ t2 = Tail(t)
  BY <1>1, <1>3, <1>4, <1>5, ShiftGood
<1>8. t \in Seq(Entries(inf)) /\ Len(t) = m - j
  <2>1. PICK w : QueueOK(q, inf) /\ Sorted(q, inf, w)
    BY <1>1, <1>3 DEF Good
  <2> QED
    BY <1>1, <1>3, <2>1, GoodIs
<1>9. /\ Head(t) = t[1] /\ \A i \in 1 .. Len(t) - 1 : t2[i] = t[i + 1]
  BY <1>7, <1>8, HeadTailProperties
<1>10. Part(inf2, info)
  BY <1>1, <1>4 DEF Part, Drop
<1>11. ASSUME NEW i \in 1 .. m - (j + 1) PROVE t2[i] = s[(j + 1) + i]
  <2>1. i \in 1 .. Len(t) - 1 /\ i + 1 \in 1 .. m - j /\ j + (i + 1) = (j + 1) + i
    BY <1>2, <1>8
  <2> QED
    BY <1>1, <1>3, <1>9, <2>1
<1>12. PICK x, y, g : x = d.items /\ g = Given(s[j + 1]) /\ y = x \o <<g>>
  OBVIOUS
<1>13. Hand(info, n) = <<g>>
  <2>1. 1 \in 1 .. m - j
    BY <1>2
  <2>2. s[j + 1] = Entry(inf, n)
    BY <1>1, <1>3, <1>7, <1>9, <2>1
  <2>3. info[n] = inf[n]
    BY <1>1, <1>7 DEF Part
  <2> QED
    BY <1>12, <2>2, <2>3 DEF Hand, Given, Entry
<1>14. PICK v : v = Served(info, d)
  OBVIOUS
<1>15. v.queue = r.queue /\ v.items = y
  BY <1>3, <1>6, <1>12, <1>13, <1>14 DEF Served
<1>16. y \in Seq(Gifts(s, m)) /\ Len(y) = j + 1 /\ \A i \in 1 .. j + 1 : y[i] = Given(s[i])
  <2>1. PICK o : o = <<g>>
    OBVIOUS
  <2>2. g \in Gifts(s, m)
    <3>1. j + 1 \in 1 .. m
      BY <1>2
    <3> QED
      BY <1>12, <3>1 DEF Gifts
  <2>3. o \in Seq(Gifts(s, m)) /\ Len(o) = 1 /\ o[1] = g
    BY <2>1, <2>2
  <2>4. x \in Seq(Gifts(s, m)) /\ Len(x) = j /\ y = x \o o
    BY <1>2, <1>12, <2>1
  <2>5. /\ x \o o \in Seq(Gifts(s, m)) /\ Len(x \o o) = Len(x) + Len(o)
        /\ \A i \in 1 .. Len(x) + Len(o) : (x \o o)[i] = IF i <= Len(x) THEN x[i] ELSE o[i - Len(x)]
    <3>1. x \in Seq(Gifts(s, m)) /\ o \in Seq(Gifts(s, m))
      BY <2>3, <2>4
    <3> QED
      BY ONLY <3>1, ConcatProperties
  <2>6. /\ y \in Seq(Gifts(s, m)) /\ Len(y) = j + 1
        /\ \A i \in 1 .. j + 1 : y[i] = IF i <= j THEN x[i] ELSE o[i - j]
    BY <2>3, <2>4, <2>5
  <2>7. ASSUME NEW i \in 1 .. j + 1 PROVE y[i] = Given(s[i])
    <3>1. CASE i <= j
      <4>1. i \in 1 .. j
        BY <1>2, <3>1
      <4> QED
        BY <1>2, <1>12, <2>6, <3>1, <4>1
    <3>2. CASE ~(i <= j)
      <4>1. i = j + 1 /\ i - j = 1
        BY <1>2, <3>2
      <4> QED
        BY <1>12, <2>3, <2>6, <3>2, <4>1
    <3> QED
      BY <3>1, <3>2
  <2> QED
    BY <2>6, <2>7
<1>17. v.queue.length = m - (j + 1)
  BY <1>1, <1>2, <1>3, <1>7, <1>15
<1>18. j + 1 \in Nat /\ j + 1 <= m
  BY <1>2
<1>19. \E f : /\ Good(v.queue, f) /\ Part(f, info)
              /\ v.queue.length = m - (j + 1)
              /\ \A i \in 1 .. m - (j + 1) : QueuedIn(v.queue, f)[i] = s[(j + 1) + i]
  BY <1>4, <1>7, <1>10, <1>11, <1>15, <1>17
<1>20. After(info, s, m, j + 1, v)
  BY <1>15, <1>16, <1>18, <1>19 DEF After
<1> QED
  BY <1>14, <1>20

LEMMA DrainOnly ==
  ASSUME NEW q, NEW info, NEW m \in Nat, NEW d, NEW e, Drains(q, info, m, d), Drains(q, info, m, e)
  PROVE  d = e
<1>1. /\ d = [i \in 0 .. m |-> d[i]] /\ e = [i \in 0 .. m |-> e[i]]
      /\ \A i \in 0 .. m : i # 0 => d[i] = Served(info, d[i - 1]) /\ e[i] = Served(info, e[i - 1])
      /\ d[0] = e[0]
  BY DEF Drains
<1>2. PICK bad : bad = {i \in 0 .. m : d[i] # e[i]}
  OBVIOUS
<1>3. CASE bad = {}
  BY <1>1, <1>2, <1>3
<1>4. CASE bad # {}
  <2>1. bad \in SUBSET Nat
    BY <1>2
  <2>2. PICK b \in bad : \A i \in bad : b <= i
    BY <1>4, <2>1, MinExists
  <2>3. b \in 0 .. m /\ d[b] # e[b] /\ b # 0
    BY <1>1, <1>2, <2>2
  <2>4. b - 1 \in 0 .. m /\ ~(b <= b - 1)
    BY <2>3
  <2>5. d[b - 1] = e[b - 1]
    BY <1>2, <2>2, <2>4
  <2> QED
    BY <1>1, <2>3, <2>5
<1> QED
  BY <1>3, <1>4

LEMMA DrainExists ==
  ASSUME QueueAssumption, NEW q, NEW info, Good(q, info),
         NEW m, m = q.length, NEW s, s = QueuedIn(q, info)
  PROVE  \E d : Drains(q, info, m, d) /\ After(info, s, m, m, d[m])
<1>1. m \in Nat
  BY NoneQueued
<1>2. PICK first : first = [queue |-> q, items |-> <<>>]
  OBVIOUS
<1>3. ASSUME NEW j, NEW d
      PROVE  Drains(q, info, j, d)
               <=> d = [i \in 0 .. j |-> IF i = 0 THEN first ELSE Served(info, d[i - 1])]
  BY <1>2 DEF Drains
<1>4. PICK bad : bad = {j \in 0 .. m : ~\E d : Drains(q, info, j, d) /\ After(info, s, m, j, d[j])}
  OBVIOUS
<1>5. 0 \notin bad
  <2>1. PICK d : d = [i \in 0 .. 0 |-> first]
    OBVIOUS
  <2>2. Drains(q, info, 0, d) /\ d[0] = first
    <3>1. d[0] = first
      BY <2>1
    <3>2. \A i \in 0 .. 0 : first = IF i = 0 THEN first ELSE Served(info, d[i - 1])
      OBVIOUS
    <3>3. d = [i \in 0 .. 0 |-> IF i = 0 THEN first ELSE Served(info, d[i - 1])]
      BY <2>1, <3>2
    <3> QED
      BY <1>3, <3>1, <3>3
  <2>3. After(info, s, m, 0, first)
    <3>1. first.queue = q /\ first.items = <<>>
      BY <1>2
    <3>2. Part(info, info)
      BY DEF Part
    <3>3. q.length = m - 0 /\ \A i \in 1 .. m - 0 : s[i] = s[0 + i]
      BY <1>1
    <3>4. <<>> \in Seq(Gifts(s, m)) /\ Len(<<>>) = 0 /\ \A i \in 1 .. 0 : i \notin 1 .. 0
      OBVIOUS
    <3> QED
      BY <1>1, <3>1, <3>2, <3>3, <3>4 DEF After
  <2> QED
    BY <1>4, <2>2, <2>3
<1>6. ASSUME bad # {} PROVE FALSE
  <2>1. bad \in SUBSET Nat
    BY <1>1, <1>4
  <2>2. PICK b \in bad : \A j \in bad : b <= j
    BY <1>6, <2>1, MinExists
  <2>3. b \in 0 .. m /\ b \in Nat /\ b # 0
    BY <1>1, <1>4, <1>5, <2>2
  <2>4. b - 1 \in 0 .. m /\ b - 1 # m /\ b - 1 \notin bad /\ (b - 1) + 1 = b /\ b - 1 \in Nat
    BY <1>1, <2>1, <2>2, <2>3
  <2>5. PICK d : Drains(q, info, b - 1, d) /\ After(info, s, m, b - 1, d[b - 1])
    BY <1>4, <2>4
  <2>6. PICK e : e = [i \in 0 .. b |-> IF i = b THEN Served(info, d[b - 1]) ELSE d[i]]
    OBVIOUS
  <2>7. After(info, s, m, b, Served(info, d[b - 1]))
    <3>1. PICK c : c = b - 1
      OBVIOUS
    <3>2. After(info, s, m, c + 1, Served(info, d[c]))
      BY ONLY QueueAssumption, <1>1, <2>4, <2>5, <3>1, ServedIs
    <3> QED
      BY <2>4, <3>1, <3>2
  <2>8. Drains(q, info, b, e)
    <3>1. d = [i \in 0 .. b - 1 |-> IF i = 0 THEN first ELSE Served(info, d[i - 1])]
      BY <1>3, <2>5
    <3>2. ASSUME NEW i \in 0 .. b PROVE e[i] = IF i = 0 THEN first ELSE Served(info, e[i - 1])
      <4>1. CASE i = 0
        BY <2>3, <2>4, <2>6, <3>1, <4>1
      <4>2. CASE i = b
        <5>1. b - 1 \in 0 .. b /\ b - 1 # b
          BY <2>3
        <5> QED
          BY <2>3, <2>6, <4>2, <5>1
      <4>3. CASE i # 0 /\ i # b
        <5>1. i \in 0 .. b - 1 /\ i - 1 \in 0 .. b /\ i - 1 # b
          BY <2>3, <4>3
        <5>2. e[i] = d[i] /\ e[i - 1] = d[i - 1]
          BY <2>6, <4>3, <5>1
        <5> QED
          BY <3>1, <4>3, <5>1, <5>2
      <4> QED
        BY <4>1, <4>2, <4>3
    <3>3. e = [i \in 0 .. b |-> e[i]]
      BY <2>6
    <3> QED
      BY <1>3, <3>2, <3>3
  <2>9. e[b] = Served(info, d[b - 1])
    BY <2>3, <2>6
  <2>10. b \notin bad
    BY <1>4, <2>7, <2>8, <2>9
  <2> QED
    BY <2>2, <2>10
<1>7. bad = {}
  BY <1>6
<1> QED
  BY <1>1, <1>4, <1>7

LEMMA QueueStarts ==
  ASSUME QueueAssumption
  PROVE  Good(EmptyQueue, <<>>) /\ QueuedIn(EmptyQueue, <<>>) = <<>> /\ IndexOf(EmptyQueue) = <<>>
<1>1. PICK m : m = <<>>
  OBVIOUS
<1>2. DOMAIN m = {} /\ \A i : i \notin 1 .. 0
  BY <1>1
<1>3. /\ EmptyQueue.priorities = m /\ EmptyQueue.ids = m /\ EmptyQueue.length = 0
      /\ EmptyQueue.first = NULL
  BY <1>1 DEF EmptyQueue
<1>4. SortedIn(m, m, m, 0)
  <2>1. m \in [1 .. 0 -> DOMAIN m]
    BY <1>1, <1>2
  <2> QED
    BY <1>2, <2>1 DEF SortedIn
<1>5. Good(EmptyQueue, m)
  BY <1>1, <1>3, <1>4, QueueStart DEF Good, Sorted
<1>6. QueuedIn(EmptyQueue, m) = <<>>
  BY <1>3, <1>5, NoneQueued
<1>7. IndexOf(EmptyQueue) = <<>>
  BY <1>1, <1>3 DEF IndexOf
<1> QED
  BY <1>1, <1>5, <1>6, <1>7

LEMMA StableDestroy ==
  ASSUME QueueAssumption, GoodNow, PQDestroy
  PROVE  GoodNow' /\ Sq!Next
<1>1. PICK m, s : m = pq.length /\ s = QueuedIn(pq, pnode)
  OBVIOUS
<1>2. PICK c : c = CHOOSE d : Drains(pq, pnode, m, d)
  OBVIOUS
<1>3. PICK d : Drains(pq, pnode, m, d) /\ After(pnode, s, m, m, d[m])
  BY <1>1, DrainExists DEF GoodNow
<1>4. m \in Nat /\ s \in Seq(Entries(pnode)) /\ Len(s) = m
  <2>1. PICK w : QueueOK(pq, pnode) /\ Sorted(pq, pnode, w)
    BY DEF GoodNow, Good
  <2> QED
    BY <1>1, <2>1, GoodIs
<1>5. c = d
  <2>1. Drains(pq, pnode, m, c)
    BY <1>2, <1>3
  <2> QED
    BY <1>3, <1>4, <2>1, DrainOnly
<1>6. seen' = c[m].items /\ pq' = EmptyQueue /\ pnode' = <<>>
  <2>1. \A n : Handed(n) = Hand(pnode, n)
    BY DEF Handed, Hand
  <2>2. seen' = c[m].items
    BY <1>1, <1>2, <2>1 DEF PQDestroy, Drains, Served
  <2> QED
    BY <2>2 DEF PQDestroy
<1>7. PICK x : x = seen'
  OBVIOUS
<1>8. x \in Seq(Gifts(s, m)) /\ Len(x) = m /\ \A i \in 1 .. m : x[i] = Given(s[i])
  BY <1>3, <1>5, <1>6, <1>7 DEF After
<1>9. x = [i \in 1 .. m |-> Given(s[i])]
  <2>1. x = [i \in 1 .. m |-> x[i]]
    BY <1>8
  <2> QED
    BY <1>8, <2>1
<1>10. \A e : Sq!Item(e)[1] = Given(e)
  BY DEF Sq!Item, Given
<1>11. DOMAIN s = 1 .. m
  BY <1>4
<1>12. seen' = [i \in DOMAIN s |-> Sq!Item(s[i])[1]]
  BY <1>7, <1>9, <1>10, <1>11
<1>13. GoodNow' /\ QueuedIn(pq', pnode') = <<>> /\ IndexOf(pq') = <<>>
  BY <1>6, QueueStarts DEF GoodNow
<1>14. Sq!Clear
  BY <1>1, <1>12, <1>13 DEF Sq!Clear, IndexOf
<1> QED
  BY <1>13, <1>14 DEF Sq!Next

LEMMA QueueRefines ==
  ASSUME QueueAssumption, GoodNow, [QueueNext]_qvars
  PROVE  GoodNow' /\ [Sq!Next]_(Sq!qvars)
<1>1. CASE UNCHANGED qvars
  BY <1>1 DEF qvars, GoodNow, Sq!qvars
<1>2. CASE QueueNext
  BY <1>2, StablePush, StableShift, StablePeek, StableLookup, StableRemove, StableSetPriority,
     StableDestroy DEF QueueNext
<1> QED
  BY <1>1, <1>2

\* Lists by priority, the map of identifiers and the cached first are together one queue
\* in the order of priorities and of arrival, through removals, changes of priority and
\* colliding identifiers, with any number of nodes (priority_queue.c).
THEOREM QueueIsStable == ASSUME QueueAssumption PROVE QueueSpec => QueueImplementsStable
<1>1. QueueInit => GoodNow /\ Sq!Init
  BY QueueStarts DEF QueueInit, GoodNow, Sq!Init, IndexOf
<1>2. GoodNow /\ [QueueNext]_qvars => GoodNow' /\ [Sq!Next]_(Sq!qvars)
  BY QueueRefines
<1> QED
  BY <1>1, <1>2, PTL DEF QueueSpec, QueueImplementsStable, Sq!Spec
=============================================================================
