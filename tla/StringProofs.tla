---------------------------- MODULE StringProofs ----------------------------
(***************************************************************************)
(* The string functions on every text, and the configuration parser on     *)
(* every file.  Their loops are recursive functions over places in the     *)
(* text or the file; a loop that gets closer to its end has a value at     *)
(* every place (LoopHasValues), and what holds at a place if it holds      *)
(* closer to the end holds everywhere (CloserInduction).  Trimming cuts    *)
(* the blanks at both ends, replacing fills what it sized, splitting       *)
(* returns the runs between the separators in order, and a section of a    *)
(* configuration gives a field the last value that one of its lines says.  *)
(***************************************************************************)
EXTENDS StringCalls, ConfigCalls, WellFoundedInduction, FiniteSetTheorems, FunctionTheorems,
        SequenceTheorems, TLAPS

LEMMA MinExists ==
  ASSUME NEW S \in SUBSET Nat, S # {}
  PROVE  \E m \in S : \A k \in S : m <= k
<1>1. PICK m \in S : \A k \in S : ~(<<k, m>> \in OpToRel(<, Nat))
  BY NatLessThanWellFounded, WFMin
<1>2. ASSUME NEW k \in S PROVE ~(k < m)
  BY <1>1 DEF OpToRel
<1>3. \A k \in S : m <= k
  BY <1>2
<1> QED
  BY <1>3

----------------------------------------------------------------------------
(* Loops as recursive functions: one that gets closer to its end has a      *)
(* value everywhere, and what holds if it holds closer to the end, holds.   *)

LEMMA CloserInduction ==
  ASSUME NEW D, NEW rank \in [D -> Nat], NEW S,
         \A x \in D : (\A y \in D : rank[y] < rank[x] => y \in S) => x \in S
  PROVE  D \subseteq S
<1> DEFINE Bad == {m \in Nat : \E x \in D : rank[x] = m /\ x \notin S}
<1>1. SUFFICES ASSUME Bad # {} PROVE FALSE
  OBVIOUS
<1>2. PICK m \in Bad : \A k \in Bad : m <= k
  <2>1. Bad \in SUBSET Nat
    OBVIOUS
  <2> HIDE DEF Bad
  <2> QED
    BY <1>1, <2>1, MinExists
<1>3. PICK x \in D : rank[x] = m /\ x \notin S
  OBVIOUS
<1>4. ASSUME NEW y \in D, rank[y] < rank[x], y \notin S PROVE FALSE
  <2>1. rank[y] \in Bad
    BY <1>4
  <2>2. ~(m <= rank[y])
    BY <1>3, <1>4
  <2> QED
    BY <1>2, <2>1, <2>2
<1> QED
  BY <1>3, <1>4

\* A loop on D that ends at "ends" with the value of base, and else goes on at next.
Loop(D, ends, base, next, step, f) ==
  f = [x \in D |-> IF x \in ends THEN base[x] ELSE step[<<x, f[next[x]]>>]]

LEMMA LoopHasValues ==
  ASSUME NEW D, NEW V, NEW B \in Nat, NEW rank \in [D -> 0 .. B], NEW ends, NEW base \in [D -> V],
         NEW next \in [D -> D], NEW step \in [D \X V -> V],
         \A x \in D : x \notin ends => rank[next[x]] < rank[x]
  PROVE  \E f \in [D -> V] : Loop(D, ends, base, next, step, f)
<1> DEFINE Below(m) == {x \in D : rank[x] < m}
           Partly(f, m) == /\ f \in [Below(m) -> V]
                           /\ \A x \in Below(m) : f[x] = IF x \in ends THEN base[x] ELSE step[<<x, f[next[x]]>>]
           Bad == {m \in Nat : ~\E f : Partly(f, m)}
<1>1. Bad = {}
  <2>1. SUFFICES ASSUME Bad # {} PROVE FALSE
    OBVIOUS
  <2>2. PICK m \in Bad : \A k \in Bad : m <= k
    <3>1. Bad \in SUBSET Nat
      OBVIOUS
    <3> HIDE DEF Bad
    <3> QED
      BY <2>1, <3>1, MinExists
  <2>3. m # 0
    <3>1. PICK f : f = [x \in {} |-> x]
      OBVIOUS
    <3>2. Below(0) = {}
      OBVIOUS
    <3>3. Partly(f, 0)
      BY <3>1, <3>2
    <3> QED
      BY <3>3
  <2>4. m - 1 \in Nat /\ m - 1 \notin Bad
    <3>1. m \in Nat
      OBVIOUS
    <3>2. m - 1 \in Nat /\ ~(m <= m - 1)
      BY <2>3, <3>1
    <3> HIDE DEF Bad
    <3> QED
      BY <2>2, <3>2
  <2>5. PICK g : Partly(g, m - 1)
    BY <2>4
  <2>6. PICK h : h = [x \in Below(m) |-> IF x \in Below(m - 1) THEN g[x]
                                          ELSE IF x \in ends THEN base[x] ELSE step[<<x, g[next[x]]>>]]
    OBVIOUS
  <2>7. ASSUME NEW x \in Below(m), x \notin ends
        PROVE  next[x] \in Below(m - 1) /\ next[x] \in Below(m) /\ g[next[x]] \in V /\ h[next[x]] = g[next[x]]
    <3>1. next[x] \in D /\ rank[x] \in Int /\ rank[next[x]] \in Int /\ rank[next[x]] < rank[x] /\ rank[x] < m
      BY <2>7
    <3>2. next[x] \in Below(m - 1) /\ next[x] \in Below(m)
      BY <3>1
    <3> QED
      BY <2>5, <2>6, <3>2
  <2>8. ASSUME NEW x \in Below(m)
        PROVE  h[x] \in V /\ h[x] = IF x \in ends THEN base[x] ELSE step[<<x, h[next[x]]>>]
    <3>1. CASE x \in ends
      BY <2>5, <2>6, <3>1
    <3>2. CASE x \notin ends
      <4>1. h[x] = step[<<x, g[next[x]]>>]
        BY <2>5, <2>6, <2>7, <3>2
      <4>2. <<x, g[next[x]]>> \in D \X V
        BY <2>7, <3>2
      <4> QED
        BY <2>7, <3>2, <4>1, <4>2
    <3> QED
      BY <3>1, <3>2
  <2>9. h \in [Below(m) -> V]
    BY <2>6, <2>8
  <2>10. Partly(h, m)
    BY <2>8, <2>9
  <2> QED
    BY <2>10
<1>2. PICK f : Partly(f, B + 1)
  <2>1. B + 1 \in Nat
    OBVIOUS
  <2> QED
    BY <1>1, <2>1
<1>3. Below(B + 1) = D
  OBVIOUS
<1>4. f \in [D -> V] /\ \A x \in D : f[x] = IF x \in ends THEN base[x] ELSE step[<<x, f[next[x]]>>]
  BY <1>2, <1>3
<1>5. Loop(D, ends, base, next, step, f)
  BY <1>4 DEF Loop
<1> QED
  BY <1>4, <1>5

----------------------------------------------------------------------------
(* Scans: over the places in "on", up to the first that is not              *)

Scan(n, on, at) == at = [j \in 1 .. n + 1 |-> IF j \in on THEN at[j + 1] ELSE j]
BackScan(n, on, at) == at = [j \in 0 .. n |-> IF j \in on THEN at[j - 1] ELSE j]

LEMMA ScanHasValues ==
  ASSUME NEW n \in Nat, NEW on \in SUBSET (1 .. n)
  PROVE  \E at : Scan(n, on, at)
<1>1. PICK D : D = 1 .. n + 1
  OBVIOUS
<1>2. PICK rank \in [D -> 0 .. n + 1] : rank = [j \in D |-> n + 1 - j]
  <2>1. [j \in D |-> n + 1 - j] \in [D -> 0 .. n + 1]
    BY <1>1
  <2> QED
    BY <2>1
<1>3. PICK base \in [D -> Nat] : base = [j \in D |-> j]
  <2>1. [j \in D |-> j] \in [D -> Nat]
    BY <1>1
  <2> QED
    BY <2>1
<1>4. PICK next \in [D -> D] : next = [j \in D |-> IF j \in on THEN j + 1 ELSE j]
  <2>1. [j \in D |-> IF j \in on THEN j + 1 ELSE j] \in [D -> D]
    BY <1>1
  <2> QED
    BY <2>1
<1>5. PICK step \in [D \X Nat -> Nat] : step = [y \in D \X Nat |-> y[2]]
  OBVIOUS
<1>6. PICK ends : ends = D \ on
  OBVIOUS
<1>7. \A x \in D : x \notin ends => rank[next[x]] < rank[x]
  BY <1>1, <1>2, <1>4, <1>6
<1>8. PICK f \in [D -> Nat] : Loop(D, ends, base, next, step, f)
  <2>1. n + 1 \in Nat
    OBVIOUS
  <2> QED
    BY <1>7, <2>1, LoopHasValues
<1>9. \A x \in D : f[x] = IF x \in ends THEN base[x] ELSE step[<<x, f[next[x]]>>]
  BY <1>8 DEF Loop
<1>10. ASSUME NEW x \in D PROVE f[x] = IF x \in on THEN f[x + 1] ELSE x
  BY <1>3, <1>4, <1>5, <1>6, <1>9
<1>11. f = [x \in D |-> IF x \in on THEN f[x + 1] ELSE x]
  BY <1>10
<1> QED
  BY <1>1, <1>11 DEF Scan

LEMMA ScanIs ==
  ASSUME NEW n \in Nat, NEW on \in SUBSET (1 .. n), NEW at, Scan(n, on, at), NEW i \in 1 .. n + 1
  PROVE  at[i] \in i .. n + 1 /\ at[i] \notin on /\ \A k \in i .. at[i] - 1 : k \in on
<1>1. PICK D : D = 1 .. n + 1
  OBVIOUS
<1>2. PICK rank \in [D -> Nat] : rank = [j \in D |-> n + 1 - j]
  <2>1. [j \in D |-> n + 1 - j] \in [D -> Nat]
    BY <1>1
  <2> QED
    BY <2>1
<1>3. PICK S : S = {j \in D : at[j] \in j .. n + 1 /\ at[j] \notin on /\ \A k \in j .. at[j] - 1 : k \in on}
  OBVIOUS
<1>4. ASSUME NEW j \in D, \A y \in D : rank[y] < rank[j] => y \in S PROVE j \in S
  <2>1. at[j] = IF j \in on THEN at[j + 1] ELSE j
    BY <1>1 DEF Scan
  <2>2. CASE j \in on
    <3>1. j + 1 \in D /\ rank[j + 1] < rank[j]
      BY <1>1, <1>2, <2>2
    <3>2. j + 1 \in S
      BY <1>4, <3>1
    <3>3. /\ at[j] \in j + 1 .. n + 1 /\ at[j] \notin on
          /\ \A k \in j + 1 .. at[j] - 1 : k \in on
      BY <1>3, <2>1, <2>2, <3>2
    <3> QED
      BY <1>1, <1>3, <2>2, <3>3
  <2>3. CASE j \notin on
    BY <1>1, <1>3, <2>1, <2>3
  <2> QED
    BY <2>2, <2>3
<1>5. D \subseteq S
  BY <1>4, CloserInduction
<1> QED
  BY <1>1, <1>3, <1>5

LEMMA BackScanHasValues ==
  ASSUME NEW n \in Nat, NEW on \in SUBSET (1 .. n)
  PROVE  \E at : BackScan(n, on, at)
<1>1. PICK D : D = 0 .. n
  OBVIOUS
<1>2. PICK rank \in [D -> 0 .. n] : rank = [j \in D |-> j]
  BY <1>1
<1>3. PICK base \in [D -> Nat] : base = [j \in D |-> j]
  <2>1. [j \in D |-> j] \in [D -> Nat]
    BY <1>1
  <2> QED
    BY <2>1
<1>4. PICK next \in [D -> D] : next = [j \in D |-> IF j \in on THEN j - 1 ELSE j]
  <2>1. [j \in D |-> IF j \in on THEN j - 1 ELSE j] \in [D -> D]
    BY <1>1
  <2> QED
    BY <2>1
<1>5. PICK step \in [D \X Nat -> Nat] : step = [y \in D \X Nat |-> y[2]]
  OBVIOUS
<1>6. PICK ends : ends = D \ on
  OBVIOUS
<1>7. \A x \in D : x \notin ends => rank[next[x]] < rank[x]
  BY <1>1, <1>2, <1>4, <1>6
<1>8. PICK f \in [D -> Nat] : Loop(D, ends, base, next, step, f)
  BY <1>7, LoopHasValues
<1>9. \A x \in D : f[x] = IF x \in ends THEN base[x] ELSE step[<<x, f[next[x]]>>]
  BY <1>8 DEF Loop
<1>10. ASSUME NEW x \in D PROVE f[x] = IF x \in on THEN f[x - 1] ELSE x
  BY <1>3, <1>4, <1>5, <1>6, <1>9
<1>11. f = [x \in D |-> IF x \in on THEN f[x - 1] ELSE x]
  BY <1>10
<1> QED
  BY <1>1, <1>11 DEF BackScan

LEMMA BackScanIs ==
  ASSUME NEW n \in Nat, NEW on \in SUBSET (1 .. n), NEW at, BackScan(n, on, at), NEW i \in 0 .. n
  PROVE  at[i] \in 0 .. i /\ at[i] \notin on /\ \A k \in at[i] + 1 .. i : k \in on
<1>1. PICK D : D = 0 .. n
  OBVIOUS
<1>2. PICK rank \in [D -> Nat] : rank = [j \in D |-> j]
  <2>1. [j \in D |-> j] \in [D -> Nat]
    BY <1>1
  <2> QED
    BY <2>1
<1>3. PICK S : S = {j \in D : at[j] \in 0 .. j /\ at[j] \notin on /\ \A k \in at[j] + 1 .. j : k \in on}
  OBVIOUS
<1>4. ASSUME NEW j \in D, \A y \in D : rank[y] < rank[j] => y \in S PROVE j \in S
  <2>1. at[j] = IF j \in on THEN at[j - 1] ELSE j
    BY <1>1 DEF BackScan
  <2>2. CASE j \in on
    <3>1. j - 1 \in D /\ rank[j - 1] < rank[j]
      BY <1>1, <1>2, <2>2
    <3>2. j - 1 \in S
      BY <1>4, <3>1
    <3>3. /\ at[j] \in 0 .. j - 1 /\ at[j] \notin on
          /\ \A k \in at[j] + 1 .. j - 1 : k \in on
      BY <1>3, <2>1, <2>2, <3>2
    <3>4. j \in Nat /\ at[j] \in 0 .. j
      BY <1>1, <3>3
    <3>5. ASSUME NEW k \in at[j] + 1 .. j PROVE k \in on
      <4>1. k \in at[j] + 1 .. j - 1 \/ k = j
        BY <3>4
      <4> QED
        BY <2>2, <3>3, <4>1
    <3> QED
      BY <1>3, <3>3, <3>4, <3>5
  <2>3. CASE j \notin on
    BY <1>1, <1>3, <2>1, <2>3
  <2> QED
    BY <2>2, <2>3
<1>5. D \subseteq S
  BY <1>4, CloserInduction
<1> QED
  BY <1>1, <1>3, <1>5

LEMMA SkipIs ==
  ASSUME NEW S, NEW s \in Seq(S), NEW set, NEW i \in 1 .. Len(s) + 1
  PROVE  /\ Skip(s, i, set) \in i .. Len(s) + 1
         /\ Skip(s, i, set) <= Len(s) => s[Skip(s, i, set)] \notin set
         /\ \A k \in i .. Skip(s, i, set) - 1 : s[k] \in set
<1>1. PICK on \in SUBSET (1 .. Len(s)) : on = {j \in 1 .. Len(s) : s[j] \in set}
  OBVIOUS
<1> DEFINE Skips(at) == at = [j \in 1 .. Len(s) + 1 |-> IF j <= Len(s) /\ s[j] \in set THEN at[j + 1] ELSE j]
<1>2. ASSUME NEW at PROVE Skips(at) <=> Scan(Len(s), on, at)
  <2>1. \A j \in 1 .. Len(s) + 1 : (j <= Len(s) /\ s[j] \in set) <=> j \in on
    BY <1>1
  <2> QED
    BY <2>1 DEF Scan
<1>3. Len(s) \in Nat
  OBVIOUS
<1>4. PICK at : at = CHOOSE f : Skips(f)
  OBVIOUS
<1>5. Skips(at)
  <2>1. \E f : Skips(f)
    BY <1>2, <1>3, ScanHasValues
  <2> QED
    BY <1>4, <2>1
<1>6. Skip(s, i, set) = at[i]
  BY <1>4 DEF Skip
<1>7. at[i] \in i .. Len(s) + 1 /\ at[i] \notin on /\ \A k \in i .. at[i] - 1 : k \in on
  BY <1>2, <1>3, <1>5, ScanIs
<1> QED
  BY <1>1, <1>3, <1>6, <1>7

LEMMA FindIs ==
  ASSUME NEW S, NEW s \in Seq(S), NEW set, NEW i \in 1 .. Len(s) + 1
  PROVE  /\ Find(s, i, set) \in i .. Len(s) + 1
         /\ Find(s, i, set) <= Len(s) => s[Find(s, i, set)] \in set
         /\ \A k \in i .. Find(s, i, set) - 1 : s[k] \notin set
<1>1. PICK on \in SUBSET (1 .. Len(s)) : on = {j \in 1 .. Len(s) : s[j] \notin set}
  OBVIOUS
<1> DEFINE Finds(at) == at = [j \in 1 .. Len(s) + 1 |-> IF j > Len(s) \/ s[j] \in set THEN j ELSE at[j + 1]]
<1>2. ASSUME NEW at PROVE Finds(at) <=> Scan(Len(s), on, at)
  <2>1. \A j \in 1 .. Len(s) + 1 : ~(j > Len(s) \/ s[j] \in set) <=> j \in on
    BY <1>1
  <2> QED
    BY <2>1 DEF Scan
<1>3. Len(s) \in Nat
  OBVIOUS
<1>4. PICK at : at = CHOOSE f : Finds(f)
  OBVIOUS
<1>5. Finds(at)
  <2>1. \E f : Finds(f)
    BY <1>2, <1>3, ScanHasValues
  <2> QED
    BY <1>4, <2>1
<1>6. Find(s, i, set) = at[i]
  BY <1>4 DEF Find
<1>7. at[i] \in i .. Len(s) + 1 /\ at[i] \notin on /\ \A k \in i .. at[i] - 1 : k \in on
  BY <1>2, <1>3, <1>5, ScanIs
<1> QED
  BY <1>1, <1>3, <1>6, <1>7

----------------------------------------------------------------------------
(* Trimming *)

LEMMA TrimIs ==
  ASSUME NEW S, NEW s \in Seq(S)
  PROVE  \E i, j \in 0 .. Len(s) :
           /\ Trim(s) = SubSeq(s, i + 1, j)
           /\ \A k \in DOMAIN s : (k <= i \/ k > j) => s[k] \in Blank
           /\ i < j => s[i + 1] \notin Blank /\ s[j] \notin Blank
<1>1. PICK n \in Nat : n = Len(s)
  OBVIOUS
<1>2. PICK start : start = Skip(s, 1, Blank)
  OBVIOUS
<1>3. /\ start \in Nat /\ 1 <= start /\ start <= n + 1
      /\ start <= n => s[start] \notin Blank
      /\ \A k \in 1 .. start - 1 : s[k] \in Blank
  <2>1. 1 \in 1 .. Len(s) + 1
    BY <1>1
  <2>2. /\ start \in 1 .. n + 1
        /\ start <= n => s[start] \notin Blank
        /\ \A k \in 1 .. start - 1 : s[k] \in Blank
    BY <1>1, <1>2, <2>1, SkipIs
  <2>3. start \in 1 .. n + 1
    BY <2>2
  <2>4. start \in Nat /\ 1 <= start /\ start <= n + 1
    BY <2>3
  <2> QED
    BY <2>2, <2>4
<1>4. PICK on \in SUBSET (1 .. n) : on = {j \in 1 .. n : j >= start /\ s[j] \in Blank}
  OBVIOUS
<1> DEFINE Lasts(at) == at = [i \in 0 .. Len(s) |-> IF i >= start /\ s[i] \in Blank THEN at[i - 1] ELSE i]
<1>5. ASSUME NEW at PROVE Lasts(at) <=> BackScan(n, on, at)
  <2>1. \A j \in 0 .. n : (j >= start /\ s[j] \in Blank) <=> j \in on
    BY <1>3, <1>4
  <2> QED
    BY <1>1, <2>1 DEF BackScan
<1>6. PICK at : at = CHOOSE f : Lasts(f)
  OBVIOUS
<1>7. Lasts(at)
  <2>1. \E f : Lasts(f)
    BY <1>5, BackScanHasValues
  <2> QED
    BY <1>6, <2>1
<1>8. Trim(s) = IF start > n THEN <<>> ELSE SubSeq(s, start, at[n])
  BY <1>1, <1>2, <1>6 DEF Trim
<1>9. at[n] \in 0 .. n /\ at[n] \notin on /\ \A k \in at[n] + 1 .. n : k \in on
  <2>1. n \in 0 .. n
    OBVIOUS
  <2> QED
    BY <1>5, <1>7, <2>1, BackScanIs
<1>10. DOMAIN s = 1 .. n
  BY <1>1
<1>11. CASE start > n
  <2>1. SubSeq(s, n + 1, n) = <<>>
    BY <1>1
  <2>2. Trim(s) = SubSeq(s, n + 1, n)
    BY <1>8, <1>11, <2>1
  <2>3. \A k \in 1 .. n : s[k] \in Blank
    BY <1>3, <1>11
  <2> QED
    BY <1>1, <1>10, <2>2, <2>3
<1>12. CASE start <= n
  <2>1. start \in 1 .. n /\ s[start] \notin Blank /\ start \notin on
    BY <1>3, <1>4, <1>12
  <2>2. at[n] >= start
    <3> SUFFICES ASSUME at[n] < start PROVE FALSE
      BY <1>9, <2>1
    <3>1. start \in at[n] + 1 .. n
      BY <1>9, <2>1
    <3> QED
      BY <1>9, <2>1, <3>1
  <2>3. at[n] \in 1 .. n /\ s[at[n]] \notin Blank
    BY <1>4, <1>9, <2>1, <2>2
  <2>4. PICK i : i = start - 1
    OBVIOUS
  <2>5. i \in 0 .. n /\ i + 1 = start
    BY <2>1, <2>4
  <2>6. \A k \in 1 .. n : (k <= i \/ k > at[n]) => s[k] \in Blank
    <3>1. ASSUME NEW k \in 1 .. n, k <= i PROVE s[k] \in Blank
      BY <1>3, <2>1, <2>4, <3>1
    <3>2. ASSUME NEW k \in 1 .. n, k > at[n] PROVE s[k] \in Blank
      <4>1. k \in at[n] + 1 .. n
        BY <2>3, <3>2
      <4> QED
        BY <1>4, <1>9, <4>1
    <3> QED
      BY <3>1, <3>2
  <2>7. Trim(s) = SubSeq(s, i + 1, at[n])
    <3>1. ~(start > n)
      BY <1>3, <1>12
    <3> QED
      BY <1>8, <2>5, <3>1
  <2> QED
    BY <1>1, <1>9, <1>10, <2>1, <2>3, <2>5, <2>6, <2>7
<1>13. start > n \/ start <= n
  BY <1>3
<1> QED
  BY <1>11, <1>12, <1>13

----------------------------------------------------------------------------
(* Replacing *)

Goes(s, old) == [i \in 1 .. Len(s) + 1 |-> IF i > Len(s) THEN i
                                           ELSE IF StartsAt(s, i, old) THEN i + Len(old) ELSE i + 1]

LEMMA GoesOn ==
  ASSUME NEW S, NEW s \in Seq(S), NEW old \in Seq(S), old # <<>>, NEW D, D = 1 .. Len(s) + 1
  PROVE  /\ Goes(s, old) \in [D -> D]
         /\ \A i \in D : i # Len(s) + 1 => Goes(s, old)[i] > i
<1>1. Len(s) \in Nat /\ Len(old) \in Nat /\ Len(old) > 0
  OBVIOUS
<1>2. ASSUME NEW i \in D
      PROVE  Goes(s, old)[i] \in D /\ (i # Len(s) + 1 => Goes(s, old)[i] > i)
  <2>1. StartsAt(s, i, old) => i + Len(old) <= Len(s) + 1
    BY <1>1 DEF StartsAt
  <2> QED
    BY <1>1, <2>1 DEF Goes
<1> QED
  BY <1>2 DEF Goes

Counts(s, old, n) ==
  n = [i \in 1 .. Len(s) + 1 |->
        IF i > Len(s) THEN 0
        ELSE IF StartsAt(s, i, old) THEN 1 + n[i + Len(old)] ELSE n[i + 1]]
Replaces(s, old, new, rest) ==
  rest = [i \in 1 .. Len(s) + 1 |->
           IF i > Len(s) THEN <<>>
           ELSE IF StartsAt(s, i, old) THEN new \o rest[i + Len(old)] ELSE <<s[i]>> \o rest[i + 1]]

LEMMA CountsHasValues ==
  ASSUME NEW S, NEW s \in Seq(S), NEW old \in Seq(S), old # <<>>
  PROVE  \E n : Counts(s, old, n)
<1>1. PICK D : D = 1 .. Len(s) + 1
  OBVIOUS
<1>2. Len(s) \in Nat /\ Len(s) + 1 \in Nat
  OBVIOUS
<1>3. PICK rank \in [D -> 0 .. Len(s) + 1] : rank = [j \in D |-> Len(s) + 1 - j]
  <2>1. [j \in D |-> Len(s) + 1 - j] \in [D -> 0 .. Len(s) + 1]
    BY <1>1, <1>2
  <2> QED
    BY <2>1
<1>4. PICK base \in [D -> Nat] : base = [j \in D |-> 0]
  OBVIOUS
<1>5. PICK next \in [D -> D] : next = Goes(s, old)
  BY <1>1, GoesOn
<1>6. PICK step \in [D \X Nat -> Nat] :
        step = [y \in D \X Nat |-> IF StartsAt(s, y[1], old) THEN 1 + y[2] ELSE y[2]]
  <2>1. [y \in D \X Nat |-> IF StartsAt(s, y[1], old) THEN 1 + y[2] ELSE y[2]] \in [D \X Nat -> Nat]
    OBVIOUS
  <2> QED
    BY <2>1
<1>7. \A x \in D : x \notin {Len(s) + 1} => rank[next[x]] < rank[x]
  <2>1. ASSUME NEW x \in D, x # Len(s) + 1 PROVE rank[next[x]] < rank[x]
    <3>1. Goes(s, old)[x] > x
      BY <1>1, <2>1, GoesOn
    <3>2. next[x] > x /\ next[x] \in D
      BY <1>5, <3>1
    <3> QED
      BY <1>1, <1>2, <1>3, <3>2
  <2> QED
    BY <2>1
<1>8. PICK f \in [D -> Nat] : Loop(D, {Len(s) + 1}, base, next, step, f)
  BY <1>2, <1>7, LoopHasValues
<1>9. \A x \in D : f[x] = IF x \in {Len(s) + 1} THEN base[x] ELSE step[<<x, f[next[x]]>>]
  BY <1>8 DEF Loop
<1>10. ASSUME NEW x \in D
       PROVE  f[x] = IF x > Len(s) THEN 0
                     ELSE IF StartsAt(s, x, old) THEN 1 + f[x + Len(old)] ELSE f[x + 1]
  <2>1. CASE x = Len(s) + 1
    <3>1. x > Len(s) /\ x \in {Len(s) + 1}
      BY <1>2, <2>1
    <3>2. f[x] = base[x]
      BY <1>9, <3>1
    <3> QED
      BY <1>4, <3>1, <3>2
  <2>2. CASE x # Len(s) + 1
    <3>1. ~(x > Len(s))
      BY <1>1, <1>2, <2>2
    <3>2. f[x] = step[<<x, f[next[x]]>>]
      BY <1>9, <2>2
    <3>3. f[x] = IF StartsAt(s, x, old) THEN 1 + f[next[x]] ELSE f[next[x]]
      BY <1>6, <3>2
    <3>4. next[x] = IF StartsAt(s, x, old) THEN x + Len(old) ELSE x + 1
      BY <1>1, <1>5, <3>1 DEF Goes
    <3> QED
      BY <3>1, <3>3, <3>4
  <2> QED
    BY <2>1, <2>2
<1>11. f = [x \in D |-> IF x > Len(s) THEN 0
                        ELSE IF StartsAt(s, x, old) THEN 1 + f[x + Len(old)] ELSE f[x + 1]]
  BY <1>10
<1> QED
  BY <1>1, <1>11 DEF Counts

LEMMA ReplacesHasValues ==
  ASSUME NEW S, NEW s \in Seq(S), NEW old \in Seq(S), old # <<>>, NEW new \in Seq(S)
  PROVE  \E rest : Replaces(s, old, new, rest)
<1>1. PICK D : D = 1 .. Len(s) + 1
  OBVIOUS
<1>2. Len(s) \in Nat /\ Len(s) + 1 \in Nat
  OBVIOUS
<1>3. PICK rank \in [D -> 0 .. Len(s) + 1] : rank = [j \in D |-> Len(s) + 1 - j]
  <2>1. [j \in D |-> Len(s) + 1 - j] \in [D -> 0 .. Len(s) + 1]
    BY <1>1, <1>2
  <2> QED
    BY <2>1
<1>4. PICK base \in [D -> Seq(S)] : base = [j \in D |-> <<>>]
  <2>1. <<>> \in Seq(S)
    OBVIOUS
  <2>2. [j \in D |-> <<>>] \in [D -> Seq(S)]
    BY <2>1
  <2> QED
    BY <2>2
<1>5. PICK next \in [D -> D] : next = Goes(s, old)
  BY <1>1, GoesOn
<1>6. PICK head : head = [i \in D |-> IF StartsAt(s, i, old) THEN new ELSE IF i > Len(s) THEN <<>> ELSE <<s[i]>>]
  OBVIOUS
<1>7. head \in [D -> Seq(S)]
  <2>1. ASSUME NEW i \in D PROVE head[i] \in Seq(S)
    <3>1. CASE i > Len(s)
      BY <1>6, <3>1
    <3>2. CASE ~(i > Len(s))
      <4>1. s[i] \in S
        BY <1>1, <1>2, <3>2
      <4> QED
        BY <1>6, <3>2, <4>1
    <3> QED
      BY <3>1, <3>2
  <2> QED
    BY <1>6, <2>1
<1>8. PICK step \in [D \X Seq(S) -> Seq(S)] : step = [y \in D \X Seq(S) |-> head[y[1]] \o y[2]]
  <2>1. ASSUME NEW y \in D \X Seq(S) PROVE head[y[1]] \o y[2] \in Seq(S)
    <3>1. head[y[1]] \in Seq(S) /\ y[2] \in Seq(S)
      BY <1>7
    <3> QED
      BY <3>1
  <2> QED
    BY <2>1
<1>9. \A x \in D : x \notin {Len(s) + 1} => rank[next[x]] < rank[x]
  <2>1. ASSUME NEW x \in D, x # Len(s) + 1 PROVE rank[next[x]] < rank[x]
    <3>1. Goes(s, old)[x] > x
      BY <1>1, <2>1, GoesOn
    <3>2. next[x] > x /\ next[x] \in D
      BY <1>5, <3>1
    <3> QED
      BY <1>1, <1>2, <1>3, <3>2
  <2> QED
    BY <2>1
<1>10. PICK f \in [D -> Seq(S)] : Loop(D, {Len(s) + 1}, base, next, step, f)
  BY <1>2, <1>9, LoopHasValues
<1>11. \A x \in D : f[x] = IF x \in {Len(s) + 1} THEN base[x] ELSE step[<<x, f[next[x]]>>]
  BY <1>10 DEF Loop
<1>12. ASSUME NEW x \in D
       PROVE  f[x] = IF x > Len(s) THEN <<>>
                     ELSE IF StartsAt(s, x, old) THEN new \o f[x + Len(old)] ELSE <<s[x]>> \o f[x + 1]
  <2>1. CASE x = Len(s) + 1
    <3>1. x > Len(s) /\ x \in {Len(s) + 1}
      BY <1>2, <2>1
    <3>2. f[x] = base[x]
      BY <1>11, <3>1
    <3> QED
      BY <1>4, <3>1, <3>2
  <2>2. CASE x # Len(s) + 1
    <3>1. ~(x > Len(s))
      BY <1>1, <1>2, <2>2
    <3>2. f[x] = step[<<x, f[next[x]]>>]
      BY <1>11, <2>2
    <3>3. f[x] = head[x] \o f[next[x]]
      BY <1>8, <3>2
    <3>4. next[x] = IF StartsAt(s, x, old) THEN x + Len(old) ELSE x + 1
      BY <1>1, <1>5, <3>1 DEF Goes
    <3>5. head[x] = IF StartsAt(s, x, old) THEN new ELSE <<s[x]>>
      BY <1>6, <3>1
    <3> QED
      BY <3>1, <3>3, <3>4, <3>5
  <2> QED
    BY <2>1, <2>2
<1>13. f = [x \in D |-> IF x > Len(s) THEN <<>>
                        ELSE IF StartsAt(s, x, old) THEN new \o f[x + Len(old)] ELSE <<s[x]>> \o f[x + 1]]
  BY <1>12
<1> QED
  BY <1>1, <1>13 DEF Replaces

\* Each occurrence that is counted is one that is replaced.
LEMMA ReplaceLength ==
  ASSUME NEW S, NEW s \in Seq(S), NEW old \in Seq(S), old # <<>>, NEW new \in Seq(S)
  PROVE  Len(Replace(s, old, new)) + 1 = Allocated(s, old, new)
<1>1. PICK n : n = CHOOSE f : Counts(s, old, f)
  OBVIOUS
<1>2. Counts(s, old, n)
  BY <1>1, CountsHasValues
<1>3. PICK rest : rest = CHOOSE f : Replaces(s, old, new, f)
  OBVIOUS
<1>4. Replaces(s, old, new, rest)
  BY <1>3, ReplacesHasValues
<1>5. Occurrences(s, old) = n[1]
  BY <1>1 DEF Occurrences, Counts
<1>6. Replace(s, old, new) = rest[1]
  BY <1>3 DEF Replace, Replaces
<1>8. PICK D : D = 1 .. Len(s) + 1
  OBVIOUS
<1>9. Len(s) \in Nat /\ Len(old) \in Nat /\ Len(old) > 0 /\ Len(new) \in Nat
  OBVIOUS
<1>7. PICK more \in Int : more = Len(new) - Len(old)
  <2>1. Len(new) - Len(old) \in Int
    BY <1>9
  <2> QED
    BY <2>1
<1>10. PICK rank \in [D -> Nat] : rank = [j \in D |-> Len(s) + 1 - j]
  <2>1. [j \in D |-> Len(s) + 1 - j] \in [D -> Nat]
    BY <1>8, <1>9
  <2> QED
    BY <2>1
<1>11. PICK Good : Good = {i \in D : /\ n[i] \in Nat /\ rest[i] \in Seq(S)
                                     /\ Len(rest[i]) = Len(s) + 1 - i + n[i] * more}
  OBVIOUS
<1>12. ASSUME NEW i \in D, \A j \in D : rank[j] < rank[i] => j \in Good PROVE i \in Good
  <2>1. /\ n[i] = IF i > Len(s) THEN 0
                  ELSE IF StartsAt(s, i, old) THEN 1 + n[i + Len(old)] ELSE n[i + 1]
        /\ rest[i] = IF i > Len(s) THEN <<>>
                     ELSE IF StartsAt(s, i, old) THEN new \o rest[i + Len(old)] ELSE <<s[i]>> \o rest[i + 1]
    BY <1>2, <1>4, <1>8 DEF Counts, Replaces
  <2>2. CASE i > Len(s)
    <3>1. i = Len(s) + 1 /\ n[i] = 0 /\ rest[i] = <<>>
      BY <1>8, <1>9, <2>1, <2>2
    <3>2. n[i] * more = 0 /\ n[i] \in Nat
      BY <3>1
    <3>3. rest[i] \in Seq(S) /\ Len(rest[i]) = 0
      BY <3>1
    <3>4. Len(s) + 1 - i + n[i] * more = 0
      BY <1>9, <3>1, <3>2
    <3> QED
      BY <1>11, <3>2, <3>3, <3>4
  <2>3. CASE ~(i > Len(s)) /\ StartsAt(s, i, old)
    <3>1. i + Len(old) \in D /\ rank[i + Len(old)] < rank[i]
      BY <1>8, <1>9, <1>10, <2>3 DEF StartsAt
    <3>2. PICK j \in D : j = i + Len(old)
      BY <3>1
    <3>3. j \in Good
      BY <1>12, <3>1, <3>2
    <3>4. PICK m \in Nat, r \in Seq(S) : m = n[j] /\ r = rest[j] /\ Len(r) = Len(s) + 1 - j + m * more
      BY <1>11, <3>3
    <3>5. n[i] = 1 + m /\ rest[i] = new \o r
      BY <2>1, <2>3, <3>2, <3>4
    <3>6. (1 + m) * more = more + m * more /\ m * more \in Int
      OBVIOUS
    <3>7. Len(new \o r) = Len(new) + Len(r) /\ new \o r \in Seq(S)
      OBVIOUS
    <3>8. Len(new) + Len(r) = Len(s) + 1 - i + (more + m * more)
      <4>1. PICK p \in Int : p = m * more
        BY <3>6
      <4>2. Len(r) = Len(s) + 1 - (i + Len(old)) + p
        BY <3>2, <3>4, <4>1
      <4>3. Len(new) = more + Len(old) /\ i \in Nat
        BY <1>7, <1>8, <1>9
      <4>4. Len(new) + Len(r) = Len(s) + 1 - i + (more + p)
        BY <1>9, <4>2, <4>3
      <4> QED
        BY <4>1, <4>4
    <3>9. n[i] \in Nat /\ rest[i] \in Seq(S) /\ n[i] * more = more + m * more
      BY <3>5, <3>6, <3>7
    <3>10. Len(rest[i]) = Len(s) + 1 - i + n[i] * more
      BY <3>5, <3>7, <3>8, <3>9
    <3> QED
      BY <1>11, <3>9, <3>10
  <2>4. CASE ~(i > Len(s)) /\ ~StartsAt(s, i, old)
    <3>1. i + 1 \in D /\ rank[i + 1] < rank[i]
      BY <1>8, <1>9, <1>10, <2>4
    <3>2. i + 1 \in Good
      BY <1>12, <3>1
    <3>3. PICK m \in Nat, r \in Seq(S) : m = n[i + 1] /\ r = rest[i + 1] /\ Len(r) = Len(s) + 1 - (i + 1) + m * more
      BY <1>11, <3>2
    <3>4. n[i] = m /\ rest[i] = <<s[i]>> \o r
      BY <2>1, <2>4, <3>3
    <3>5. <<s[i]>> \in Seq(S) /\ Len(<<s[i]>>) = 1
      BY <1>8, <1>9, <2>4
    <3>6. rest[i] \in Seq(S) /\ Len(rest[i]) = 1 + Len(r)
      BY <3>4, <3>5
    <3>7. m * more \in Int
      OBVIOUS
    <3>8. 1 + Len(r) = Len(s) + 1 - i + m * more
      BY <1>8, <1>9, <3>3, <3>7
    <3> QED
      BY <1>11, <3>4, <3>6, <3>8
  <2> QED
    BY <2>2, <2>3, <2>4
<1>13. D \subseteq Good
  BY <1>12, CloserInduction
<1>14. 1 \in Good
  BY <1>8, <1>9, <1>13
<1>15. n[1] \in Nat /\ Len(rest[1]) = Len(s) + 1 - 1 + n[1] * more
  BY <1>11, <1>14
<1>16. n[1] * more \in Int
  BY <1>15
<1> QED
  BY <1>5, <1>6, <1>7, <1>9, <1>15, <1>16 DEF Allocated

----------------------------------------------------------------------------
(* Splitting: the runs of a text from a place on, in order *)

\* Where a piece starts, or the end.
Starts(s, seps, i) ==
  \/ i = Len(s) + 1
  \/ i \in 1 .. Len(s) /\ s[i] \notin seps /\ (i = 1 \/ s[i - 1] \in seps)

RunsFrom(s, seps, i) == {r \in Runs(s, seps) : r[1] >= i}

\* w is the m runs of R from left to right.
Enumerates(w, m, R) ==
  /\ m \in Nat /\ w \in [1 .. m -> R]
  /\ \A r \in R : \E k \in 1 .. m : w[k] = r
  /\ \A a, b \in 1 .. m : a < b => w[a][1] < w[b][1]

LEMMA RunIs ==
  ASSUME NEW S, NEW s \in Seq(S), NEW seps, NEW r
  PROVE  r \in Runs(s, seps) <=>
           \E a, b \in 1 .. Len(s) :
             /\ r = <<a, b>> /\ a <= b /\ \A k \in a .. b : s[k] \notin seps
             /\ a = 1 \/ s[a - 1] \in seps
             /\ b = Len(s) \/ s[b + 1] \in seps
<1>1. DOMAIN s = 1 .. Len(s)
  OBVIOUS
<1>2. ASSUME r \in Runs(s, seps)
      PROVE \E a, b \in 1 .. Len(s) :
             /\ r = <<a, b>> /\ a <= b /\ \A k \in a .. b : s[k] \notin seps
             /\ a = 1 \/ s[a - 1] \in seps
             /\ b = Len(s) \/ s[b + 1] \in seps
  <2>1. r \in (1 .. Len(s)) \X (1 .. Len(s))
    BY <1>1, <1>2 DEF Runs
  <2>2. PICK a \in 1 .. Len(s), b \in 1 .. Len(s) : r = <<a, b>>
    BY <2>1
  <2>3. r[1] = a /\ r[2] = b
    BY <2>2
  <2> QED
    BY <1>2, <2>2, <2>3 DEF Runs
<1>3. ASSUME NEW a \in 1 .. Len(s), NEW b \in 1 .. Len(s), r = <<a, b>>, a <= b,
             \A k \in a .. b : s[k] \notin seps,
             a = 1 \/ s[a - 1] \in seps,
             b = Len(s) \/ s[b + 1] \in seps
      PROVE  r \in Runs(s, seps)
  <2>1. r \in (DOMAIN s) \X (DOMAIN s) /\ r[1] = a /\ r[2] = b
    BY <1>1, <1>3
  <2> QED
    BY <1>3, <2>1 DEF Runs
<1> QED
  BY <1>2, <1>3

\* From a place on, whatever stands there, the loop moves on.
LEMMA Moves ==
  ASSUME NEW S, NEW s \in Seq(S), NEW seps, NEW i \in 1 .. Len(s),
         NEW e, e = Find(s, i, seps), NEW x, x = Skip(s, e, seps)
  PROVE  /\ e \in Nat /\ i <= e /\ e <= Len(s) + 1
         /\ e <= Len(s) => s[e] \in seps
         /\ \A k \in i .. e - 1 : s[k] \notin seps
         /\ x \in Nat /\ e <= x /\ i < x /\ x <= Len(s) + 1
         /\ x <= Len(s) => s[x] \notin seps
         /\ \A k \in e .. x - 1 : s[k] \in seps
<1>1. Len(s) \in Nat /\ i \in 1 .. Len(s) + 1 /\ i <= Len(s)
  OBVIOUS
<1>2. /\ e \in i .. Len(s) + 1
      /\ e <= Len(s) => s[e] \in seps
      /\ \A k \in i .. e - 1 : s[k] \notin seps
  BY <1>1, FindIs
<1>3. e \in i .. Len(s) + 1
  BY <1>2
<1>4. e \in Nat /\ i <= e /\ e <= Len(s) + 1
  BY <1>1, <1>3
<1>5. e \in 1 .. Len(s) + 1
  BY <1>1, <1>4
<1>6. /\ x \in e .. Len(s) + 1
      /\ x <= Len(s) => s[x] \notin seps
      /\ \A k \in e .. x - 1 : s[k] \in seps
  BY <1>5, SkipIs
<1>7. x \in e .. Len(s) + 1
  BY <1>6
<1>8. x \in Nat /\ e <= x /\ x <= Len(s) + 1
  BY <1>1, <1>4, <1>7
<1>9. i < x
  <2> SUFFICES ASSUME i = x PROVE FALSE
    BY <1>1, <1>4, <1>8
  <2>1. e = i /\ x = e /\ e <= Len(s)
    BY <1>1, <1>4, <1>8
  <2> QED
    BY <1>2, <1>6, <2>1
<1> QED
  BY <1>2, <1>4, <1>6, <1>8, <1>9

\* The run a piece is, and where the next one starts.
LEMMA RunHere ==
  ASSUME NEW S, NEW s \in Seq(S), NEW seps, NEW i \in 1 .. Len(s), Starts(s, seps, i),
         NEW e, e = Find(s, i, seps), NEW x, x = Skip(s, e, seps)
  PROVE  /\ Starts(s, seps, x)
         /\ x <= Len(s) => e <= Len(s) /\ e < x
         /\ RunsFrom(s, seps, i) = {<<i, e - 1>>} \union RunsFrom(s, seps, x)
<1>1. /\ e \in Nat /\ i <= e /\ e <= Len(s) + 1
      /\ e <= Len(s) => s[e] \in seps
      /\ \A k \in i .. e - 1 : s[k] \notin seps
      /\ x \in Nat /\ e <= x /\ i < x /\ x <= Len(s) + 1
      /\ x <= Len(s) => s[x] \notin seps
      /\ \A k \in e .. x - 1 : s[k] \in seps
  BY Moves
<1>2. Len(s) \in Nat /\ i \in Nat /\ 1 <= i /\ i <= Len(s)
  OBVIOUS
<1>3. s[i] \notin seps /\ (i = 1 \/ s[i - 1] \in seps)
  BY <1>2 DEF Starts
<1>4. i < e
  <2> SUFFICES ASSUME i = e PROVE FALSE
    BY <1>1, <1>2
  <2> QED
    BY <1>1, <1>2, <1>3
<1>5. x <= Len(s) => e <= Len(s) /\ e < x
  <2> SUFFICES ASSUME x <= Len(s) PROVE e <= Len(s) /\ e < x
    OBVIOUS
  <2>1. e <= Len(s)
    BY <1>1, <1>2
  <2>2. e # x
    BY <1>1, <2>1
  <2> QED
    BY <1>1, <2>1, <2>2
<1>6. Starts(s, seps, x)
  <2>1. CASE x = Len(s) + 1
    BY <2>1 DEF Starts
  <2>2. CASE x <= Len(s)
    <3>1. x - 1 \in e .. x - 1 /\ x \in 1 .. Len(s)
      BY <1>1, <1>2, <1>5, <2>2
    <3> QED
      BY <1>1, <2>2, <3>1 DEF Starts
  <2> QED
    BY <1>1, <1>2, <2>1, <2>2
<1>7. <<i, e - 1>> \in Runs(s, seps)
  <2>1. e - 1 \in 1 .. Len(s) /\ i <= e - 1
    BY <1>1, <1>2, <1>4
  <2>2. e - 1 = Len(s) \/ s[(e - 1) + 1] \in seps
    <3>1. e = Len(s) + 1 \/ e <= Len(s)
      <4>1. e \in Nat /\ e <= Len(s) + 1
        BY <1>1
      <4> QED
        BY <1>2, <4>1
    <3>2. (e - 1) + 1 = e
      BY <1>1
    <3> QED
      BY <1>1, <1>2, <3>1, <3>2
  <2> QED
    BY <1>1, <1>3, <2>1, <2>2, RunIs
<1>8. ASSUME NEW r \in RunsFrom(s, seps, i) PROVE r = <<i, e - 1>> \/ r \in RunsFrom(s, seps, x)
  <2>1. PICK a, b \in 1 .. Len(s) :
          /\ r = <<a, b>> /\ a <= b /\ \A k \in a .. b : s[k] \notin seps
          /\ a = 1 \/ s[a - 1] \in seps
          /\ b = Len(s) \/ s[b + 1] \in seps
    BY RunIs DEF RunsFrom
  <2>2. r[1] = a /\ a >= i
    BY <2>1 DEF RunsFrom
  <2>3. a \in Nat /\ 1 <= a /\ b \in Nat /\ b <= Len(s) /\ a <= b
    BY <1>2, <2>1
  <2>4. CASE a = i
    <3>1. b < e
      <4> SUFFICES ASSUME e <= b PROVE FALSE
        BY <1>1, <2>3
      <4>1. e \in a .. b /\ e <= Len(s)
        BY <1>1, <1>2, <2>3, <2>4
      <4> QED
        BY <1>1, <2>1, <4>1
    <3>2. b = e - 1
      <4> SUFFICES ASSUME b < e - 1 PROVE FALSE
        BY <1>1, <2>3, <3>1
      <4>1. b + 1 \in i .. e - 1 /\ b # Len(s)
        BY <1>1, <1>2, <2>3, <2>4
      <4> QED
        BY <1>1, <2>1, <4>1
    <3> QED
      BY <2>1, <2>4, <3>2
  <2>5. CASE a > i /\ a < e
    <3>1. a - 1 \in i .. e - 1 /\ a # 1
      BY <1>1, <1>2, <2>3, <2>5
    <3> QED
      BY <1>1, <2>1, <3>1
  <2>6. CASE a >= e /\ a < x
    <3>1. a \in e .. x - 1 /\ a \in a .. b
      BY <1>1, <2>3, <2>6
    <3> QED
      BY <1>1, <2>1, <3>1
  <2>7. CASE a >= x
    BY <2>2, <2>7 DEF RunsFrom
  <2> QED
    BY <1>1, <1>2, <2>2, <2>3, <2>4, <2>5, <2>6, <2>7
<1>9. ASSUME NEW r \in RunsFrom(s, seps, x) PROVE r \in RunsFrom(s, seps, i)
  <2>1. r \in Runs(s, seps) /\ r[1] >= x
    BY DEF RunsFrom
  <2>2. PICK a, b \in 1 .. Len(s) : r = <<a, b>>
    BY <2>1, RunIs
  <2>3. r[1] \in Nat
    BY <1>2, <2>2
  <2>4. r[1] >= i
    BY <1>1, <1>2, <2>1, <2>3
  <2> QED
    BY <2>1, <2>4 DEF RunsFrom
<1>10. <<i, e - 1>> \in RunsFrom(s, seps, i)
  <2>1. <<i, e - 1>>[1] >= i
    BY <1>2
  <2> QED
    BY <1>7, <2>1 DEF RunsFrom
<1>11. RunsFrom(s, seps, i) = {<<i, e - 1>>} \union RunsFrom(s, seps, x)
  BY <1>8, <1>9, <1>10
<1> QED
  BY <1>5, <1>6, <1>11

\* The run here and the m runs after it.
Longer(i, e, w, m) == [k \in 1 .. m + 1 |-> IF k = 1 THEN <<i, e - 1>> ELSE w[k - 1]]

LEMMA RunsLonger ==
  ASSUME NEW S, NEW s \in Seq(S), NEW seps, NEW i \in 1 .. Len(s), Starts(s, seps, i),
         NEW e, e = Find(s, i, seps), NEW x, x = Skip(s, e, seps),
         NEW w, NEW m, Enumerates(w, m, RunsFrom(s, seps, x))
  PROVE  Enumerates(Longer(i, e, w, m), m + 1, RunsFrom(s, seps, i))
<1>1. RunsFrom(s, seps, i) = {<<i, e - 1>>} \union RunsFrom(s, seps, x)
  BY RunHere
<1>2. PICK R, T : R = RunsFrom(s, seps, x) /\ T = RunsFrom(s, seps, i)
  OBVIOUS
<1>3. /\ m \in Nat /\ w \in [1 .. m -> R]
      /\ \A r \in R : \E k \in 1 .. m : w[k] = r
      /\ \A a, b \in 1 .. m : a < b => w[a][1] < w[b][1]
  BY <1>2 DEF Enumerates
<1>4. PICK v : v = Longer(i, e, w, m)
  OBVIOUS
<1>5. v = [k \in 1 .. m + 1 |-> IF k = 1 THEN <<i, e - 1>> ELSE w[k - 1]]
  BY <1>4 DEF Longer
<1>6. \A k \in 2 .. m + 1 : k - 1 \in 1 .. m /\ v[k] = w[k - 1]
  BY <1>3, <1>5
<1>7. v[1] = <<i, e - 1>> /\ 1 \in 1 .. m + 1
  BY <1>3, <1>5
<1>8. \A k \in 1 .. m + 1 : k = 1 \/ k \in 2 .. m + 1
  BY <1>3
<1>9. v \in [1 .. m + 1 -> T]
  <2>1. ASSUME NEW k \in 1 .. m + 1 PROVE v[k] \in T
    BY <1>1, <1>2, <1>3, <1>6, <1>7, <1>8
  <2> QED
    BY <1>5, <2>1
<1>10. ASSUME NEW r \in T PROVE \E k \in 1 .. m + 1 : v[k] = r
  <2>1. CASE r = <<i, e - 1>>
    BY <1>7, <2>1
  <2>2. CASE r \in R
    <3>1. PICK k \in 1 .. m : w[k] = r
      BY <1>3, <2>2
    <3>2. k + 1 \in 2 .. m + 1 /\ (k + 1) - 1 = k /\ k + 1 \in 1 .. m + 1
      BY <1>3
    <3>3. v[k + 1] = r
      BY <1>6, <3>1, <3>2
    <3> QED
      BY <3>2, <3>3
  <2> QED
    BY <1>1, <1>2, <2>1, <2>2
<1>11. \A r \in R : r[1] \in Nat /\ r[1] > i
  <2> SUFFICES ASSUME NEW r \in R PROVE r[1] \in Nat /\ r[1] > i
    OBVIOUS
  <2>1. r \in Runs(s, seps) /\ r[1] >= x
    BY <1>2 DEF RunsFrom
  <2>2. PICK a, b \in 1 .. Len(s) : r = <<a, b>>
    BY <2>1, RunIs
  <2>3. i < x /\ x \in Nat
    BY Moves
  <2>4. r[1] \in Nat /\ i \in Nat
    BY <2>2
  <2> QED
    BY <2>1, <2>3, <2>4
<1>12. ASSUME NEW a \in 1 .. m + 1, NEW b \in 1 .. m + 1, a < b PROVE v[a][1] < v[b][1]
  <2>1. b \in 2 .. m + 1
    BY <1>3, <1>12
  <2>2. CASE a = 1
    <3>1. v[b] = w[b - 1] /\ w[b - 1] \in R
      BY <1>3, <1>6, <2>1
    <3>2. v[a][1] = i
      BY <1>7, <2>2
    <3>3. i \in Nat /\ v[b][1] \in Nat /\ v[b][1] > i
      BY <1>11, <3>1
    <3> QED
      BY <3>2, <3>3
  <2>3. CASE a \in 2 .. m + 1
    <3>1. a - 1 \in 1 .. m /\ b - 1 \in 1 .. m /\ a - 1 < b - 1
      BY <1>3, <1>12, <2>1, <2>3
    <3> QED
      BY <1>3, <1>6, <2>1, <2>3, <3>1
  <2> QED
    BY <1>8, <2>2, <2>3
<1>13. m + 1 \in Nat
  BY <1>3
<1> QED
  BY <1>2, <1>4, <1>9, <1>10, <1>12, <1>13 DEF Enumerates

LEMMA NoRuns ==
  ASSUME NEW S, NEW s \in Seq(S), NEW seps, NEW w, w = [k \in {} |-> k]
  PROVE  Enumerates(w, 0, RunsFrom(s, seps, Len(s) + 1))
<1>1. RunsFrom(s, seps, Len(s) + 1) = {}
  <2> SUFFICES ASSUME NEW r \in RunsFrom(s, seps, Len(s) + 1) PROVE FALSE
    OBVIOUS
  <2>1. r \in Runs(s, seps) /\ r[1] >= Len(s) + 1
    BY DEF RunsFrom
  <2>2. PICK a, b \in 1 .. Len(s) : r = <<a, b>>
    BY <2>1, RunIs
  <2>3. r[1] = a /\ Len(s) \in Nat
    BY <2>2
  <2> QED
    BY <2>1, <2>3
<1>2. 1 .. 0 = {}
  OBVIOUS
<1> QED
  BY <1>1, <1>2 DEF Enumerates

LEMMA RunsInOrder ==
  ASSUME NEW S, NEW s \in Seq(S), NEW seps, NEW i \in 1 .. Len(s) + 1, Starts(s, seps, i)
  PROVE  \E w, m : Enumerates(w, m, RunsFrom(s, seps, i))
<1>1. PICK D : D = 1 .. Len(s) + 1
  OBVIOUS
<1>2. Len(s) \in Nat
  OBVIOUS
<1>3. PICK rank \in [D -> Nat] : rank = [j \in D |-> Len(s) + 1 - j]
  <2>1. [j \in D |-> Len(s) + 1 - j] \in [D -> Nat]
    BY <1>1, <1>2
  <2> QED
    BY <2>1
<1>4. PICK Good : Good = {j \in D : Starts(s, seps, j) => \E w, m : Enumerates(w, m, RunsFrom(s, seps, j))}
  OBVIOUS
<1>5. ASSUME NEW j \in D, \A y \in D : rank[y] < rank[j] => y \in Good PROVE j \in Good
  <2>1. SUFFICES ASSUME Starts(s, seps, j) PROVE \E w, m : Enumerates(w, m, RunsFrom(s, seps, j))
    BY <1>4
  <2>2. CASE j = Len(s) + 1
    <3>1. PICK w : w = [k \in {} |-> k]
      OBVIOUS
    <3> QED
      BY <2>2, <3>1, NoRuns
  <2>3. CASE j # Len(s) + 1
    <3>1. j \in 1 .. Len(s)
      BY <1>1, <1>2, <2>3
    <3>2. PICK e : e = Find(s, j, seps)
      OBVIOUS
    <3>3. PICK x : x = Skip(s, e, seps)
      OBVIOUS
    <3>4. x \in Nat /\ j < x /\ x <= Len(s) + 1
      BY <3>1, <3>2, <3>3, Moves
    <3>5. x \in D /\ rank[x] < rank[j]
      BY <1>1, <1>2, <1>3, <3>1, <3>4
    <3>6. Starts(s, seps, x)
      BY <2>1, <3>1, <3>2, <3>3, RunHere
    <3>7. PICK w, m : Enumerates(w, m, RunsFrom(s, seps, x))
      BY <1>4, <1>5, <3>5, <3>6
    <3>8. Enumerates(Longer(j, e, w, m), m + 1, RunsFrom(s, seps, j))
      BY <2>1, <3>1, <3>2, <3>3, <3>7, RunsLonger
    <3> QED
      BY <3>8
  <2> QED
    BY <2>2, <2>3
<1>6. D \subseteq Good
  BY <1>5, CloserInduction
<1> QED
  BY <1>1, <1>4, <1>6

----------------------------------------------------------------------------
(* Splitting: the pieces *)

PiecesFrom(s, seps, max, remainder, f) ==
  f = [at \in (1 .. Len(s) + 1) \X (0 .. max) |->
        LET i == at[1]
            n == at[2]
            end  == Find(s, i, seps)
            this == IF n + 1 < max \/ ~remainder THEN SubSeq(s, i, end - 1) ELSE From(s, i)
        IN IF i > Len(s) \/ n = max THEN <<>>
           ELSE <<this>> \o f[<<Skip(s, end, seps), n + 1>>]]

\* The pieces p are the first of the m runs w; n pieces came before, and the
\* one that is number "rest" is all that is left.
PiecesOf(s, limit, rest, n, w, m, p) ==
  /\ Len(p) = IF limit < 0 \/ m < limit - n THEN m ELSE limit - n
  /\ \A k \in 1 .. Len(p) :
       p[k] = SubSeq(s, w[k][1], IF k + n = rest THEN Len(s) ELSE w[k][2])

Separators(s, seps) == {j \in 1 .. Len(s) : s[j] \in seps}
Passed(s, seps, i) == {j \in 1 .. Len(s) : s[j] \in seps /\ j < i}

LEMMA SeparatorsFinite ==
  ASSUME NEW S, NEW s \in Seq(S), NEW seps, NEW i
  PROVE  /\ IsFiniteSet(Separators(s, seps)) /\ IsFiniteSet(Passed(s, seps, i))
         /\ Cardinality(Separators(s, seps)) \in Nat /\ Cardinality(Passed(s, seps, i)) \in Nat
         /\ Cardinality(Passed(s, seps, i)) <= Cardinality(Separators(s, seps))
         /\ Cardinality(Passed(s, seps, i)) = Cardinality(Separators(s, seps)) =>
              Passed(s, seps, i) = Separators(s, seps)
<1>1. IsFiniteSet(1 .. Len(s))
  <2>1. 1 \in Int /\ Len(s) \in Int
    OBVIOUS
  <2> QED
    BY <2>1, FS_Interval
<1>2. Separators(s, seps) \in SUBSET (1 .. Len(s)) /\ Passed(s, seps, i) \in SUBSET Separators(s, seps)
  BY DEF Separators, Passed
<1>3. IsFiniteSet(Separators(s, seps))
  BY <1>1, <1>2, FS_Subset
<1>4. /\ IsFiniteSet(Passed(s, seps, i))
      /\ Cardinality(Passed(s, seps, i)) <= Cardinality(Separators(s, seps))
      /\ Cardinality(Separators(s, seps)) = Cardinality(Passed(s, seps, i)) =>
           Separators(s, seps) = Passed(s, seps, i)
  BY <1>2, <1>3, FS_Subset
<1>5. Cardinality(Separators(s, seps)) \in Nat /\ Cardinality(Passed(s, seps, i)) \in Nat
  BY <1>3, <1>4, FS_CardinalityType
<1> QED
  BY <1>3, <1>4, <1>5

LEMMA OnePassedMore ==
  ASSUME NEW S, NEW s \in Seq(S), NEW seps, NEW i \in Int, NEW x \in Int, NEW e \in 1 .. Len(s),
         i <= e, e < x, s[e] \in seps
  PROVE  Cardinality(Passed(s, seps, x)) >= Cardinality(Passed(s, seps, i)) + 1
<1>1. PICK A, B : A = Passed(s, seps, i) /\ B = Passed(s, seps, x)
  OBVIOUS
<1>2. IsFiniteSet(A) /\ IsFiniteSet(B) /\ Cardinality(A) \in Nat /\ Cardinality(B) \in Nat
  BY <1>1, SeparatorsFinite
<1>3. e \notin A /\ A \union {e} \in SUBSET B
  BY <1>1 DEF Passed
<1>4. Cardinality(A \union {e}) = Cardinality(A) + 1
  BY <1>2, <1>3, FS_AddElement
<1>5. Cardinality(A \union {e}) <= Cardinality(B)
  BY <1>2, <1>3, FS_Subset
<1> QED
  BY <1>1, <1>2, <1>4, <1>5

LEMMA MaxPiecesIs ==
  ASSUME NEW S, NEW s \in Seq(S), NEW seps, NEW limit \in Int, NEW max, max = MaxPieces(s, seps, limit)
  PROVE  /\ max \in Nat
         /\ limit >= 0 => max = limit
         /\ limit < 0 => max = Cardinality(Separators(s, seps)) + 1
<1>1. DOMAIN s = 1 .. Len(s)
  OBVIOUS
<1>2. MaxPieces(s, seps, limit) = IF limit < 0 THEN Cardinality(Separators(s, seps)) + 1 ELSE limit
  BY <1>1 DEF MaxPieces, Separators
<1>3. Cardinality(Separators(s, seps)) \in Nat
  BY SeparatorsFinite
<1> QED
  BY <1>2, <1>3

LEMMA PiecesHaveValues ==
  ASSUME NEW S, NEW s \in Seq(S), NEW seps, NEW max \in Nat, NEW remainder
  PROVE  \E f : PiecesFrom(s, seps, max, remainder, f)
<1>1. PICK D : D = (1 .. Len(s) + 1) \X (0 .. max)
  OBVIOUS
<1>2. Len(s) \in Nat /\ Len(s) + 1 \in Nat
  OBVIOUS
<1>3. PICK rank \in [D -> 0 .. Len(s) + 1] : rank = [y \in D |-> Len(s) + 1 - y[1]]
  <2>1. ASSUME NEW y \in D PROVE Len(s) + 1 - y[1] \in 0 .. Len(s) + 1
    <3>1. y[1] \in 1 .. Len(s) + 1
      BY <1>1
    <3> QED
      BY <1>2, <3>1
  <2>2. [y \in D |-> Len(s) + 1 - y[1]] \in [D -> 0 .. Len(s) + 1]
    BY <2>1
  <2> QED
    BY <2>2
<1>4. PICK V : V = Seq(Seq(S))
  OBVIOUS
<1>5. PICK base \in [D -> V] : base = [y \in D |-> <<>>]
  <2>1. <<>> \in V
    BY <1>4
  <2>2. [y \in D |-> <<>>] \in [D -> V]
    BY <2>1
  <2> QED
    BY <2>2
<1>6. PICK ends : ends = {y \in D : y[1] > Len(s) \/ y[2] = max}
  OBVIOUS
<1>7. PICK next : next = [y \in D |-> IF y \in ends THEN y
                                      ELSE <<Skip(s, Find(s, y[1], seps), seps), y[2] + 1>>]
  OBVIOUS
<1>8. ASSUME NEW y \in D PROVE next[y] \in D /\ (y \notin ends => rank[next[y]] < rank[y])
  <2>1. CASE y \in ends
    BY <1>7, <2>1
  <2>2. CASE y \notin ends
    <3>1. y[1] \in 1 .. Len(s) + 1 /\ y[2] \in 0 .. max /\ ~(y[1] > Len(s)) /\ y[2] # max
      BY <1>1, <1>6, <2>2
    <3>2. PICK i \in 1 .. Len(s) : i = y[1]
      BY <1>2, <3>1
    <3>3. PICK n \in 0 .. max - 1 : n = y[2]
      BY <3>1
    <3>4. PICK e : e = Find(s, i, seps)
      OBVIOUS
    <3>5. PICK x : x = Skip(s, e, seps)
      OBVIOUS
    <3>6. x \in Nat /\ i < x /\ x <= Len(s) + 1
      BY <3>4, <3>5, Moves
    <3>7. next[y] = <<x, n + 1>>
      BY <1>7, <2>2, <3>2, <3>3, <3>4, <3>5
    <3>8. x \in 1 .. Len(s) + 1 /\ n + 1 \in 0 .. max
      BY <1>2, <3>6
    <3>9. next[y] \in D
      BY <1>1, <3>7, <3>8
    <3>10. rank[next[y]] = Len(s) + 1 - x /\ rank[y] = Len(s) + 1 - i
      BY <1>3, <3>2, <3>7, <3>9
    <3> QED
      BY <1>2, <3>6, <3>9, <3>10
  <2> QED
    BY <2>1, <2>2
<1>9. next \in [D -> D]
  BY <1>7, <1>8
<1>10. PICK head : head = [y \in D |-> IF y[2] + 1 < max \/ ~remainder THEN SubSeq(s, y[1], Find(s, y[1], seps) - 1)
                                       ELSE From(s, y[1])]
  OBVIOUS
<1>11. ASSUME NEW y \in D PROVE head[y] \in Seq(S)
  <2>1. PICK i \in 1 .. Len(s) + 1 : i = y[1]
    BY <1>1
  <2>2. PICK e : e = Find(s, i, seps)
    OBVIOUS
  <2>3. e \in i .. Len(s) + 1
    BY <2>2, FindIs
  <2>4. e - 1 \in Int /\ e - 1 <= Len(s) /\ i \in Nat /\ 1 <= i
    BY <1>2, <2>1, <2>3
  <2>5. \A k \in i .. e - 1 : s[k] \in S
    <3>1. \A k \in i .. e - 1 : k \in 1 .. Len(s)
      BY <1>2, <2>4
    <3> QED
      BY <3>1
  <2>6. \A k \in i .. Len(s) : s[k] \in S
    <3>1. \A k \in i .. Len(s) : k \in 1 .. Len(s)
      BY <1>2, <2>4
    <3> QED
      BY <3>1
  <2>7. SubSeq(s, i, e - 1) \in Seq(S)
    BY <2>4, <2>5, SubSeqProperties
  <2>8. SubSeq(s, i, Len(s)) \in Seq(S)
    BY <1>2, <2>4, <2>6, SubSeqProperties
  <2> QED
    BY <1>10, <2>1, <2>2, <2>7, <2>8 DEF From
<1>12. PICK step \in [D \X V -> V] : step = [z \in D \X V |-> <<head[z[1]]>> \o z[2]]
  <2>1. ASSUME NEW z \in D \X V PROVE <<head[z[1]]>> \o z[2] \in V
    <3>1. PICK h \in Seq(S) : h = head[z[1]]
      BY <1>11
    <3>2. PICK r \in Seq(Seq(S)) : r = z[2]
      BY <1>4
    <3>3. <<h>> \in Seq(Seq(S))
      OBVIOUS
    <3>4. <<h>> \o r \in Seq(Seq(S))
      BY <3>3
    <3> QED
      BY <1>4, <3>1, <3>2, <3>4
  <2>2. [z \in D \X V |-> <<head[z[1]]>> \o z[2]] \in [D \X V -> V]
    BY <2>1
  <2> QED
    BY <2>2
<1>13. PICK f \in [D -> V] : Loop(D, ends, base, next, step, f)
  <2>1. \A y \in D : y \notin ends => rank[next[y]] < rank[y]
    BY <1>8
  <2> QED
    BY <1>2, <1>9, <2>1, LoopHasValues
<1>14. \A y \in D : f[y] = IF y \in ends THEN base[y] ELSE step[<<y, f[next[y]]>>]
  BY <1>13 DEF Loop
<1>15. ASSUME NEW y \in D
       PROVE  f[y] = IF y[1] > Len(s) \/ y[2] = max THEN <<>>
                     ELSE <<IF y[2] + 1 < max \/ ~remainder THEN SubSeq(s, y[1], Find(s, y[1], seps) - 1)
                            ELSE From(s, y[1])>> \o f[<<Skip(s, Find(s, y[1], seps), seps), y[2] + 1>>]
  <2>1. CASE y \in ends
    <3>1. f[y] = base[y]
      BY <1>14, <2>1
    <3> QED
      BY <1>5, <1>6, <2>1, <3>1
  <2>2. CASE y \notin ends
    <3>1. ~(y[1] > Len(s) \/ y[2] = max)
      BY <1>6, <2>2
    <3>2. f[y] = step[<<y, f[next[y]]>>]
      BY <1>14, <2>2
    <3>3. <<y, f[next[y]]>> \in D \X V
      BY <1>8
    <3>4. f[y] = <<head[y]>> \o f[next[y]]
      BY <1>12, <3>2, <3>3
    <3>5. next[y] = <<Skip(s, Find(s, y[1], seps), seps), y[2] + 1>>
      BY <1>7, <2>2
    <3>6. head[y] = IF y[2] + 1 < max \/ ~remainder THEN SubSeq(s, y[1], Find(s, y[1], seps) - 1)
                    ELSE From(s, y[1])
      BY <1>10
    <3> QED
      BY <3>1, <3>4, <3>5, <3>6
  <2> QED
    BY <2>1, <2>2
<1>16. f = [y \in D |-> IF y[1] > Len(s) \/ y[2] = max THEN <<>>
                        ELSE <<IF y[2] + 1 < max \/ ~remainder THEN SubSeq(s, y[1], Find(s, y[1], seps) - 1)
                               ELSE From(s, y[1])>> \o f[<<Skip(s, Find(s, y[1], seps), seps), y[2] + 1>>]]
  BY <1>15
<1> QED
  BY <1>1, <1>16 DEF PiecesFrom

\* The piece here and the pieces p from x on.
LEMMA PiecesLonger ==
  ASSUME NEW S, NEW s \in Seq(S), NEW limit \in Int, NEW rest \in Int, NEW n \in Nat,
         limit >= 0 => n < limit, NEW i \in Nat, NEW e \in Nat,
         NEW w, NEW m \in Nat, NEW p \in Seq(Seq(S)), PiecesOf(s, limit, rest, n + 1, w, m, p),
         NEW h, h \in Seq(S), h = SubSeq(s, i, IF 1 + n = rest THEN Len(s) ELSE e - 1)
  PROVE  <<h>> \o p \in Seq(Seq(S)) /\ PiecesOf(s, limit, rest, n, Longer(i, e, w, m), m + 1, <<h>> \o p)
<1>1. PICK q : q = <<h>> \o p
  OBVIOUS
<1>2. PICK v : v = Longer(i, e, w, m)
  OBVIOUS
<1>3. /\ <<h>> \in Seq(Seq(S)) /\ q \in Seq(Seq(S)) /\ Len(q) = 1 + Len(p) /\ q[1] = h
      /\ \A k \in 2 .. Len(q) : q[k] = p[k - 1]
  <2>1. <<h>> \in Seq(Seq(S)) /\ Len(<<h>>) = 1 /\ <<h>>[1] = h
    OBVIOUS
  <2>2. q \in Seq(Seq(S)) /\ Len(q) = 1 + Len(p)
    BY <1>1, <2>1
  <2>3. Len(p) \in Nat /\ \A k \in 1 .. Len(q) : q[k] = IF k <= 1 THEN <<h>>[k] ELSE p[k - 1]
    BY <1>1, <2>1, <2>2
  <2>4. 1 \in 1 .. Len(q) /\ Len(q) \in Nat
    BY <2>2, <2>3
  <2>5. q[1] = h
    BY <2>1, <2>3, <2>4
  <2>6. ASSUME NEW k \in 2 .. Len(q) PROVE q[k] = p[k - 1]
    <3>1. k \in 1 .. Len(q) /\ ~(k <= 1)
      BY <2>4
    <3> QED
      BY ONLY <2>3, <3>1
  <2> QED
    BY <2>1, <2>2, <2>5, <2>6
<1>4. /\ Len(p) = IF limit < 0 \/ m < limit - (n + 1) THEN m ELSE limit - (n + 1)
      /\ \A k \in 1 .. Len(p) :
           p[k] = SubSeq(s, w[k][1], IF k + (n + 1) = rest THEN Len(s) ELSE w[k][2])
  BY DEF PiecesOf
<1>5. Len(p) \in Nat /\ Len(p) <= m
  BY <1>4
<1>6. Len(q) = IF limit < 0 \/ m + 1 < limit - n THEN m + 1 ELSE limit - n
  BY <1>3, <1>4, <1>5
<1>7. /\ v[1] = <<i, e - 1>>
      /\ \A k \in 2 .. Len(q) : v[k] = w[k - 1]
  BY <1>2, <1>3, <1>5 DEF Longer
<1>8. ASSUME NEW k \in 1 .. Len(q)
      PROVE  q[k] = SubSeq(s, v[k][1], IF k + n = rest THEN Len(s) ELSE v[k][2])
  <2>1. CASE k = 1
    <3>1. v[1][1] = i /\ v[1][2] = e - 1
      BY <1>7
    <3>2. q[1] = SubSeq(s, v[1][1], IF 1 + n = rest THEN Len(s) ELSE v[1][2])
      BY <1>3, <3>1
    <3> QED
      BY <2>1, <3>2
  <2>2. CASE k # 1
    <3>1. k \in 2 .. Len(q) /\ k - 1 \in 1 .. Len(p) /\ (k - 1) + (n + 1) = k + n
      BY <1>3, <1>5, <2>2
    <3>2. q[k] = p[k - 1] /\ v[k] = w[k - 1]
      BY <1>3, <1>7, <3>1
    <3>3. p[k - 1] = SubSeq(s, w[k - 1][1], IF (k - 1) + (n + 1) = rest THEN Len(s) ELSE w[k - 1][2])
      BY <1>4, <3>1
    <3> QED
      BY <3>1, <3>2, <3>3
  <2> QED
    BY <2>1, <2>2
<1> QED
  BY <1>1, <1>2, <1>3, <1>6, <1>8 DEF PiecesOf

LEMMA PieceAt ==
  ASSUME NEW s, NEW seps, NEW max, NEW remainder, NEW f, PiecesFrom(s, seps, max, remainder, f),
         NEW i \in 1 .. Len(s) + 1, NEW n \in 0 .. max
  PROVE  f[<<i, n>>] =
           IF i > Len(s) \/ n = max THEN <<>>
           ELSE <<IF n + 1 < max \/ ~remainder THEN SubSeq(s, i, Find(s, i, seps) - 1) ELSE From(s, i)>>
                  \o f[<<Skip(s, Find(s, i, seps), seps), n + 1>>]
BY DEF PiecesFrom

\* The pieces from every place a piece can start at, after any number of them;
\* without a limit there are fewer than there is room for.
LEMMA PiecesAre ==
  ASSUME NEW S, NEW s \in Seq(S), NEW seps, NEW limit \in Int, NEW remainder \in BOOLEAN,
         NEW rest, rest = (IF remainder THEN limit ELSE 0),
         NEW max, max = MaxPieces(s, seps, limit), NEW f, PiecesFrom(s, seps, max, remainder, f),
         NEW i0 \in 1 .. Len(s) + 1, NEW n0 \in 0 .. max, Starts(s, seps, i0),
         (limit < 0 /\ i0 <= Len(s)) => n0 <= Cardinality(Passed(s, seps, i0))
  PROVE  \E w, m : /\ Enumerates(w, m, RunsFrom(s, seps, i0)) /\ f[<<i0, n0>>] \in Seq(Seq(S))
                   /\ PiecesOf(s, limit, rest, n0, w, m, f[<<i0, n0>>])
<1>1. PICK D : D = (1 .. Len(s) + 1) \X (0 .. max)
  OBVIOUS
<1>2. Len(s) \in Nat
  OBVIOUS
<1>3. PICK rank \in [D -> Nat] : rank = [y \in D |-> Len(s) + 1 - y[1]]
  <2>1. ASSUME NEW y \in D PROVE Len(s) + 1 - y[1] \in Nat
    <3>1. y[1] \in 1 .. Len(s) + 1
      BY <1>1
    <3> QED
      BY <1>2, <3>1
  <2>2. [y \in D |-> Len(s) + 1 - y[1]] \in [D -> Nat]
    BY <2>1
  <2> QED
    BY <2>2
<1> DEFINE Ok(i, n) == Starts(s, seps, i) /\ ((limit < 0 /\ i <= Len(s)) => n <= Cardinality(Passed(s, seps, i)))
           Made(i, n) == \E w, m : /\ Enumerates(w, m, RunsFrom(s, seps, i)) /\ f[<<i, n>>] \in Seq(Seq(S))
                                   /\ PiecesOf(s, limit, rest, n, w, m, f[<<i, n>>])
<1>4. PICK Good : Good = {y \in D : Ok(y[1], y[2]) => Made(y[1], y[2])}
  OBVIOUS
<1>5. /\ max \in Nat
      /\ limit >= 0 => max = limit
      /\ limit < 0 => max = Cardinality(Separators(s, seps)) + 1
  BY MaxPiecesIs
<1>6. ASSUME NEW y \in D, \A z \in D : rank[z] < rank[y] => z \in Good PROVE y \in Good
  <2>1. PICK i \in 1 .. Len(s) + 1, n \in 0 .. max : y = <<i, n>>
    BY <1>1
  <2>2. SUFFICES ASSUME Ok(i, n) PROVE Made(i, n)
    BY <1>4, <2>1
  <2>3. i \in Nat /\ 1 <= i /\ i <= Len(s) + 1 /\ n \in Nat /\ n <= max
    BY <1>2, <1>5
  <2>4. f[<<i, n>>] =
          IF i > Len(s) \/ n = max THEN <<>>
          ELSE <<IF n + 1 < max \/ ~remainder THEN SubSeq(s, i, Find(s, i, seps) - 1) ELSE From(s, i)>>
                 \o f[<<Skip(s, Find(s, i, seps), seps), n + 1>>]
    BY PieceAt
  <2>5. CASE i > Len(s)
    <3>1. i = Len(s) + 1 /\ f[<<i, n>>] = <<>>
      <4>1. i = Len(s) + 1
        BY <1>2, <2>3, <2>5
      <4>2. i > Len(s) \/ n = max
        BY <2>5
      <4>3. f[<<i, n>>] = <<>>
        BY ONLY <2>4, <4>2
      <4> QED
        BY <4>1, <4>3
    <3>2. PICK w : w = [k \in {} |-> k]
      OBVIOUS
    <3>3. Enumerates(w, 0, RunsFrom(s, seps, i))
      BY <3>1, <3>2, NoRuns
    <3>4. limit >= 0 => 0 <= limit - n
      BY <1>5, <2>3
    <3>5. Len(<<>>) = 0 /\ <<>> \in Seq(Seq(S)) /\ 1 .. 0 = {}
      OBVIOUS
    <3>6. 0 = IF limit < 0 \/ 0 < limit - n THEN 0 ELSE limit - n
      BY <2>3, <3>4
    <3>7. PiecesOf(s, limit, rest, n, w, 0, <<>>)
      BY <3>5, <3>6 DEF PiecesOf
    <3> QED
      BY <3>1, <3>3, <3>5, <3>7
  <2>6. CASE i <= Len(s) /\ n = max
    <3>1. f[<<i, n>>] = <<>>
      BY <2>4, <2>6
    <3>2. limit >= 0
      <4> SUFFICES ASSUME limit < 0 PROVE FALSE
        OBVIOUS
      <4>1. n <= Cardinality(Passed(s, seps, i))
        BY <2>2, <2>6
      <4>2. /\ Cardinality(Passed(s, seps, i)) <= Cardinality(Separators(s, seps))
            /\ Cardinality(Passed(s, seps, i)) \in Nat /\ Cardinality(Separators(s, seps)) \in Nat
        BY SeparatorsFinite
      <4> QED
        BY <1>5, <2>6, <4>1, <4>2
    <3>3. PICK w, m : Enumerates(w, m, RunsFrom(s, seps, i))
      BY <2>2, RunsInOrder
    <3>4. m \in Nat
      BY <3>3 DEF Enumerates
    <3>5. Len(<<>>) = 0 /\ <<>> \in Seq(Seq(S)) /\ 1 .. 0 = {}
      OBVIOUS
    <3>6. limit - n = 0
      BY <1>5, <2>3, <2>6, <3>2
    <3>7. 0 = IF limit < 0 \/ m < limit - n THEN m ELSE limit - n
      BY <3>2, <3>4, <3>6
    <3>8. PiecesOf(s, limit, rest, n, w, m, <<>>)
      BY <3>5, <3>7 DEF PiecesOf
    <3> QED
      BY <3>1, <3>3, <3>5, <3>8
  <2>7. CASE i <= Len(s) /\ n # max
    <3>1. i \in 1 .. Len(s) /\ n < max
      BY <1>5, <2>3, <2>7
    <3>2. PICK e : e = Find(s, i, seps)
      OBVIOUS
    <3>3. PICK x : x = Skip(s, e, seps)
      OBVIOUS
    <3>4. /\ e \in Nat /\ i <= e /\ e <= Len(s) + 1
          /\ e <= Len(s) => s[e] \in seps
      BY <3>1, <3>2, <3>3, Moves
    <3>5. x \in Nat /\ e <= x /\ i < x /\ x <= Len(s) + 1
      BY <3>1, <3>2, <3>3, Moves
    <3>6. Starts(s, seps, x) /\ (x <= Len(s) => e <= Len(s) /\ e < x)
      BY <2>2, <3>1, <3>2, <3>3, RunHere
    <3>7. <<x, n + 1>> \in D /\ rank[<<x, n + 1>>] < rank[<<i, n>>]
      <4>1. x \in 1 .. Len(s) + 1 /\ n + 1 \in 0 .. max
        BY <1>2, <1>5, <2>3, <3>1, <3>5
      <4>2. <<x, n + 1>> \in D /\ <<i, n>> \in D
        BY <1>1, <2>1, <4>1
      <4>3. rank[<<x, n + 1>>] = Len(s) + 1 - x /\ rank[<<i, n>>] = Len(s) + 1 - i
        BY <1>3, <4>2
      <4> QED
        BY <1>2, <2>3, <3>5, <4>2, <4>3
    <3>8. Ok(x, n + 1)
      <4>1. ASSUME limit < 0, x <= Len(s) PROVE n + 1 <= Cardinality(Passed(s, seps, x))
        <5>1. n <= Cardinality(Passed(s, seps, i))
          BY <2>2, <2>7, <4>1
        <5>2. e \in 1 .. Len(s) /\ e < x /\ s[e] \in seps /\ i \in Int /\ x \in Int
          BY <1>2, <2>3, <3>4, <3>5, <3>6, <4>1
        <5>3. Cardinality(Passed(s, seps, x)) >= Cardinality(Passed(s, seps, i)) + 1
          BY <3>4, <5>2, OnePassedMore
        <5>4. Cardinality(Passed(s, seps, x)) \in Nat /\ Cardinality(Passed(s, seps, i)) \in Nat
          BY SeparatorsFinite
        <5> QED
          BY <2>3, <5>1, <5>3, <5>4
      <4> QED
        BY <3>6, <4>1
    <3>9. PICK w, m : /\ Enumerates(w, m, RunsFrom(s, seps, x)) /\ f[<<x, n + 1>>] \in Seq(Seq(S))
                      /\ PiecesOf(s, limit, rest, n + 1, w, m, f[<<x, n + 1>>])
      <4>1. <<x, n + 1>> \in Good
        BY <1>6, <2>1, <3>7
      <4>2. Made(x, n + 1)
        BY <1>4, <3>8, <4>1
      <4> QED
        BY <4>2
    <3>10. Enumerates(Longer(i, e, w, m), m + 1, RunsFrom(s, seps, i)) /\ m \in Nat
      <4>1. m \in Nat
        BY <3>9 DEF Enumerates
      <4> QED
        BY <2>2, <3>1, <3>2, <3>3, <3>9, <4>1, RunsLonger
    <3>11. PICK h : h = IF n + 1 < max \/ ~remainder THEN SubSeq(s, i, e - 1) ELSE From(s, i)
      OBVIOUS
    <3>12. f[<<i, n>>] = <<h>> \o f[<<x, n + 1>>]
      <4>1. ~(i > Len(s) \/ n = max)
        BY <1>2, <2>3, <2>7
      <4> QED
        BY <2>4, <3>2, <3>3, <3>11, <4>1
    <3>13. h = SubSeq(s, i, IF 1 + n = rest THEN Len(s) ELSE e - 1)
      <4>1. CASE limit >= 0
        <5>1. n + 1 < max \/ n + 1 = limit
          BY <1>5, <2>3, <3>1, <4>1
        <5>2. n + 1 < max => n + 1 # limit
          BY <1>5, <2>3, <4>1
        <5>3. CASE n + 1 < max
          <6>1. 1 + n # rest
            BY <2>3, <5>2, <5>3
          <6> QED
            BY <3>11, <5>3, <6>1
        <5>4. CASE n + 1 = limit
          <6>1. 1 + n = limit /\ ~(n + 1 < max) /\ 1 + n # 0
            BY <2>3, <5>2, <5>4
          <6> QED
            BY <3>11, <6>1 DEF From
        <5> QED
          BY <5>1, <5>3, <5>4
      <4>2. CASE limit < 0
        <5>1. 1 + n # rest
          BY <2>3, <4>2
        <5>2. CASE n + 1 < max \/ ~remainder
          BY <3>11, <5>1, <5>2
        <5>3. CASE ~(n + 1 < max \/ ~remainder)
          <6>1. n = Cardinality(Separators(s, seps))
            <7>1. Cardinality(Separators(s, seps)) \in Nat
              BY SeparatorsFinite
            <7>2. max = Cardinality(Separators(s, seps)) + 1
              BY <1>5, <4>2
            <7>3. ~(n + 1 < max)
              BY <5>3
            <7> QED
              BY ONLY n \in Nat, <2>3, <3>1, <7>1, <7>2, <7>3
          <6>2. n <= Cardinality(Passed(s, seps, i))
            BY <2>2, <2>7, <4>2
          <6>3. Passed(s, seps, i) = Separators(s, seps)
            BY <2>3, <6>1, <6>2, SeparatorsFinite
          <6>4. e = Len(s) + 1
            <7> SUFFICES ASSUME e <= Len(s) PROVE FALSE
              BY <1>2, <3>4
            <7>1. e \in Separators(s, seps)
              BY <1>2, <2>3, <3>4 DEF Separators
            <7>2. e \notin Passed(s, seps, i)
              BY <2>3, <3>4 DEF Passed
            <7> QED
              BY <6>3, <7>1, <7>2
          <6>5. e - 1 = Len(s)
            BY <1>2, <6>4
          <6> QED
            BY <3>11, <5>1, <5>3, <6>5 DEF From
        <5> QED
          BY <5>2, <5>3
      <4> QED
        BY <4>1, <4>2
    <3>14. h \in Seq(S)
      <4>1. PICK b : b = IF 1 + n = rest THEN Len(s) ELSE e - 1
        OBVIOUS
      <4>2. b \in Int /\ b <= Len(s)
        BY <1>2, <3>4, <4>1
      <4>3. \A k \in i .. b : s[k] \in S
        <5>1. \A k \in i .. b : k \in 1 .. Len(s)
          BY <1>2, <2>3, <4>2
        <5> QED
          BY <5>1
      <4> QED
        BY <2>3, <3>13, <4>1, <4>2, <4>3, SubSeqProperties
    <3>15. limit >= 0 => n < limit
      BY <1>5, <3>1
    <3>16. /\ f[<<i, n>>] \in Seq(Seq(S))
           /\ PiecesOf(s, limit, rest, n, Longer(i, e, w, m), m + 1, f[<<i, n>>])
      <4>1. PICK p \in Seq(Seq(S)) : p = f[<<x, n + 1>>]
        BY <3>9
      <4>2. PiecesOf(s, limit, rest, n + 1, w, m, p) /\ m \in Nat
        BY <3>9, <3>10, <4>1
      <4>3. i \in Nat /\ e \in Nat /\ n \in Nat
        BY <2>3, <3>4
      <4>4. /\ <<h>> \o p \in Seq(Seq(S))
            /\ PiecesOf(s, limit, rest, n, Longer(i, e, w, m), m + 1, <<h>> \o p)
        BY ONLY s \in Seq(S), limit \in Int, rest \in Int, <3>13, <3>14, <3>15, <4>2, <4>3, p \in Seq(Seq(S)), PiecesLonger
      <4> QED
        BY <3>12, <4>1, <4>4
    <3> QED
      BY <3>10, <3>16
  <2>8. i > Len(s) \/ i <= Len(s)
    BY <1>2, <2>3
  <2> QED
    BY <2>5, <2>6, <2>7, <2>8
<1>7. D \subseteq Good
  BY <1>6, CloserInduction
<1>8. <<i0, n0>> \in Good
  BY <1>1, <1>7
<1> QED
  BY <1>4, <1>8

\* m things in order are m, and the k-th is the one with k up to it.
LEMMA Counted ==
  ASSUME NEW w, NEW m, NEW R, Enumerates(w, m, R), \A r \in R : r[1] \in Int
  PROVE  /\ Cardinality(R) = m
         /\ \A k \in 1 .. m : Nth(R, k) = w[k]
<1>1. /\ m \in Nat /\ w \in [1 .. m -> R]
      /\ \A r \in R : \E k \in 1 .. m : w[k] = r
      /\ \A a, b \in 1 .. m : a < b => w[a][1] < w[b][1]
  BY DEF Enumerates
<1>2. ASSUME NEW a \in 1 .. m, NEW b \in 1 .. m
      PROVE  /\ w[a][1] \in Int /\ w[b][1] \in Int
             /\ w[a][1] <= w[b][1] <=> a <= b
             /\ w[a] = w[b] => a = b
  <2>1. w[a] \in R /\ w[b] \in R
    BY <1>1
  <2>2. w[a][1] \in Int /\ w[b][1] \in Int
    BY <2>1
  <2>3. a < b => w[a][1] < w[b][1]
    BY <1>1
  <2>4. b < a => w[b][1] < w[a][1]
    BY <1>1
  <2>5. a \in Int /\ b \in Int
    OBVIOUS
  <2>6. a = b => w[a][1] = w[b][1]
    OBVIOUS
  <2> QED
    BY ONLY <2>2, <2>3, <2>4, <2>5, <2>6
<1>3. ASSUME NEW k \in 0 .. m, NEW T, T = {w[j] : j \in 1 .. k} PROVE Cardinality(T) = k
  <2>1. PICK v : v = [j \in 1 .. k |-> w[j]]
    OBVIOUS
  <2>2. k \in Nat /\ 1 .. k \subseteq 1 .. m
    BY <1>1
  <2>3. v \in [1 .. k -> T]
    BY <1>3, <2>1
  <2>4. \A a, b \in 1 .. k : v[a] = v[b] => a = b
    BY <1>2, <2>1, <2>2
  <2>5. \A t \in T : \E j \in 1 .. k : v[j] = t
    BY <1>3, <2>1
  <2>6. v \in Bijection(1 .. k, T)
    BY <2>3, <2>4, <2>5, Fun_IsBij
  <2>7. ExistsBijection(1 .. k, T)
    BY <2>6, Fun_ExistsBij
  <2> QED
    BY <2>2, <2>7, FS_CountingElements
<1>4. Cardinality(R) = m
  <2>1. R = {w[j] : j \in 1 .. m}
    BY <1>1
  <2>2. m \in 0 .. m
    BY <1>1
  <2> QED
    BY <1>3, <2>1, <2>2
<1>5. ASSUME NEW k \in 1 .. m PROVE Cardinality({q \in R : q[1] <= w[k][1]}) = k
  <2>1. {q \in R : q[1] <= w[k][1]} = {w[j] : j \in 1 .. k}
    <3>1. ASSUME NEW q \in R, q[1] <= w[k][1] PROVE \E j \in 1 .. k : q = w[j]
      <4>1. PICK j \in 1 .. m : q = w[j]
        BY <1>1
      <4>2. j <= k
        BY <1>2, <3>1, <4>1
      <4>3. j \in 1 .. k
        BY <1>1, <4>2
      <4> QED
        BY <4>1, <4>3
    <3>2. ASSUME NEW j \in 1 .. k PROVE w[j] \in R /\ w[j][1] <= w[k][1]
      <4>1. j \in 1 .. m /\ j <= k
        BY <1>1
      <4> QED
        BY <1>1, <1>2, <4>1
    <3> QED
      BY <3>1, <3>2
  <2>2. k \in 0 .. m
    BY <1>1
  <2> QED
    BY <1>3, <2>1, <2>2
<1>6. ASSUME NEW k \in 1 .. m PROVE Nth(R, k) = w[k]
  <2>1. w[k] \in R /\ Cardinality({q \in R : q[1] <= w[k][1]}) = k
    BY <1>1, <1>5
  <2>2. ASSUME NEW r \in R, Cardinality({q \in R : q[1] <= r[1]}) = k PROVE r = w[k]
    <3>1. PICK j \in 1 .. m : r = w[j]
      BY <1>1
    <3>2. j = k
      BY <1>5, <2>2, <3>1
    <3> QED
      BY <3>1, <3>2
  <2> QED
    BY <2>1, <2>2 DEF Nth
<1> QED
  BY <1>4, <1>6

\* All the runs are the ones from the first place that is not a separator on.
LEMMA FirstStart ==
  ASSUME NEW S, NEW s \in Seq(S), NEW seps, NEW i, i = Skip(s, 1, seps)
  PROVE  i \in 1 .. Len(s) + 1 /\ Starts(s, seps, i) /\ RunsFrom(s, seps, i) = Runs(s, seps)
<1>1. Len(s) \in Nat /\ 1 \in 1 .. Len(s) + 1
  OBVIOUS
<1>2. /\ i \in 1 .. Len(s) + 1
      /\ i <= Len(s) => s[i] \notin seps
      /\ \A k \in 1 .. i - 1 : s[k] \in seps
  BY <1>1, SkipIs
<1>3. i \in Nat /\ 1 <= i /\ i <= Len(s) + 1
  BY <1>1, <1>2
<1>4. Starts(s, seps, i)
  <2>1. CASE i <= Len(s)
    <3>1. i = 1 \/ i - 1 \in 1 .. i - 1
      BY <1>3
    <3>2. i \in 1 .. Len(s)
      BY <1>1, <1>3, <2>1
    <3> QED
      BY <1>2, <2>1, <3>1, <3>2 DEF Starts
  <2>2. CASE ~(i <= Len(s))
    <3>1. i = Len(s) + 1
      BY <1>1, <1>3, <2>2
    <3> QED
      BY <3>1 DEF Starts
  <2> QED
    BY <2>1, <2>2
<1>5. ASSUME NEW r \in Runs(s, seps) PROVE r[1] >= i
  <2>1. PICK a \in 1 .. Len(s), b \in 1 .. Len(s) : r = <<a, b>> /\ a <= b /\ \A k \in a .. b : s[k] \notin seps
    BY RunIs
  <2>2. a \in Nat /\ 1 <= a /\ b \in Nat /\ r[1] = a
    BY <2>1
  <2>3. s[a] \notin seps
    BY <2>1
  <2>4. SUFFICES ASSUME a < i PROVE FALSE
    BY <1>3, <2>2
  <2>5. a \in 1 .. i - 1
    BY <1>3, <2>2, <2>4
  <2> QED
    BY <1>2, <2>3, <2>5
<1>6. RunsFrom(s, seps, i) = Runs(s, seps)
  BY <1>5 DEF RunsFrom
<1> QED
  BY <1>2, <1>4, <1>6

LEMMA SplitIs ==
  ASSUME NEW S, NEW s \in Seq(S), NEW seps, NEW limit \in Int, NEW remainder \in BOOLEAN,
         NEW p, p = Split(s, seps, limit, remainder),
         NEW rest, rest = (IF remainder THEN limit ELSE 0)
  PROVE  \E w, m : Enumerates(w, m, Runs(s, seps)) /\ PiecesOf(s, limit, rest, 0, w, m, p)
<1>1. PICK f : f = CHOOSE g : PiecesFrom(s, seps, MaxPieces(s, seps, limit), remainder, g)
  OBVIOUS
<1>2. p = f[<<Skip(s, 1, seps), 0>>]
  BY <1>1 DEF Split, PiecesFrom
<1>3. PICK max : max = MaxPieces(s, seps, limit)
  OBVIOUS
<1>4. max \in Nat
  BY <1>3, MaxPiecesIs
<1>5. PiecesFrom(s, seps, max, remainder, f)
  BY <1>1, <1>3, <1>4, PiecesHaveValues
<1>7. PICK i : i = Skip(s, 1, seps)
  OBVIOUS
<1>8. i \in 1 .. Len(s) + 1 /\ Starts(s, seps, i) /\ RunsFrom(s, seps, i) = Runs(s, seps)
  BY <1>7, FirstStart
<1>9. 0 \in 0 .. max /\ 0 <= Cardinality(Passed(s, seps, i))
  <2>1. Cardinality(Passed(s, seps, i)) \in Nat
    BY SeparatorsFinite
  <2> QED
    BY <1>4, <2>1
<1>10. \E w, m : /\ Enumerates(w, m, RunsFrom(s, seps, i)) /\ f[<<i, 0>>] \in Seq(Seq(S))
                 /\ PiecesOf(s, limit, rest, 0, w, m, f[<<i, 0>>])
  BY <1>3, <1>5, <1>8, <1>9, PiecesAre
<1> QED
  BY <1>2, <1>7, <1>8, <1>10

----------------------------------------------------------------------------
(* The calls *)

TextTyped == text \in Seq(Chars)

LEMMA TextIsTyped == StringSpec => []TextTyped
<1>1. TextInit => TextTyped
  BY DEF TextInit, Texts, TextTyped
<1>2. TextTyped /\ [TextNext]_svars => TextTyped'
  BY DEF TextNext, svars, TextTyped
<1> QED
  BY <1>1, <1>2, PTL DEF StringSpec

\* Trimming a name or a value of a line removes the blanks at both its ends, all of
\* them, and nothing else (trim_flanking_whitespace()).
THEOREM TrimCorrectAlways == StringSpec => []TrimCorrect
<1>1. TextInit => TrimCorrect
  BY DEF TextInit, TrimCorrect
<1>2. TextTyped /\ TrimCorrect /\ [TextNext]_svars => TrimCorrect'
  <2>1. SUFFICES ASSUME TextTyped, TrimCorrect, TextNext PROVE TrimCorrect'
    BY DEF svars, TrimCorrect
  <2>2. text' = text /\ text \in Seq(Chars)
    BY <2>1 DEF TextNext, TextTyped
  <2>3. CASE TextTrim
    <3>1. call'[2] = Trim(text)
      BY <2>3 DEF TextTrim
    <3> QED
      BY <2>2, <3>1, TrimIs DEF TrimCorrect
  <2>4. CASE call'[1] # "trim"
    BY <2>4 DEF TrimCorrect
  <2> QED
    BY <2>1, <2>3, <2>4 DEF TextNext, TextSplit, TextReplace
<1> QED
  BY <1>1, <1>2, TextIsTyped, PTL DEF StringSpec

\* What dynamic_replace() writes, its zero included, is as long as the buffer its first
\* pass sized, whatever occurrences overlap.
THEOREM ReplaceFitsAlways == StringSpec => []ReplaceFits
<1>1. TextInit => ReplaceFits
  BY DEF TextInit, ReplaceFits
<1>2. TextTyped /\ ReplaceFits /\ [TextNext]_svars => ReplaceFits'
  <2>1. SUFFICES ASSUME TextTyped, ReplaceFits, TextNext PROVE ReplaceFits'
    BY DEF svars, ReplaceFits
  <2>2. ASSUME NEW old \in Olds, NEW new \in News, TextReplace(old, new) PROVE ReplaceFits'
    <3>1. old \in Seq(Chars) /\ old # <<>> /\ new \in Seq(Chars) /\ text \in Seq(Chars)
      BY <2>1, StringAssumption DEF TextTyped
    <3>2. Len(Replace(text, old, new)) + 1 = Allocated(text, old, new)
      BY <3>1, ReplaceLength
    <3>3. call'[4] = Replace(text, old, new) /\ call'[5] = Allocated(text, old, new)
      BY <2>2 DEF TextReplace
    <3> QED
      BY <3>2, <3>3 DEF ReplaceFits
  <2>3. CASE call'[1] # "replace"
    BY <2>3 DEF ReplaceFits
  <2> QED
    BY <2>1, <2>2, <2>3 DEF TextNext, TextSplit, TextTrim
<1> QED
  BY <1>1, <1>2, TextIsTyped, PTL DEF StringSpec

LEMMA SplitCorrectFor ==
  ASSUME NEW S, NEW s \in Seq(S), NEW seps, NEW limit \in Int, NEW remainder \in BOOLEAN,
         NEW runs, runs = Runs(s, seps),
         NEW pieces, pieces = Split(s, seps, limit, remainder),
         NEW want, want = IF limit < 0 \/ Cardinality(runs) < limit THEN Cardinality(runs) ELSE limit
  PROVE  /\ Len(pieces) = want
         /\ \A n \in 1 .. want :
              LET r == Nth(runs, n)
              IN pieces[n] = SubSeq(s, r[1], IF n = limit /\ remainder THEN Len(s) ELSE r[2])
<1>1. PICK rest : rest = (IF remainder THEN limit ELSE 0)
  OBVIOUS
<1>2. PICK w, m : Enumerates(w, m, runs) /\ PiecesOf(s, limit, rest, 0, w, m, pieces)
  BY <1>1, SplitIs
<1>3. ASSUME NEW r \in runs PROVE r[1] \in Int
  <2>1. PICK a \in 1 .. Len(s), b \in 1 .. Len(s) : r = <<a, b>>
    BY <1>3, RunIs
  <2> QED
    BY <2>1
<1>4. Cardinality(runs) = m /\ \A k \in 1 .. m : Nth(runs, k) = w[k]
  BY <1>2, <1>3, Counted
<1>5. m \in Nat
  BY <1>2 DEF Enumerates
<1>6. /\ Len(pieces) = IF limit < 0 \/ m < limit - 0 THEN m ELSE limit - 0
      /\ \A k \in 1 .. Len(pieces) :
           pieces[k] = SubSeq(s, w[k][1], IF k + 0 = rest THEN Len(s) ELSE w[k][2])
  BY <1>2 DEF PiecesOf
<1>7. Len(pieces) = want /\ want <= m /\ want \in Int
  BY <1>4, <1>5, <1>6
<1>8. ASSUME NEW n \in 1 .. want, NEW r, r = Nth(runs, n)
      PROVE  pieces[n] = SubSeq(s, r[1], IF n = limit /\ remainder THEN Len(s) ELSE r[2])
  <2>1. n \in 1 .. m /\ n \in Nat /\ n # 0
    BY <1>5, <1>7
  <2>2. r = w[n]
    BY <1>4, <1>8, <2>1
  <2>3. pieces[n] = SubSeq(s, w[n][1], IF n + 0 = rest THEN Len(s) ELSE w[n][2])
    BY <1>6, <1>7
  <2>4. n + 0 = rest <=> n = limit /\ remainder
    BY <1>1, <2>1
  <2> QED
    BY <2>2, <2>3, <2>4
<1> QED
  BY <1>7, <1>8

\* The pieces of a line are the runs between its separators, in order, as many as the
\* limit allows, and the array sized from the number of separators has room for all of
\* them (split_on_separators()).
THEOREM SplitCorrectAlways == StringSpec => []SplitCorrect
<1>1. TextInit => SplitCorrect
  BY DEF TextInit, SplitCorrect
<1>2. TextTyped /\ SplitCorrect /\ [TextNext]_svars => SplitCorrect'
  <2>1. SUFFICES ASSUME TextTyped, SplitCorrect, TextNext PROVE SplitCorrect'
    BY DEF svars, SplitCorrect
  <2>2. text' = text /\ text \in Seq(Chars)
    BY <2>1 DEF TextNext, TextTyped
  <2>3. ASSUME NEW seps, NEW limit \in Limits, NEW remainder \in BOOLEAN, TextSplit(seps, limit, remainder)
        PROVE  SplitCorrect'
    <3>1. /\ call'[2] = seps /\ call'[3] = limit /\ call'[4] = remainder
          /\ call'[5] = Split(text, seps, limit, remainder)
      BY <2>3 DEF TextSplit
    <3>2. limit \in Int
      BY StringAssumption
    <3>3. PICK runs, pieces : runs = Runs(text, seps) /\ pieces = Split(text, seps, limit, remainder)
      OBVIOUS
    <3>4. PICK want : want = IF limit < 0 \/ Cardinality(runs) < limit THEN Cardinality(runs) ELSE limit
      OBVIOUS
    <3>5. /\ Len(pieces) = want
          /\ \A n \in 1 .. want :
               LET r == Nth(runs, n)
               IN pieces[n] = SubSeq(text, r[1], IF n = limit /\ remainder THEN Len(text) ELSE r[2])
      BY <2>2, <3>2, <3>3, <3>4, SplitCorrectFor
    <3> QED
      BY <2>2, <3>1, <3>3, <3>4, <3>5 DEF SplitCorrect
  <2>4. CASE call'[1] # "split"
    BY <2>4 DEF SplitCorrect
  <2> QED
    BY <2>1, <2>3, <2>4 DEF TextNext, TextTrim, TextReplace
<1> QED
  BY <1>1, <1>2, TextIsTyped, PTL DEF StringSpec
----------------------------------------------------------------------------
(* Configuration files                                                      *)

LEMMA LeastIs ==
  ASSUME NEW S \in SUBSET Nat, S # {}
  PROVE  Least(S) \in S /\ \A k \in S : Least(S) <= k
BY MinExists DEF Least

LEMMA GreatestIs ==
  ASSUME NEW n \in Nat, NEW S \in SUBSET (0 .. n), S # {}
  PROVE  Greatest(S) \in S /\ \A k \in S : k <= Greatest(S)
<1>1. PICK T \in SUBSET Nat : T = {n - k : k \in S}
  <2>1. {n - k : k \in S} \in SUBSET Nat
    OBVIOUS
  <2> QED
    BY <2>1
<1>2. PICK m \in T : \A k \in T : m <= k
  <2>1. T # {}
    BY <1>1
  <2> QED
    BY <2>1, MinExists
<1>3. PICK i \in S : m = n - i
  BY <1>1, <1>2
<1>4. ASSUME NEW k \in S PROVE k <= i
  <2>1. n - i <= n - k
    BY <1>1, <1>2, <1>3
  <2> QED
    BY <2>1
<1> QED
  BY <1>4 DEF Greatest

LEMMA SubSeqIs ==
  ASSUME NEW S, NEW s \in Seq(S), NEW i \in 1 .. Len(s), NEW j \in 1 .. Len(s), i <= j
  PROVE  SubSeq(s, i, j) = [k \in 1 .. (j - i) + 1 |-> s[(k + i) - 1]]
OBVIOUS

\* A value without its quotes: the characters that are none, in their order.
Omit(s, q) ==
  LET kept == {<<i, i>> : i \in {j \in DOMAIN s : s[j] # q}}
  IN [k \in 1 .. Cardinality(kept) |-> s[Nth(kept, k)[1]]]
Unquoted(s) == Omit(s, "\"")

\* What locate_value() makes of any line: the first two runs that are free of "=" and "#".
Reads(line, field) ==
  LET runs == Runs(line, {"=", "#"})
      Text(n) == Trim(SubSeq(line, Nth(runs, n)[1], Nth(runs, n)[2]))
  IN IF Cardinality(runs) < 2 \/ Text(1) # <<field>> THEN NULL
     ELSE Unquoted(Text(2))

LastRead(lines, where, field, otherwise) ==
  LET sets == {i \in where : Reads(lines[i], field) # NULL}
  IN IF sets = {} THEN otherwise ELSE Reads(lines[Greatest(sets)], field)

\* Characters of a text from a place on, each as a run of its own.
Kept(s, q, i) == {<<k, k>> : k \in {j \in 1 .. Len(s) : s[j] # q /\ j >= i}}

LEMMA KeptLonger ==
  ASSUME NEW S, NEW s \in Seq(S), NEW q, NEW i \in 1 .. Len(s), s[i] # q,
         NEW w, NEW m, Enumerates(w, m, Kept(s, q, i + 1))
  PROVE  Enumerates(Longer(i, i + 1, w, m), m + 1, Kept(s, q, i))
<1>1. /\ m \in Nat /\ w \in [1 .. m -> Kept(s, q, i + 1)]
      /\ \A r \in Kept(s, q, i + 1) : \E k \in 1 .. m : w[k] = r
      /\ \A a, b \in 1 .. m : a < b => w[a][1] < w[b][1]
  BY DEF Enumerates
<1>2. Kept(s, q, i) = {<<i, i>>} \union Kept(s, q, i + 1)
  BY DEF Kept
<1>3. \A r \in Kept(s, q, i + 1) : r[1] \in Nat /\ r[1] > i
  BY DEF Kept
<1>4. PICK v : v = Longer(i, i + 1, w, m)
  OBVIOUS
<1>5. v = [k \in 1 .. m + 1 |-> IF k = 1 THEN <<i, i>> ELSE w[k - 1]]
  BY <1>4 DEF Longer
<1>6. \A k \in 2 .. m + 1 : k - 1 \in 1 .. m /\ v[k] = w[k - 1]
  BY <1>1, <1>5
<1>7. v[1] = <<i, i>> /\ 1 \in 1 .. m + 1 /\ v[1][1] = i
  BY <1>1, <1>5
<1>8. \A k \in 1 .. m + 1 : k = 1 \/ k \in 2 .. m + 1
  BY <1>1
<1>9. v \in [1 .. m + 1 -> Kept(s, q, i)]
  BY <1>1, <1>2, <1>5, <1>6, <1>8
<1>10. ASSUME NEW r \in Kept(s, q, i) PROVE \E k \in 1 .. m + 1 : v[k] = r
  <2>1. CASE r = <<i, i>>
    BY <1>7, <2>1
  <2>2. CASE r \in Kept(s, q, i + 1)
    <3>1. PICK k \in 1 .. m : w[k] = r
      BY <1>1, <2>2
    <3>2. k + 1 \in 2 .. m + 1 /\ (k + 1) - 1 = k /\ k + 1 \in 1 .. m + 1
      BY <1>1
    <3> QED
      BY <1>6, <3>1, <3>2
  <2> QED
    BY <1>2, <2>1, <2>2
<1>11. ASSUME NEW a \in 1 .. m + 1, NEW b \in 1 .. m + 1, a < b PROVE v[a][1] < v[b][1]
  <2>1. b \in 2 .. m + 1 /\ b - 1 \in 1 .. m /\ v[b] = w[b - 1]
    BY <1>6, <1>8, <1>11
  <2>2. CASE a = 1
    <3>1. w[b - 1] \in Kept(s, q, i + 1)
      BY <1>1, <2>1
    <3> QED
      BY <1>3, <1>7, <2>1, <2>2, <3>1
  <2>3. CASE a \in 2 .. m + 1
    <3>1. a - 1 \in 1 .. m /\ v[a] = w[a - 1] /\ a - 1 < b - 1
      BY <1>6, <1>11, <2>1, <2>3
    <3> QED
      BY <1>1, <2>1, <3>1
  <2> QED
    BY <1>8, <2>2, <2>3
<1>12. m + 1 \in Nat
  BY <1>1
<1> QED
  BY <1>4, <1>9, <1>10, <1>11, <1>12 DEF Enumerates

\* Replacing a character by nothing leaves the others in their order.
LEMMA ReplaceIsUnquoted ==
  ASSUME NEW S, NEW s \in Seq(S)
  PROVE  /\ Replace(s, <<"\"">>, <<>>) = Unquoted(s)
         /\ Unquoted(s) \in Seq(S)
<1>1. PICK q : q = "\""
  OBVIOUS
<1>2. Len(s) \in Nat /\ <<q>> \in Seq(S \union {q}) /\ s \in Seq(S \union {q}) /\ <<q>> # <<>>
  OBVIOUS
<1>3. PICK rest : rest = CHOOSE f : Replaces(s, <<q>>, <<>>, f)
  OBVIOUS
<1>4. Replaces(s, <<q>>, <<>>, rest)
  <2>1. <<>> \in Seq(S \union {q})
    OBVIOUS
  <2> QED
    BY <1>2, <1>3, <2>1, ReplacesHasValues
<1>5. Replace(s, <<q>>, <<>>) = rest[1]
  BY <1>3 DEF Replace, Replaces
<1>6. PICK D : D = 1 .. Len(s) + 1
  OBVIOUS
<1>7. PICK rank \in [D -> Nat] : rank = [j \in D |-> Len(s) + 1 - j]
  <2>1. [j \in D |-> Len(s) + 1 - j] \in [D -> Nat]
    BY <1>2, <1>6
  <2> QED
    BY <2>1
<1>8. PICK T : T = {i \in D : \E w, m : /\ Enumerates(w, m, Kept(s, q, i))
                                        /\ rest[i] = [k \in 1 .. m |-> s[w[k][1]]]}
  OBVIOUS
<1>9. ASSUME NEW i \in D, \A y \in D : rank[y] < rank[i] => y \in T PROVE i \in T
  <2>1. rest[i] = IF i > Len(s) THEN <<>>
                  ELSE IF StartsAt(s, i, <<q>>) THEN <<>> \o rest[i + Len(<<q>>)] ELSE <<s[i]>> \o rest[i + 1]
    BY <1>4, <1>6, <1>9 DEF Replaces
  <2>2. CASE i = Len(s) + 1
    <3>1. Kept(s, q, i) = {}
      BY <1>2, <2>2 DEF Kept
    <3>2. PICK w : w = <<>>
      OBVIOUS
    <3>3. Enumerates(w, 0, Kept(s, q, i))
      BY <3>1, <3>2 DEF Enumerates
    <3>4. rest[i] = [k \in 1 .. 0 |-> s[w[k][1]]]
      BY <1>2, <2>1, <2>2
    <3> QED
      BY <1>8, <3>3, <3>4
  <2>3. CASE i # Len(s) + 1
    <3>1. i \in 1 .. Len(s) /\ i + 1 \in D /\ ~(i > Len(s))
      BY <1>2, <1>6, <2>3
    <3>2. rank[i + 1] < rank[i]
      BY <1>2, <1>6, <1>7, <3>1
    <3>3. PICK w, m : Enumerates(w, m, Kept(s, q, i + 1)) /\ rest[i + 1] = [k \in 1 .. m |-> s[w[k][1]]]
      BY <1>8, <1>9, <3>1, <3>2
    <3>4. m \in Nat /\ w \in [1 .. m -> Kept(s, q, i + 1)]
      BY <3>3 DEF Enumerates
    <3>5. StartsAt(s, i, <<q>>) <=> s[i] = q
      <4>1. SubSeq(s, i, i) = <<s[i]>>
        <5>1. i \in Nat /\ (i - i) + 1 = 1 /\ (1 + i) - 1 = i
          BY <3>1
        <5>2. SubSeq(s, i, i) = [k \in 1 .. (i - i) + 1 |-> s[(k + i) - 1]]
          BY <1>2, <3>1, SubSeqIs
        <5>3. SubSeq(s, i, i) = [k \in 1 .. 1 |-> s[(k + i) - 1]]
          BY <5>1, <5>2
        <5>4. \A k \in 1 .. 1 : k = 1
          OBVIOUS
        <5> QED
          BY <5>1, <5>3, <5>4
      <4>2. Len(<<q>>) = 1 /\ i + 1 - 1 = i
        BY <3>1
      <4>3. StartsAt(s, i, <<q>>) <=> SubSeq(s, i, i) = <<q>>
        BY <1>2, <3>1, <4>2 DEF StartsAt
      <4> QED
        BY <4>1, <4>3
    <3>6. \A k \in 1 .. m : s[w[k][1]] \in S
      BY <3>4 DEF Kept
    <3>7. rest[i + 1] \in Seq(S)
      BY <3>3, <3>4, <3>6
    <3>8. CASE s[i] = q
      <4>1. Kept(s, q, i) = Kept(s, q, i + 1)
        BY <3>1, <3>8 DEF Kept
      <4>2. rest[i] = rest[i + 1]
        <5>1. rest[i] = <<>> \o rest[i + Len(<<q>>)] /\ Len(<<q>>) = 1
          BY <2>1, <3>1, <3>5, <3>8
        <5>2. i + Len(<<q>>) = i + 1
          BY <3>1, <5>1
        <5>3. rest[i] = <<>> \o rest[i + 1]
          BY <5>1, <5>2
        <5> QED
          BY <3>7, <5>3, ConcatEmptySeq
      <4>3. Enumerates(w, m, Kept(s, q, i)) /\ rest[i] = [k \in 1 .. m |-> s[w[k][1]]]
        BY <3>3, <4>1, <4>2
      <4> QED
        BY <1>8, <4>3
    <3>9. CASE s[i] # q
      <4>1. PICK v : v = Longer(i, i + 1, w, m)
        OBVIOUS
      <4>2. Enumerates(v, m + 1, Kept(s, q, i))
        BY <3>1, <3>3, <3>9, <4>1, KeptLonger
      <4>3. v = [k \in 1 .. m + 1 |-> IF k = 1 THEN <<i, i>> ELSE w[k - 1]]
        BY <3>1, <4>1 DEF Longer
      <4>4. rest[i] = <<s[i]>> \o rest[i + 1]
        BY <2>1, <3>1, <3>5, <3>9
      <4>5. Len(rest[i + 1]) = m
        BY <3>3, <3>4, <3>7
      <4>6. rest[i] = [k \in 1 .. m + 1 |-> IF k = 1 THEN s[i] ELSE rest[i + 1][k - 1]]
        <5>1. s[i] \in S
          BY <3>1
        <5> QED
          BY <3>4, <3>7, <4>4, <4>5, <5>1
      <4>7. ASSUME NEW k \in 1 .. m + 1 PROVE (IF k = 1 THEN s[i] ELSE rest[i + 1][k - 1]) = s[v[k][1]]
        <5>1. k = 1 \/ k - 1 \in 1 .. m
          BY <3>4
        <5> QED
          BY <3>3, <4>3, <5>1
      <4>8. rest[i] = [k \in 1 .. m + 1 |-> s[v[k][1]]]
        BY <4>6, <4>7
      <4> QED
        BY <1>8, <4>2, <4>8
    <3> QED
      BY <3>8, <3>9
  <2> QED
    BY <2>2, <2>3
<1>10. D \subseteq T
  BY <1>9, CloserInduction
<1>11. PICK w, m : Enumerates(w, m, Kept(s, q, 1)) /\ rest[1] = [k \in 1 .. m |-> s[w[k][1]]]
  <2>1. 1 \in D
    BY <1>2, <1>6
  <2> QED
    BY <1>8, <1>10, <2>1
<1>12. PICK kept : kept = {<<i, i>> : i \in {j \in DOMAIN s : s[j] # q}}
  OBVIOUS
<1>13. kept = Kept(s, q, 1)
  <2>1. {j \in DOMAIN s : s[j] # q} = {j \in 1 .. Len(s) : s[j] # q /\ j >= 1}
    BY <1>2
  <2> QED
    BY <1>12, <2>1 DEF Kept
<1>14. Cardinality(kept) = m /\ \A k \in 1 .. m : Nth(kept, k) = w[k]
  <2>1. \A r \in kept : r[1] \in Int
    BY <1>13 DEF Kept
  <2> QED
    BY <1>11, <1>13, <2>1, Counted
<1>15. Unquoted(s) = [k \in 1 .. m |-> s[w[k][1]]]
  <2>1. Omit(s, q) = [k \in 1 .. m |-> s[w[k][1]]]
    BY <1>12, <1>14 DEF Omit
  <2> QED
    BY <1>1, <2>1 DEF Unquoted
<1>16. m \in Nat /\ \A k \in 1 .. m : s[w[k][1]] \in S
  <2>1. m \in Nat /\ w \in [1 .. m -> Kept(s, q, 1)]
    BY <1>11 DEF Enumerates
  <2>2. \A r \in Kept(s, q, 1) : r[1] \in 1 .. Len(s)
    BY DEF Kept
  <2>3. \A j \in 1 .. Len(s) : s[j] \in S
    BY <1>2
  <2> QED
    BY <2>1, <2>2, <2>3
<1>17. Unquoted(s) \in Seq(S)
  BY <1>15, <1>16
<1> QED
  BY <1>1, <1>5, <1>11, <1>15, <1>17

LEMMA TrimTyped ==
  ASSUME NEW S, NEW s \in Seq(S)
  PROVE  Trim(s) \in Seq(S)
<1>1. PICK i, j \in 0 .. Len(s) : Trim(s) = SubSeq(s, i + 1, j)
  BY TrimIs
<1>2. i + 1 \in Int /\ j \in Int /\ \A k \in i + 1 .. j : k \in 1 .. Len(s)
  OBVIOUS
<1>3. \A k \in i + 1 .. j : s[k] \in S
  BY <1>2
<1> QED
  BY <1>1, <1>2, <1>3, SubSeqProperties

\* The text of a run, blanks trimmed.
TextOf(line, r) == Trim(SubSeq(line, r[1], r[2]))

LEMMA RunTexts ==
  ASSUME NEW S, NEW s \in Seq(S), NEW seps, NEW R, R = Runs(s, seps)
  PROVE  /\ Cardinality(R) \in Nat
         /\ R = {} <=> Cardinality(R) = 0
         /\ \A n \in 1 .. Cardinality(R) : Nth(R, n) \in R
         /\ \A r \in R : TextOf(s, r) \in Seq(S) /\ Nth(R, 1)[1] <= r[1]
<1>1. PICK p : p = Split(s, seps, -1, FALSE)
  OBVIOUS
<1>2. \E w, m : Enumerates(w, m, R) /\ PiecesOf(s, -1, 0, 0, w, m, p)
  <2>1. -1 \in Int /\ FALSE \in BOOLEAN
    OBVIOUS
  <2> QED
    BY <1>1, <2>1, SplitIs
<1>3. PICK w, m : Enumerates(w, m, R)
  BY <1>2
<1>4. ASSUME NEW r \in R
      PROVE  \E a \in 1 .. Len(s), b \in 1 .. Len(s) : r = <<a, b>> /\ a <= b /\ \A k \in a .. b : s[k] \notin seps
  BY <1>4, RunIs
<1>5. \A r \in R : r[1] \in Int
  BY <1>4
<1>6. Cardinality(R) = m /\ \A k \in 1 .. m : Nth(R, k) = w[k]
  BY <1>3, <1>5, Counted
<1>7. m \in Nat /\ w \in [1 .. m -> R] /\ \A r \in R : \E k \in 1 .. m : w[k] = r
  BY <1>3 DEF Enumerates
<1>8. R = {} <=> m = 0
  <2>1. ASSUME m = 0 PROVE R = {}
    BY <1>7, <2>1
  <2>2. ASSUME m # 0 PROVE R # {}
    <3>1. 1 \in 1 .. m
      BY <1>7, <2>2
    <3> QED
      BY <1>7, <3>1
  <2> QED
    BY <2>1, <2>2
<1>9. ASSUME NEW r \in R PROVE TextOf(s, r) \in Seq(S)
  <2>1. PICK a \in 1 .. Len(s), b \in 1 .. Len(s) : r = <<a, b>> /\ a <= b
    BY <1>4
  <2>2. SubSeq(s, a, b) \in Seq(S)
    <3>1. \A k \in a .. b : s[k] \in S
      OBVIOUS
    <3> QED
      BY <3>1, SubSeqProperties
  <2> QED
    BY <2>1, <2>2, TrimTyped DEF TextOf
<1>10. ASSUME NEW r \in R PROVE Nth(R, 1)[1] <= r[1]
  <2>1. PICK k \in 1 .. m : w[k] = r
    BY <1>7
  <2>2. 1 \in 1 .. m /\ Nth(R, 1) = w[1] /\ w[1] \in R
    BY <1>6, <1>7, <2>1
  <2>3. k = 1 \/ 1 < k
    BY <2>1
  <2>4. 1 < k => w[1][1] < w[k][1]
    BY <1>3, <2>2 DEF Enumerates
  <2>5. w[1][1] \in Int /\ r[1] \in Int
    BY <1>5, <2>2
  <2> QED
    BY <2>1, <2>2, <2>3, <2>4, <2>5
<1> QED
  BY <1>6, <1>7, <1>8, <1>9, <1>10

\* A line that assigns a field is one that says something of it.
LEMMA AssignedIsSaid ==
  ASSUME NEW S, NULL \notin Seq(S), NEW line \in Seq(S), NEW field,
         NEW pair, pair = Split(line, {"=", "#"}, 2, FALSE)
  PROVE  IF Len(pair) = 2 /\ Trim(pair[1]) = <<field>>
         THEN /\ Reads(line, field) = Replace(Trim(pair[2]), <<"\"">>, <<>>)
              /\ Reads(line, field) # NULL
         ELSE Reads(line, field) = NULL
<1>1. PICK runs : runs = Runs(line, {"=", "#"})
  OBVIOUS
<1>2. /\ Cardinality(runs) \in Nat
      /\ \A n \in 1 .. Cardinality(runs) : Nth(runs, n) \in runs
      /\ \A r \in runs : TextOf(line, r) \in Seq(S)
  BY <1>1, RunTexts
<1>3. PICK want : want = IF 2 < 0 \/ Cardinality(runs) < 2 THEN Cardinality(runs) ELSE 2
  OBVIOUS
<1>4. /\ Len(pair) = want
      /\ \A n \in 1 .. want : pair[n] = SubSeq(line, Nth(runs, n)[1], Nth(runs, n)[2])
  <2>1. ASSUME NEW remainder \in BOOLEAN, ~remainder, NEW p, p = Split(line, {"=", "#"}, 2, remainder)
        PROVE  /\ Len(p) = want
               /\ \A n \in 1 .. want : p[n] = SubSeq(line, Nth(runs, n)[1], Nth(runs, n)[2])
    <3>1. 2 \in Int
      OBVIOUS
    <3>2. /\ Len(p) = want
          /\ \A n \in 1 .. want :
               LET r == Nth(runs, n)
               IN p[n] = SubSeq(line, r[1], IF n = 2 /\ remainder THEN Len(line) ELSE r[2])
      BY <1>1, <1>3, <2>1, <3>1, SplitCorrectFor
    <3> QED
      BY <2>1, <3>2
  <2>2. FALSE \in BOOLEAN
    OBVIOUS
  <2> QED
    BY <2>1, <2>2
<1>5. CASE Cardinality(runs) < 2
  <2>1. Reads(line, field) = NULL
    BY <1>1, <1>5 DEF Reads
  <2>2. Len(pair) # 2
    <3>1. PICK c \in Nat : c = Cardinality(runs)
      BY <1>2
    <3>2. c < 2 /\ want = c
      BY <1>3, <1>5, <3>1
    <3>3. want # 2
      BY <3>2
    <3> QED
      BY <1>4, <3>3
  <2> QED
    BY <2>1, <2>2
<1>6. CASE ~(Cardinality(runs) < 2)
  <2>1. want = 2
    BY <1>3, <1>6
  <2>2. 1 \in 1 .. want /\ 2 \in 1 .. want /\ 1 \in 1 .. Cardinality(runs) /\ 2 \in 1 .. Cardinality(runs)
    BY <1>2, <1>6, <2>1
  <2>3. /\ pair[1] = SubSeq(line, Nth(runs, 1)[1], Nth(runs, 1)[2])
        /\ pair[2] = SubSeq(line, Nth(runs, 2)[1], Nth(runs, 2)[2])
    BY <1>4, <2>2
  <2>4. Trim(pair[1]) = TextOf(line, Nth(runs, 1)) /\ Trim(pair[2]) = TextOf(line, Nth(runs, 2))
    BY <2>3 DEF TextOf
  <2>5. Reads(line, field) = IF Trim(pair[1]) # <<field>> THEN NULL ELSE Unquoted(Trim(pair[2]))
    BY <1>1, <1>6, <2>3 DEF Reads
  <2>6. Trim(pair[2]) \in Seq(S)
    BY <1>2, <2>2, <2>4
  <2>7. Unquoted(Trim(pair[2])) \in Seq(S) /\ Replace(Trim(pair[2]), <<"\"">>, <<>>) = Unquoted(Trim(pair[2]))
    BY <2>6, ReplaceIsUnquoted
  <2> QED
    BY <1>4, <2>1, <2>5, <2>7
<1> QED
  BY <1>5, <1>6

\* A header assigns no field.
LEMMA HeaderSaysNothing ==
  ASSUME NEW S, NEW line \in Seq(S), line # <<>>, line[1] = "[", NEW field, field # "["
  PROVE  Reads(line, field) = NULL
<1>1. PICK runs : runs = Runs(line, {"=", "#"})
  OBVIOUS
<1>2. PICK r : r = Nth(runs, 1)
  OBVIOUS
<1>3. SUFFICES ASSUME ~(Cardinality(runs) < 2) PROVE TextOf(line, r) # <<field>>
  BY <1>1, <1>2 DEF Reads, TextOf
<1>4. Cardinality(runs) \in Nat /\ r \in runs
  <2>1. Cardinality(runs) \in Nat /\ \A n \in 1 .. Cardinality(runs) : Nth(runs, n) \in runs
    BY <1>1, RunTexts
  <2>2. 1 \in 1 .. Cardinality(runs)
    BY <1>3, <2>1
  <2> QED
    BY <1>2, <2>1, <2>2
<1>5. r[1] = 1
  <2>1. PICK e : e = Find(line, 1, {"=", "#"})
    OBVIOUS
  <2>2. 1 \in 1 .. Len(line) /\ line[1] \notin {"=", "#"}
    <3>1. Len(line) \in Nat /\ Len(line) # 0
      OBVIOUS
    <3> QED
      BY <3>1
  <2>3. Starts(line, {"=", "#"}, 1)
    BY <2>2 DEF Starts
  <2>4. RunsFrom(line, {"=", "#"}, 1) = {<<1, e - 1>>} \union RunsFrom(line, {"=", "#"}, Skip(line, e, {"=", "#"}))
    BY <2>1, <2>2, <2>3, RunHere
  <2>5. <<1, e - 1>> \in runs
    BY <1>1, <2>4 DEF RunsFrom
  <2>6. r[1] <= 1
    BY <1>1, <1>2, <2>5, RunTexts
  <2>7. r[1] \in 1 .. Len(line)
    BY <1>1, <1>4, RunIs
  <2> QED
    BY <2>6, <2>7
<1>6. PICK b \in 1 .. Len(line) : r = <<1, b>>
  BY <1>1, <1>4, <1>5, RunIs
<1>7. PICK t : t = SubSeq(line, 1, b)
  OBVIOUS
<1>8. t \in Seq(S) /\ Len(t) = b /\ t[1] = "["
  <2>1. 1 \in 1 .. Len(line) /\ 1 <= b
    BY <1>6
  <2>2. t = [k \in 1 .. (b - 1) + 1 |-> line[(k + 1) - 1]]
    BY <1>7, <2>1, SubSeqIs
  <2>3. (b - 1) + 1 = b /\ 1 \in 1 .. b /\ (1 + 1) - 1 = 1
    BY <1>6
  <2>4. \A k \in 1 .. b : line[(k + 1) - 1] \in S
    BY <1>6
  <2>5. t = [k \in 1 .. b |-> line[(k + 1) - 1]]
    BY <2>2, <2>3
  <2>6. b \in Nat
    OBVIOUS
  <2>7. t \in Seq(S) /\ Len(t) = b
    BY <2>4, <2>5, <2>6
  <2> QED
    BY <2>3, <2>5, <2>7
<1>9. PICK i, j \in 0 .. Len(t) :
        /\ Trim(t) = SubSeq(t, i + 1, j)
        /\ \A k \in DOMAIN t : (k <= i \/ k > j) => t[k] \in Blank
  BY <1>8, TrimIs
<1>10. 1 \in DOMAIN t /\ t[1] \notin Blank
  BY <1>6, <1>8 DEF Blank
<1>11. i = 0 /\ 1 <= j /\ j \in 1 .. Len(t)
  BY <1>8, <1>9, <1>10
<1>12. Trim(t) = [k \in 1 .. (j - 1) + 1 |-> t[(k + 1) - 1]]
  <2>1. 1 \in 1 .. Len(t) /\ i + 1 = 1
    BY <1>11
  <2> QED
    BY <1>8, <1>9, <1>11, <2>1, SubSeqIs
<1>13. Trim(t)[1] = "["
  <2>1. 1 \in 1 .. (j - 1) + 1 /\ (1 + 1) - 1 = 1
    BY <1>11
  <2> QED
    BY <1>8, <1>12, <2>1
<1>14. TextOf(line, r) = Trim(t)
  BY <1>6, <1>7 DEF TextOf
<1> QED
  BY <1>13, <1>14

BackLoop(n, on, base, f) == f = [j \in 0 .. n |-> IF j \in on THEN f[j - 1] ELSE base[j]]

\* A backward loop returns the value of the last place it does not pass over.
LEMMA BackScanned ==
  ASSUME NEW n \in Nat, NEW on \in SUBSET (1 .. n), NEW base, NEW f, BackLoop(n, on, base, f)
  PROVE  \E j \in 0 .. n : /\ j \notin on /\ f[n] = base[j]
                           /\ \A k \in j + 1 .. n : k \in on
<1>1. PICK D : D = 0 .. n
  OBVIOUS
<1>2. PICK rank \in [D -> Nat] : rank = [j \in D |-> j]
  <2>1. [j \in D |-> j] \in [D -> Nat]
    BY <1>1
  <2> QED
    BY <2>1
<1>3. PICK S : S = {i \in D : \E j \in 0 .. i : /\ j \notin on /\ f[i] = base[j]
                                                /\ \A k \in j + 1 .. i : k \in on}
  OBVIOUS
<1>4. ASSUME NEW i \in D, \A y \in D : rank[y] < rank[i] => y \in S PROVE i \in S
  <2>1. f[i] = IF i \in on THEN f[i - 1] ELSE base[i]
    BY <1>1 DEF BackLoop
  <2>2. CASE i \in on
    <3>1. i - 1 \in D /\ rank[i - 1] < rank[i]
      BY <1>1, <1>2, <2>2
    <3>2. PICK j \in 0 .. i - 1 : /\ j \notin on /\ f[i - 1] = base[j]
                                  /\ \A k \in j + 1 .. i - 1 : k \in on
      BY <1>3, <1>4, <3>1
    <3>3. j \in 0 .. i /\ f[i] = base[j] /\ \A k \in j + 1 .. i : k = i \/ k \in j + 1 .. i - 1
      BY <1>1, <2>1, <2>2, <3>2
    <3> QED
      BY <1>3, <2>2, <3>2, <3>3
  <2>3. CASE i \notin on
    <3>1. i \in 0 .. i /\ \A k \in i + 1 .. i : k \in on
      BY <1>1
    <3> QED
      BY <1>3, <2>1, <2>3, <3>1
  <2> QED
    BY <2>2, <2>3
<1>5. D \subseteq S
  BY <1>4, CloserInduction
<1>6. n \in D
  BY <1>1
<1> QED
  BY <1>3, <1>5, <1>6

LEMMA BackLoopHasValues ==
  ASSUME NEW n \in Nat, NEW on \in SUBSET (1 .. n), NEW base
  PROVE  \E f : BackLoop(n, on, base, f)
<1>1. PICK at : BackScan(n, on, at)
  BY BackScanHasValues
<1>2. at = [j \in 0 .. n |-> IF j \in on THEN at[j - 1] ELSE j]
  BY <1>1 DEF BackScan
<1>3. PICK f : f = [j \in 0 .. n |-> base[at[j]]]
  OBVIOUS
<1>4. ASSUME NEW j \in 0 .. n PROVE f[j] = IF j \in on THEN f[j - 1] ELSE base[j]
  <2>1. CASE j \in on
    <3>1. j - 1 \in 0 .. n /\ at[j] = at[j - 1]
      BY <1>2, <2>1
    <3> QED
      BY <1>3, <2>1, <3>1
  <2>2. CASE j \notin on
    BY <1>2, <1>3, <2>2
  <2> QED
    BY <2>1, <2>2
<1>5. BackLoop(n, on, base, f)
  BY <1>3, <1>4 DEF BackLoop
<1> QED
  BY <1>5

\* The value of a field after the lines of a range: that of the last one which says something.
LEMMA LocatedValue ==
  ASSUME NEW S, NULL \notin Seq(S), NEW lines, NEW field, NEW old,
         NEW a \in Nat, NEW b \in Nat, a >= 1, \A i \in a .. b : lines[i] \in Seq(S)
  PROVE  LocateValue(lines, [start |-> a, end |-> b], field, old) = LastRead(lines, a .. b, field, old)
<1> PICK where : where = {i \in a .. b : Reads(lines[i], field) # NULL}
  OBVIOUS
<1>0. SUFFICES LocateValue(lines, [start |-> a, end |-> b], field, old) =
                 IF where = {} THEN old ELSE Reads(lines[Greatest(where)], field)
  BY DEF LastRead
<1> DEFINE Pair(i)     == Split(lines[i], {"=", "#"}, 2, FALSE)
           Assigns(i)  == Len(Pair(i)) = 2 /\ Trim(Pair(i)[1]) = <<field>>
           Assigned(i) == Replace(Trim(Pair(i)[2]), <<"\"">>, <<>>)
           Values(f)   == f = [i \in 0 .. b |-> IF i < a THEN old
                                                ELSE IF Assigns(i) THEN Assigned(i) ELSE f[i - 1]]
<1>1. PICK on \in SUBSET (1 .. b) : on = {i \in a .. b : ~Assigns(i)}
  <2>1. \A i \in a .. b : i \in 1 .. b
    OBVIOUS
  <2> HIDE DEF Assigns
  <2>2. {i \in a .. b : ~Assigns(i)} \in SUBSET (1 .. b)
    BY <2>1
  <2> QED
    BY <2>2
<1>2. PICK base : base = [i \in 0 .. b |-> IF i < a THEN old ELSE Assigned(i)]
  OBVIOUS
<1>3. ASSUME NEW i \in a .. b
      PROVE  IF Assigns(i) THEN Reads(lines[i], field) = Assigned(i) /\ Reads(lines[i], field) # NULL
                           ELSE Reads(lines[i], field) = NULL
  BY AssignedIsSaid
<1> HIDE DEF Assigns, Assigned
<1>4. ASSUME NEW f PROVE Values(f) <=> BackLoop(b, on, base, f)
  <2>1. ASSUME NEW i \in 0 .. b
        PROVE  (IF i < a THEN old ELSE IF Assigns(i) THEN Assigned(i) ELSE f[i - 1]) =
                 (IF i \in on THEN f[i - 1] ELSE base[i])
    BY <1>1, <1>2
  <2>2. [i \in 0 .. b |-> IF i < a THEN old ELSE IF Assigns(i) THEN Assigned(i) ELSE f[i - 1]] =
          [i \in 0 .. b |-> IF i \in on THEN f[i - 1] ELSE base[i]]
    BY <2>1
  <2> QED
    BY <2>2 DEF BackLoop
<1>5. PICK value : value = CHOOSE f : Values(f)
  OBVIOUS
<1>6. Values(value)
  <2>1. PICK f : BackLoop(b, on, base, f)
    BY BackLoopHasValues
  <2> HIDE DEF Values
  <2>2. Values(f)
    BY <1>4, <2>1
  <2> QED
    BY <1>5, <2>2
<1>7. LocateValue(lines, [start |-> a, end |-> b], field, old) = value[b]
  BY <1>5 DEF LocateValue, Assigns, Assigned
<1>8. PICK j \in 0 .. b : /\ j \notin on /\ value[b] = base[j]
                          /\ \A k \in j + 1 .. b : k \in on
  <2> HIDE DEF Values
  <2>1. BackLoop(b, on, base, value)
    BY <1>4, <1>6
  <2> QED
    BY <2>1, BackScanned
<1>9. CASE where = {}
  <2>1. \A i \in a .. b : i \in on
    BY <1>1, <1>3, <1>9
  <2>2. j < a
    BY <1>8, <2>1
  <2> QED
    BY <1>2, <1>7, <1>8, <1>9, <2>2
<1>10. CASE where # {}
  <2>1. PICK g : g = Greatest(where)
    OBVIOUS
  <2>2. g \in where /\ \A k \in where : k <= g
    <3>1. where \in SUBSET (0 .. b)
      OBVIOUS
    <3> QED
      BY <1>10, <2>1, <3>1, GreatestIs
  <2>3. \A i \in a .. b : i \in on <=> i \notin where
    BY <1>1, <1>3
  <2>4. g \in a .. b /\ g \notin on
    BY <2>2, <2>3
  <2>5. ~(j < g)
    <3>1. j < g => g \in j + 1 .. b
      BY <2>4
    <3> QED
      BY <1>8, <2>4, <3>1
  <2>6. j \in a .. b
    BY <2>4, <2>5
  <2>7. j \in where
    BY <1>8, <2>3, <2>6
  <2>8. j = g
    BY <2>2, <2>4, <2>5, <2>7
  <2>9. base[g] = Assigned(g) /\ Assigns(g)
    BY <1>1, <1>2, <2>4
  <2>10. Reads(lines[g], field) = Assigned(g)
    BY <1>3, <2>4, <2>9
  <2> QED
    BY <1>7, <1>8, <1>10, <2>1, <2>8, <2>9, <2>10
<1> QED
  BY <1>9, <1>10

----------------------------------------------------------------------------
(* Sections                                                                 *)

HeaderLines(lines) == {i \in DOMAIN lines : lines[i][1] = "["}
ReadTitle(line)    == TextOf(line, Nth(Runs(line, {"[", "]", "#"}), 1))
Named(lines, tag) ==
  {i \in HeaderLines(lines) : Runs(lines[i], {"[", "]", "#"}) # {} /\ ReadTitle(lines[i]) = tag}

\* The section locate_tag() finds: the first of its name.
ReadSection(lines, tag) ==
  LET headers == HeaderLines(lines)
      named   == Named(lines, tag)
  IN IF tag = NULL \/ named = {} THEN {}
     ELSE {i \in DOMAIN lines \ headers :
             /\ \E h \in headers : h <= i
             /\ Greatest({h \in headers : h <= i}) = Least(named)}

LEMMA NamesIs ==
  ASSUME NEW S, NEW line \in Seq(S), NEW tag
  PROVE  Names(line, tag) <=> Runs(line, {"[", "]", "#"}) # {} /\ ReadTitle(line) = tag
<1>1. PICK runs : runs = Runs(line, {"[", "]", "#"})
  OBVIOUS
<1>2. PICK c \in Nat : c = Cardinality(runs)
  BY <1>1, RunTexts
<1>3. runs = {} <=> c = 0
  BY <1>1, <1>2, RunTexts
<1>4. PICK want : want = IF 1 < 0 \/ Cardinality(runs) < 1 THEN Cardinality(runs) ELSE 1
  OBVIOUS
<1>5. PICK p : p = Split(line, {"[", "]", "#"}, 1, FALSE)
  OBVIOUS
<1>6. /\ Len(p) = want
      /\ \A n \in 1 .. want : p[n] = SubSeq(line, Nth(runs, n)[1], Nth(runs, n)[2])
  <2>1. ASSUME NEW remainder \in BOOLEAN, ~remainder, NEW q, q = Split(line, {"[", "]", "#"}, 1, remainder)
        PROVE  /\ Len(q) = want
               /\ \A n \in 1 .. want : q[n] = SubSeq(line, Nth(runs, n)[1], Nth(runs, n)[2])
    <3>1. 1 \in Int
      OBVIOUS
    <3>2. /\ Len(q) = want
          /\ \A n \in 1 .. want :
               LET r == Nth(runs, n)
               IN q[n] = SubSeq(line, r[1], IF n = 1 /\ remainder THEN Len(line) ELSE r[2])
      BY <1>1, <1>4, <2>1, <3>1, SplitCorrectFor
    <3> QED
      BY <2>1, <3>2
  <2>2. FALSE \in BOOLEAN
    OBVIOUS
  <2> QED
    BY <1>5, <2>1, <2>2
<1>7. want = IF c = 0 THEN 0 ELSE 1
  BY <1>2, <1>4
<1>8. CASE c = 0
  <2>1. Len(p) # 1
    <3>1. Len(p) = 0
      BY <1>6, <1>7, <1>8
    <3> QED
      BY <3>1
  <2> QED
    BY <1>1, <1>3, <1>5, <1>8, <2>1 DEF Names
<1>9. CASE c # 0
  <2>1. want = 1 /\ Len(p) = 1 /\ 1 \in 1 .. want
    BY <1>6, <1>7, <1>9
  <2>2. Trim(p[1]) = TextOf(line, Nth(runs, 1))
    BY <1>6, <2>1 DEF TextOf
  <2> QED
    BY <1>1, <1>3, <1>5, <1>9, <2>1, <2>2 DEF Names, ReadTitle
<1> QED
  BY <1>8, <1>9

\* A scan that stops at n at the latest.
Forward(n, on, f) == f = [i \in 1 .. n + 1 |-> IF i >= n THEN n ELSE IF i \in on THEN f[i + 1] ELSE i]

LEMMA ForwardHasValues ==
  ASSUME NEW n \in Nat, n >= 1, NEW on \in SUBSET (1 .. n)
  PROVE  \E f : Forward(n, on, f)
<1>1. PICK off \in SUBSET (1 .. n) : off = on \ {n}
  OBVIOUS
<1>2. PICK at : Scan(n, off, at)
  BY ScanHasValues
<1>3. at = [j \in 1 .. n + 1 |-> IF j \in off THEN at[j + 1] ELSE j]
  BY <1>2 DEF Scan
<1>4. PICK f : f = [i \in 1 .. n + 1 |-> IF i > n THEN n ELSE at[i]]
  OBVIOUS
<1>5. ASSUME NEW i \in 1 .. n + 1 PROVE f[i] = IF i >= n THEN n ELSE IF i \in on THEN f[i + 1] ELSE i
  <2>1. CASE i > n
    BY <1>4, <2>1
  <2>2. CASE i = n
    BY <1>1, <1>3, <1>4, <2>2
  <2>3. CASE i < n
    <3>1. i + 1 \in 1 .. n + 1 /\ ~(i + 1 > n) /\ ~(i > n) /\ ~(i >= n)
      BY <2>3
    <3>2. f[i] = at[i] /\ f[i + 1] = at[i + 1]
      BY <1>4, <3>1
    <3>3. at[i] = IF i \in on THEN at[i + 1] ELSE i
      BY <1>1, <1>3, <2>3
    <3> QED
      BY <3>1, <3>2, <3>3
  <2> QED
    BY <2>1, <2>2, <2>3
<1>6. Forward(n, on, f)
  BY <1>4, <1>5 DEF Forward
<1> QED
  BY <1>6

LEMMA ForwardIs ==
  ASSUME NEW n \in Nat, n >= 1, NEW on \in SUBSET (1 .. n), NEW f, Forward(n, on, f),
         NEW i \in 1 .. n
  PROVE  /\ f[i] \in i .. n /\ (f[i] = n \/ f[i] \notin on)
         /\ \A k \in i .. f[i] - 1 : k \in on
<1>1. PICK off \in SUBSET (1 .. n) : off = on \ {n}
  OBVIOUS
<1>2. \A j \in 1 .. n + 1 : f[j] = IF j >= n THEN n ELSE IF j \in on THEN f[j + 1] ELSE j
  BY DEF Forward
<1>3. PICK at : at = [j \in 1 .. n + 1 |-> IF j > n THEN j ELSE f[j]]
  OBVIOUS
<1>4. ASSUME NEW j \in 1 .. n + 1 PROVE at[j] = IF j \in off THEN at[j + 1] ELSE j
  <2>1. CASE j > n
    BY <1>1, <1>3, <2>1
  <2>2. CASE j = n
    BY <1>1, <1>2, <1>3, <2>2
  <2>3. CASE j < n
    <3>1. j + 1 \in 1 .. n + 1 /\ ~(j + 1 > n) /\ ~(j > n) /\ ~(j >= n)
      BY <2>3
    <3>2. at[j] = f[j] /\ at[j + 1] = f[j + 1]
      BY <1>3, <3>1
    <3>3. f[j] = IF j \in on THEN f[j + 1] ELSE j
      BY <1>2, <3>1
    <3> QED
      BY <1>1, <2>3, <3>2, <3>3
  <2> QED
    BY <2>1, <2>2, <2>3
<1>5. Scan(n, off, at)
  BY <1>3, <1>4 DEF Scan
<1>6. i \in 1 .. n + 1 /\ at[i] = f[i]
  BY <1>3
<1>7. at[i] \in i .. n + 1 /\ at[i] \notin off /\ \A k \in i .. at[i] - 1 : k \in off
  BY <1>5, <1>6, ScanIs
<1>8. at[i] # n + 1
  <2>1. SUFFICES ASSUME at[i] = n + 1 PROVE FALSE
    OBVIOUS
  <2>2. n \in i .. at[i] - 1
    BY <2>1
  <2> QED
    BY <1>1, <1>7, <2>2
<1> QED
  BY <1>1, <1>6, <1>7, <1>8

\* A section reaches from its first header to the next header, or to the last line.
Reaches(lines, a, b) ==
  /\ a \in Nat /\ b \in Nat /\ a <= b /\ b <= Len(lines)
  /\ b = Len(lines) \/ b \in HeaderLines(lines)
  /\ a < Len(lines) => a < b
  /\ \A k \in a + 1 .. b - 1 : k \notin HeaderLines(lines)

LEMMA LocatedTag ==
  ASSUME NEW S, NEW lines \in Seq(Seq(S) \ {<<>>}), NEW tag, NEW N, N = Named(lines, tag)
  PROVE  IF N = {} THEN LocateTag(lines, tag) = NULL
         ELSE \E b : Reaches(lines, Least(N), b) /\ LocateTag(lines, tag) = [start |-> Least(N), end |-> b]
<1>1. PICK n \in Nat : n = Len(lines)
  OBVIOUS
<1>2. \A i \in 1 .. n : lines[i] \in Seq(S) /\ lines[i] # <<>>
  BY <1>1
<1>3. PICK H \in SUBSET (1 .. n) : H = HeaderLines(lines)
  <2>1. HeaderLines(lines) \in SUBSET (1 .. n)
    BY <1>1 DEF HeaderLines
  <2> QED
    BY <2>1
<1>4. \A i \in 1 .. n : IsTag(lines[i]) <=> i \in H
  BY <1>1, <1>2, <1>3 DEF IsTag, HeaderLines
<1>5. \A i \in 1 .. n : (IsTag(lines[i]) /\ Names(lines[i], tag)) <=> i \in N
  BY <1>2, <1>3, <1>4, NamesIs DEF Named
<1>6. N \in SUBSET (1 .. n) /\ N \subseteq H
  BY <1>3 DEF Named
<1> DEFINE First(f) == f = [i \in 1 .. n + 1 |->
                             IF i > n \/ (IsTag(lines[i]) /\ Names(lines[i], tag)) THEN i ELSE f[i + 1]]
           Nxt(f)   == f = [i \in 1 .. n + 1 |-> IF i >= n THEN n ELSE IF IsTag(lines[i]) THEN i ELSE f[i + 1]]
<1>7. PICK on \in SUBSET (1 .. n) : on = (1 .. n) \ N
  OBVIOUS
<1>8. ASSUME NEW f PROVE First(f) <=> Scan(n, on, f)
  <2>1. ASSUME NEW i \in 1 .. n + 1
        PROVE  (i > n \/ (IsTag(lines[i]) /\ Names(lines[i], tag))) <=> i \notin on
    BY <1>5, <1>7
  <2> QED
    BY <2>1 DEF Scan
<1>9. PICK off \in SUBSET (1 .. n) : off = (1 .. n) \ H
  OBVIOUS
<1>10. ASSUME NEW f PROVE Nxt(f) <=> Forward(n, off, f)
  <2>1. ASSUME NEW i \in 1 .. n + 1, ~(i >= n) PROVE IsTag(lines[i]) <=> i \notin off
    BY <1>4, <1>9, <2>1
  <2>2. [i \in 1 .. n + 1 |-> IF i >= n THEN n ELSE IF IsTag(lines[i]) THEN i ELSE f[i + 1]] =
        [i \in 1 .. n + 1 |-> IF i >= n THEN n ELSE IF i \in off THEN f[i + 1] ELSE i]
    BY <2>1
  <2> QED
    BY <2>2 DEF Forward
<1>11. PICK first : first = CHOOSE f : First(f)
  OBVIOUS
<1>12. PICK next : next = CHOOSE f : Nxt(f)
  OBVIOUS
<1>13. LocateTag(lines, tag) = IF first[1] > n THEN NULL ELSE [start |-> first[1], end |-> next[first[1] + 1]]
  BY <1>1, <1>11, <1>12 DEF LocateTag
<1> HIDE DEF First, Nxt
<1>14. Scan(n, on, first)
  BY <1>8, <1>11, ScanHasValues
<1>15. first[1] \in 1 .. n + 1 /\ first[1] \notin on /\ \A k \in 1 .. first[1] - 1 : k \in on
  <2>1. 1 \in 1 .. n + 1
    OBVIOUS
  <2> QED
    BY <1>14, <2>1, ScanIs
<1>16. CASE N = {}
  <2>1. first[1] > n
    BY <1>7, <1>15, <1>16
  <2> QED
    BY <1>13, <1>16, <2>1
<1>17. CASE N # {}
  <2>1. PICK a : a = Least(N)
    OBVIOUS
  <2>2. a \in N /\ \A k \in N : a <= k
    <3>1. N \in SUBSET Nat
      BY <1>6
    <3> QED
      BY <1>17, <2>1, <3>1, LeastIs
  <2>3. a \in 1 .. n /\ a \notin on
    BY <1>6, <1>7, <2>2
  <2>4. first[1] = a
    <3>1. ~(a < first[1])
      <4>1. a < first[1] => a \in 1 .. first[1] - 1
        BY <1>15, <2>3
      <4> QED
        BY <1>15, <2>3, <4>1
    <3>2. first[1] \in N
      BY <1>7, <1>15, <2>3, <3>1
    <3> QED
      BY <1>15, <2>2, <2>3, <3>1, <3>2
  <2>5. n >= 1
    BY <2>3
  <2>6. Forward(n, off, next)
    <3>1. PICK f : Forward(n, off, f)
      BY <2>5, ForwardHasValues
    <3> QED
      BY <1>10, <1>12, <3>1
  <2>7. PICK b : b = next[a + 1]
    OBVIOUS
  <2>8. b \in Nat /\ a <= b /\ b <= n /\ (a < n => a < b) /\ (b = n \/ b \in H)
        /\ \A k \in a + 1 .. b - 1 : k \notin H
    <3>1. CASE a = n
      <4>1. next[n + 1] = n
        BY <2>5, <2>6 DEF Forward
      <4> QED
        BY <2>7, <3>1, <4>1
    <3>2. CASE a # n
      <4>1. a + 1 \in 1 .. n
        BY <2>3, <3>2
      <4>2. /\ b \in a + 1 .. n /\ (b = n \/ b \notin off)
            /\ \A k \in a + 1 .. b - 1 : k \in off
        BY <2>5, <2>6, <2>7, <4>1, ForwardIs
      <4> QED
        BY <1>9, <2>3, <4>2
    <3> QED
      BY <3>1, <3>2
  <2>9. Reaches(lines, a, b)
    BY <1>1, <1>3, <2>3, <2>8 DEF Reaches
  <2>10. LocateTag(lines, tag) = [start |-> a, end |-> b]
    BY <1>13, <2>3, <2>4, <2>7
  <2> QED
    BY <1>17, <2>1, <2>9, <2>10
<1> QED
  BY <1>16, <1>17

\* The lines that belong to a section are those from its header on that are no headers.
LEMMA SectionIs ==
  ASSUME NEW S, NEW lines \in Seq(Seq(S) \ {<<>>}), NEW tag, tag # NULL, NEW N, N = Named(lines, tag)
  PROVE  /\ N = {} => ReadSection(lines, tag) = {}
         /\ \A b : N # {} /\ Reaches(lines, Least(N), b) =>
              ReadSection(lines, tag) = {i \in Least(N) .. b : i \notin HeaderLines(lines)}
<1>1. PICK n \in Nat : n = Len(lines)
  OBVIOUS
<1>2. DOMAIN lines = 1 .. n
  BY <1>1
<1>3. PICK H \in SUBSET (1 .. n) : H = HeaderLines(lines)
  <2>1. HeaderLines(lines) \in SUBSET (1 .. n)
    BY <1>1 DEF HeaderLines
  <2> QED
    BY <2>1
<1>4. N \in SUBSET H
  BY <1>3 DEF Named
<1>5. ReadSection(lines, tag) = IF N = {} THEN {}
                            ELSE {i \in (1 .. n) \ H : /\ \E h \in H : h <= i
                                                       /\ Greatest({h \in H : h <= i}) = Least(N)}
  BY <1>2, <1>3 DEF ReadSection, HeaderLines
<1>6. SUFFICES ASSUME N # {}, NEW b, Reaches(lines, Least(N), b)
               PROVE  ReadSection(lines, tag) = {i \in Least(N) .. b : i \notin H}
  BY <1>3, <1>5
<1>7. PICK a : a = Least(N)
  OBVIOUS
<1>8. a \in N /\ a \in H /\ a \in 1 .. n
  <2>1. N \in SUBSET Nat
    BY <1>3, <1>4
  <2> QED
    BY <1>3, <1>4, <1>6, <1>7, <2>1, LeastIs
<1>9. /\ b \in Nat /\ a <= b /\ b <= n /\ (b = n \/ b \in H) /\ (a < n => a < b)
      /\ \A k \in a + 1 .. b - 1 : k \notin H
  BY <1>1, <1>3, <1>6, <1>7 DEF Reaches
<1>10. ASSUME NEW i \in (1 .. n) \ H
       PROVE  ((\E h \in H : h <= i) /\ Greatest({h \in H : h <= i}) = a) <=> i \in a .. b
  <2> i \in Nat
    OBVIOUS
  <2>1. PICK T \in SUBSET (0 .. i) : T = {h \in H : h <= i}
    <3>1. {h \in H : h <= i} \in SUBSET (0 .. i)
      BY <1>3
    <3> QED
      BY <3>1
  <2>2. CASE i \in a .. b
    <3>1. a \in T
      BY <1>8, <2>1, <2>2
    <3>2. ASSUME NEW h \in T PROVE h <= a
      <4>1. h \in H /\ h <= i /\ h \in 1 .. n
        BY <1>3, <2>1
      <4>2. h # i
        BY <4>1
      <4>3. h \in a + 1 .. b - 1 => h \notin H
        BY <1>9
      <4> QED
        BY <1>8, <1>9, <2>2, <4>1, <4>2, <4>3
    <3>3. Greatest(T) \in T /\ \A k \in T : k <= Greatest(T)
      <4>1. T # {}
        BY <3>1
      <4> QED
        BY <4>1, GreatestIs
    <3>4. Greatest(T) = a
      BY <1>8, <2>1, <3>1, <3>2, <3>3
    <3> QED
      BY <2>1, <2>2, <3>1, <3>4
  <2>3. ASSUME \E h \in H : h <= i, Greatest(T) = a PROVE i \in a .. b
    <3>1. T # {}
      BY <2>1, <2>3
    <3>2. a \in T /\ \A k \in T : k <= a
      BY <2>3, <3>1, GreatestIs
    <3>3. a <= i
      BY <2>1, <3>2
    <3>4. ~(b < i)
      <4>1. SUFFICES ASSUME b < i PROVE FALSE
        OBVIOUS
      <4>2. b \in H /\ b <= i
        BY <1>9, <4>1
      <4>3. b <= a
        BY <2>1, <3>2, <4>2
      <4>4. ~(a < n)
        BY <1>8, <1>9, <4>3
      <4> QED
        BY <1>8, <1>9, <4>1, <4>4
    <3> QED
      BY <1>8, <1>9, <3>3, <3>4
  <2> QED
    BY <2>1, <2>2, <2>3
<1>11. ReadSection(lines, tag) = {i \in (1 .. n) \ H : i \in a .. b}
  BY <1>5, <1>6, <1>7, <1>10
<1>12. \A i \in a .. b : i \in 1 .. n
  BY <1>8, <1>9
<1> QED
  BY <1>7, <1>11, <1>12

\* What filling in a section does to each field.
LEMMA FilledIs ==
  ASSUME NEW S, NULL \notin Seq(S), NULL \notin [start : Nat, end : Nat],
         NEW lines \in Seq(Seq(S) \ {<<>>}), NEW tag, NEW params, NEW which, "[" \notin which,
         NEW after, after = FillFrom(params, lines, tag, which)
  PROVE  /\ DOMAIN after = DOMAIN params
         /\ \A f \in DOMAIN params :
              after[f] = IF f \in which THEN LastRead(lines, ReadSection(lines, tag), f, params[f]) ELSE params[f]
<1>1. ASSUME after = params, ReadSection(lines, tag) = {}
      PROVE  /\ DOMAIN after = DOMAIN params
             /\ \A f \in DOMAIN params :
                  after[f] = IF f \in which THEN LastRead(lines, ReadSection(lines, tag), f, params[f]) ELSE params[f]
  <2>1. ASSUME NEW f, NEW old PROVE LastRead(lines, {}, f, old) = old
    BY DEF LastRead
  <2> QED
    BY <1>1, <2>1
<1>2. CASE tag = NULL
  <2>1. after = params
    BY <1>2 DEF FillFrom, FillIn
  <2>2. ReadSection(lines, tag) = {}
    BY <1>2 DEF ReadSection
  <2> QED
    BY <1>1, <2>1, <2>2
<1>3. PICK N : N = Named(lines, tag)
  OBVIOUS
<1>4. CASE tag # NULL /\ N = {}
  <2>1. LocateTag(lines, tag) = NULL
    BY <1>3, <1>4, LocatedTag
  <2>2. after = params
    BY <1>4, <2>1 DEF FillFrom, FillIn
  <2>3. ReadSection(lines, tag) = {}
    BY <1>3, <1>4, SectionIs
  <2> QED
    BY <1>1, <2>2, <2>3
<1>5. CASE tag # NULL /\ N # {}
  <2>1. PICK a : a = Least(N)
    OBVIOUS
  <2>2. PICK b : Reaches(lines, a, b) /\ LocateTag(lines, tag) = [start |-> a, end |-> b]
    BY <1>3, <1>5, <2>1, LocatedTag
  <2>3. /\ a \in Nat /\ b \in Nat /\ a <= b /\ b <= Len(lines) /\ Len(lines) \in Nat
    BY <2>2 DEF Reaches
  <2>4. a >= 1
    <3>1. N \in SUBSET Nat /\ \A i \in N : i >= 1
      BY <1>3 DEF Named, HeaderLines
    <3> QED
      BY <1>5, <2>1, <3>1, LeastIs
  <2>5. ASSUME NEW i \in a .. b PROVE i \in 1 .. Len(lines) /\ lines[i] \in Seq(S) /\ lines[i] # <<>>
    <3>1. i \in 1 .. Len(lines)
      BY <2>3, <2>4
    <3> QED
      BY <3>1
  <2>6. PICK section : section = ReadSection(lines, tag)
    OBVIOUS
  <2>7. section = {i \in a .. b : i \notin HeaderLines(lines)}
    BY <1>3, <1>5, <2>1, <2>2, <2>6, SectionIs
  <2>8. after = Fill(params, lines, [start |-> a, end |-> b], which)
    <3>1. [start |-> a, end |-> b] # NULL
      BY <2>3
    <3> QED
      BY <1>5, <2>2, <3>1 DEF FillFrom, FillIn
  <2>9. DOMAIN after = DOMAIN params
    BY <2>8 DEF Fill
  <2>10. ASSUME NEW f \in DOMAIN params, f \in which
         PROVE  after[f] = LastRead(lines, section, f, params[f])
    <3>1. after[f] = LocateValue(lines, [start |-> a, end |-> b], f, params[f])
      BY <2>8, <2>10 DEF Fill
    <3>2. PICK where : where = {i \in a .. b : Reads(lines[i], f) # NULL}
      OBVIOUS
    <3>3. after[f] = IF where = {} THEN params[f] ELSE Reads(lines[Greatest(where)], f)
      <4>1. \A i \in a .. b : lines[i] \in Seq(S)
        BY <2>5
      <4>2. LocateValue(lines, [start |-> a, end |-> b], f, params[f]) = LastRead(lines, a .. b, f, params[f])
        BY <2>3, <2>4, <4>1, LocatedValue
      <4> QED
        BY <3>1, <3>2, <4>2 DEF LastRead
    <3>4. ASSUME NEW i \in a .. b, i \in HeaderLines(lines) PROVE Reads(lines[i], f) = NULL
      <4>1. lines[i][1] = "[" /\ f # "["
        BY <2>10, <3>4 DEF HeaderLines
      <4> QED
        BY <2>5, <4>1, HeaderSaysNothing
    <3>5. where = {i \in section : Reads(lines[i], f) # NULL}
      BY <2>7, <3>2, <3>4
    <3> QED
      BY <3>3, <3>5 DEF LastRead
  <2>11. ASSUME NEW f \in DOMAIN params, f \notin which PROVE after[f] = params[f]
    BY <2>8, <2>11 DEF Fill
  <2> QED
    BY <2>6, <2>9, <2>10, <2>11
<1> QED
  BY <1>2, <1>4, <1>5

\* The values of a section that may not be named, or not be there.
ReadValue(lines, tag, f) == LastRead(lines, ReadSection(lines, tag), f, NULL)

LEMMA ReqFieldsDiffer ==
  /\ ReqFields \intersect NameFields = {}
  /\ ReqFields \intersect ExtensionFields = {}
  /\ NameFields \intersect ExtensionFields = {}
  /\ "[" \notin ReqFields \union NameFields \union ExtensionFields
BY DEF ReqFields, NameFields, ExtensionFields

LEMMA CAFieldsDiffer ==
  /\ CAFields \intersect ExtensionFields = {}
  /\ "default_ca" \notin CAFields \union ExtensionFields
  /\ "[" \notin CAFields \union ExtensionFields
BY DEF CAFields, ExtensionFields

LEMMA ParsedRequest ==
  ASSUME NEW S, NULL \notin Seq(S), NULL \notin [start : Nat, end : Nat],
         NEW L \in Seq(Seq(S) \ {<<>>}), NEW result, result = ParseCSR(L)
  PROVE  /\ DOMAIN result = ReqFields \union NameFields \union ExtensionFields
         /\ \A f \in ReqFields : result[f] = ReadValue(L, <<"req">>, f)
         /\ \A f \in NameFields : result[f] = ReadValue(L, ReadValue(L, <<"req">>, "distinguished_name"), f)
         /\ \A f \in ExtensionFields : result[f] = ReadValue(L, ReadValue(L, <<"req">>, "x509_extensions"), f)
<1>1. PICK D : D = ReqFields \union NameFields \union ExtensionFields
  OBVIOUS
<1>2. PICK none : none = Unset("CSR")
  OBVIOUS
<1>3. DOMAIN none = D /\ \A f \in D : none[f] = NULL
  BY <1>1, <1>2 DEF Unset
<1>4. PICK req : req = FillFrom(none, L, <<"req">>, ReqFields)
  OBVIOUS
<1>5. PICK names : names = FillFrom(req, L, req["distinguished_name"], NameFields)
  OBVIOUS
<1>6. result = FillFrom(names, L, names["x509_extensions"], ExtensionFields)
  BY <1>2, <1>4, <1>5 DEF ParseCSR, FillBy
<1>7. /\ DOMAIN req = D
      /\ \A f \in D : req[f] = IF f \in ReqFields THEN ReadValue(L, <<"req">>, f) ELSE NULL
  <2>1. "[" \notin ReqFields
    BY ReqFieldsDiffer
  <2>2. /\ DOMAIN req = DOMAIN none
        /\ \A f \in DOMAIN none :
             req[f] = IF f \in ReqFields THEN LastRead(L, ReadSection(L, <<"req">>), f, none[f]) ELSE none[f]
    BY <1>4, <2>1, FilledIs
  <2> QED
    BY <1>3, <2>2 DEF ReadValue
<1>8. PICK dn, ext : dn = req["distinguished_name"] /\ ext = req["x509_extensions"]
  OBVIOUS
<1>9. /\ "distinguished_name" \in ReqFields /\ "x509_extensions" \in ReqFields
      /\ dn = ReadValue(L, <<"req">>, "distinguished_name")
      /\ ext = ReadValue(L, <<"req">>, "x509_extensions")
  <2>1. "distinguished_name" \in ReqFields /\ "x509_extensions" \in ReqFields
    BY DEF ReqFields
  <2> QED
    BY <1>1, <1>7, <1>8, <2>1
<1>10. /\ DOMAIN names = D
       /\ \A f \in D : names[f] = IF f \in NameFields THEN ReadValue(L, dn, f) ELSE req[f]
  <2>1. "[" \notin NameFields
    BY ReqFieldsDiffer
  <2>2. /\ DOMAIN names = DOMAIN req
        /\ \A f \in DOMAIN req :
             names[f] = IF f \in NameFields THEN LastRead(L, ReadSection(L, dn), f, req[f]) ELSE req[f]
    BY <1>5, <1>8, <2>1, FilledIs
  <2>3. \A f \in D : f \in NameFields => req[f] = NULL
    BY <1>7, ReqFieldsDiffer
  <2> QED
    BY <1>7, <2>2, <2>3 DEF ReadValue
<1>11. names["x509_extensions"] = ext
  BY <1>1, <1>8, <1>9, <1>10, ReqFieldsDiffer
<1>12. /\ DOMAIN result = D
       /\ \A f \in D : result[f] = IF f \in ExtensionFields THEN ReadValue(L, ext, f) ELSE names[f]
  <2>1. "[" \notin ExtensionFields
    BY ReqFieldsDiffer
  <2>2. /\ DOMAIN result = DOMAIN names
        /\ \A f \in DOMAIN names :
             result[f] = IF f \in ExtensionFields THEN LastRead(L, ReadSection(L, ext), f, names[f]) ELSE names[f]
    BY <1>6, <1>11, <2>1, FilledIs
  <2>3. \A f \in D : f \in ExtensionFields => names[f] = NULL
    BY <1>7, <1>10, ReqFieldsDiffer
  <2> QED
    BY <1>10, <2>2, <2>3 DEF ReadValue
<1>13. ASSUME NEW f \in ReqFields PROVE result[f] = ReadValue(L, <<"req">>, f)
  BY <1>1, <1>7, <1>10, <1>12, ReqFieldsDiffer
<1>14. ASSUME NEW f \in NameFields PROVE result[f] = ReadValue(L, dn, f)
  BY <1>1, <1>10, <1>12, ReqFieldsDiffer
<1>15. ASSUME NEW f \in ExtensionFields PROVE result[f] = ReadValue(L, ext, f)
  BY <1>1, <1>12
<1> QED
  BY <1>1, <1>9, <1>12, <1>13, <1>14, <1>15

\* What the section of the authority gives, and what a configuration file gives in all.
AuthoritySays(L, ca) ==
  \A f \in CAFields : ca[f] = ReadValue(L, ReadValue(L, <<"ca">>, "default_ca"), f)

AuthorityFile(L, ca, result) ==
  /\ DOMAIN result = {"default_ca"} \union CAFields \union ExtensionFields
  /\ \A f \in CAFields : result[f] = ca[f]
  /\ \A f \in ExtensionFields :
       result[f] = LastRead(L, ReadSection(L, ca["crl_extensions"]), f,
                          ReadValue(L, ca["x509_extensions"], f))

LEMMA ParsedAuthority ==
  ASSUME NEW S, NULL \notin Seq(S), NULL \notin [start : Nat, end : Nat],
         NEW L \in Seq(Seq(S) \ {<<>>}), NEW result, result = ParseCRT(L),
         NEW ca, AuthoritySays(L, ca)
  PROVE  AuthorityFile(L, ca, result)
<1>1. PICK D : D = {"default_ca"} \union CAFields \union ExtensionFields
  OBVIOUS
<1>2. PICK none : none = Unset("CRT")
  OBVIOUS
<1>3. DOMAIN none = D /\ \A f \in D : none[f] = NULL
  <2>1. D = ExtensionFields \union ({"default_ca"} \union CAFields)
    BY <1>1
  <2> QED
    BY <1>2, <2>1 DEF Unset
<1>4. PICK first : first = FillFrom(none, L, <<"ca">>, {"default_ca"})
  OBVIOUS
<1>5. PICK all : all = FillFrom(first, L, first["default_ca"], CAFields)
  OBVIOUS
<1>6. PICK cert : cert = FillFrom(all, L, all["x509_extensions"], ExtensionFields)
  OBVIOUS
<1>7. result = FillFrom(cert, L, cert["crl_extensions"], ExtensionFields)
  BY <1>2, <1>4, <1>5, <1>6 DEF ParseCRT, FillBy
<1>8. PICK def : def = first["default_ca"]
  OBVIOUS
<1>9. /\ DOMAIN first = D /\ def = ReadValue(L, <<"ca">>, "default_ca")
      /\ \A f \in D : f # "default_ca" => first[f] = NULL
  <2>1. "[" \notin {"default_ca"} /\ "default_ca" \in D
    BY <1>1
  <2>2. /\ DOMAIN first = DOMAIN none
        /\ \A f \in DOMAIN none :
             first[f] = IF f \in {"default_ca"} THEN LastRead(L, ReadSection(L, <<"ca">>), f, none[f]) ELSE none[f]
    BY <1>4, <2>1, FilledIs
  <2> QED
    BY <1>3, <1>8, <2>1, <2>2 DEF ReadValue
<1>10. /\ DOMAIN all = D
       /\ \A f \in CAFields : all[f] = ca[f]
       /\ \A f \in ExtensionFields : all[f] = NULL
  <2>1. "[" \notin CAFields
    BY CAFieldsDiffer
  <2>2. /\ DOMAIN all = DOMAIN first
        /\ \A f \in DOMAIN first :
             all[f] = IF f \in CAFields THEN LastRead(L, ReadSection(L, def), f, first[f]) ELSE first[f]
    BY <1>5, <1>8, <2>1, FilledIs
  <2>3. \A f \in CAFields \union ExtensionFields : f \in D /\ first[f] = NULL
    BY <1>1, <1>9, CAFieldsDiffer
  <2>4. \A f \in CAFields : all[f] = ReadValue(L, def, f)
    BY <1>9, <2>2, <2>3 DEF ReadValue
  <2>5. \A f \in ExtensionFields : f \notin CAFields
    BY CAFieldsDiffer
  <2> QED
    BY <1>9, <2>2, <2>3, <2>4, <2>5 DEF AuthoritySays
<1>11. /\ "x509_extensions" \in CAFields /\ "crl_extensions" \in CAFields
       /\ all["x509_extensions"] = ca["x509_extensions"]
  <2>1. "x509_extensions" \in CAFields /\ "crl_extensions" \in CAFields
    BY DEF CAFields
  <2> QED
    BY <1>10, <2>1
<1>12. PICK ext, crl : ext = ca["x509_extensions"] /\ crl = ca["crl_extensions"]
  OBVIOUS
<1>13. \A f \in CAFields : f \notin ExtensionFields /\ f \in D
  BY <1>1, CAFieldsDiffer
<1>14. "[" \notin ExtensionFields
  BY CAFieldsDiffer
<1>15. /\ DOMAIN cert = D
       /\ \A f \in CAFields : cert[f] = ca[f]
       /\ \A f \in ExtensionFields : cert[f] = ReadValue(L, ext, f)
  <2>1. /\ DOMAIN cert = DOMAIN all
        /\ \A f \in DOMAIN all :
             cert[f] = IF f \in ExtensionFields THEN LastRead(L, ReadSection(L, ext), f, all[f]) ELSE all[f]
    BY <1>6, <1>11, <1>12, <1>14, FilledIs
  <2>2. \A f \in ExtensionFields : f \in D
    BY <1>1
  <2> QED
    BY <1>10, <1>13, <2>1, <2>2 DEF ReadValue
<1>16. cert["crl_extensions"] = crl
  BY <1>11, <1>12, <1>15
<1>17. /\ DOMAIN result = DOMAIN cert
       /\ \A f \in DOMAIN cert :
            result[f] = IF f \in ExtensionFields THEN LastRead(L, ReadSection(L, crl), f, cert[f]) ELSE cert[f]
  BY <1>7, <1>14, <1>16, FilledIs
<1>18. \A f \in ExtensionFields : f \in D
  BY <1>1
<1> QED
  BY <1>1, <1>12, <1>13, <1>15, <1>17, <1>18 DEF AuthorityFile

LEMMA ParsedExtFile ==
  ASSUME NEW S, NULL \notin Seq(S), NEW lines \in Seq(Seq(S) \ {<<>>}), NEW params,
         NEW result, result = ParseExtFile(lines, params)
  PROVE  /\ DOMAIN result = DOMAIN params
         /\ \A f \in DOMAIN params :
              result[f] = IF f \in ExtensionFields THEN LastRead(lines, DOMAIN lines, f, params[f]) ELSE params[f]
<1>1. PICK n \in Nat : n = Len(lines)
  OBVIOUS
<1>2. PICK all : all = Append(lines, <<>>)
  OBVIOUS
<1>3. /\ \A i \in 1 .. n : all[i] = lines[i] /\ lines[i] \in Seq(S)
      /\ all[n + 1] = <<>>
      /\ DOMAIN lines = 1 .. n
  BY <1>1, <1>2
<1>4. result = Fill(params, all, [start |-> 1, end |-> n + 1], ExtensionFields)
  BY <1>1, <1>2 DEF ParseExtFile
<1>5. DOMAIN result = DOMAIN params
  BY <1>4 DEF Fill
<1>6. \A i \in 1 .. n + 1 : i \in 1 .. n \/ i = n + 1
  BY <1>1
<1>7. \A i \in 1 .. n + 1 : all[i] \in Seq(S)
  <2>1. <<>> \in Seq(S)
    OBVIOUS
  <2> QED
    BY <1>3, <1>6, <2>1
<1>8. ASSUME NEW f \in DOMAIN params, f \in ExtensionFields
      PROVE  result[f] = LastRead(lines, DOMAIN lines, f, params[f])
  <2>1. result[f] = LocateValue(all, [start |-> 1, end |-> n + 1], f, params[f])
    BY <1>4, <1>8 DEF Fill
  <2>2. PICK where : where = {i \in 1 .. n + 1 : Reads(all[i], f) # NULL}
    OBVIOUS
  <2>3. LocateValue(all, [start |-> 1, end |-> n + 1], f, params[f]) =
          IF where = {} THEN params[f] ELSE Reads(all[Greatest(where)], f)
    <3>1. 1 \in Nat /\ n + 1 \in Nat /\ 1 >= 1
      OBVIOUS
    <3>2. LocateValue(all, [start |-> 1, end |-> n + 1], f, params[f]) = LastRead(all, 1 .. n + 1, f, params[f])
      BY <1>7, <3>1, LocatedValue
    <3> QED
      BY <2>2, <3>2 DEF LastRead
  <2>4. Reads(all[n + 1], f) = NULL
    <3>1. PICK runs : runs = Runs(<<>>, {"=", "#"})
      OBVIOUS
    <3>2. runs = {}
      BY <3>1 DEF Runs
    <3>3. Cardinality(runs) = 0
      BY <3>2, FS_EmptySet
    <3>4. Cardinality(runs) < 2
      BY <3>3
    <3> QED
      BY <1>3, <3>1, <3>4 DEF Reads
  <2>5. PICK sets : sets = {i \in 1 .. n : Reads(lines[i], f) # NULL}
    OBVIOUS
  <2>6. where = sets
    <3>1. \A i \in 1 .. n : i \in 1 .. n + 1
      OBVIOUS
    <3> QED
      BY <1>3, <1>6, <2>2, <2>4, <2>5, <3>1
  <2>7. where # {} => all[Greatest(where)] = lines[Greatest(where)]
    <3>1. SUFFICES ASSUME where # {} PROVE Greatest(where) \in 1 .. n
      BY <1>3
    <3>2. where \in SUBSET (0 .. n)
      BY <2>5, <2>6
    <3>3. Greatest(where) \in where
      BY <3>1, <3>2, GreatestIs
    <3> QED
      BY <2>5, <2>6, <3>3
  <2>8. LastRead(lines, DOMAIN lines, f, params[f]) = IF sets = {} THEN params[f] ELSE Reads(lines[Greatest(sets)], f)
    BY <1>3, <2>5 DEF LastRead
  <2> QED
    BY <2>1, <2>3, <2>6, <2>7, <2>8
<1>9. ASSUME NEW f \in DOMAIN params, f \notin ExtensionFields PROVE result[f] = params[f]
  BY <1>4, <1>9 DEF Fill
<1> QED
  BY <1>5, <1>8, <1>9

\* The files of a call have lines, and the lines have tokens.
ConfTyped ==
  LET File == Seq(Seq(STRING) \ {<<>>})
  IN \/ conf.use = "req" /\ conf.lines \in File
     \/ conf.use = "ca" /\ conf.lines \in File /\ conf.ext \in File

----------------------------------------------------------------------------
(* Plain files: the parser keeps to the documented format                   *)

\* A text up to the place before a character's first one.
LEMMA UntilIs ==
  ASSUME NEW S, NEW s \in Seq(S), NEW c, NEW n \in 1 .. Len(s) + 1,
         n <= Len(s) => s[n] = c, \A i \in 1 .. n - 1 : s[i] # c
  PROVE  /\ Until(s, c) = SubSeq(s, 1, n - 1)
         /\ Until(s, c) \in Seq(S) /\ Len(Until(s, c)) = n - 1
         /\ \A i \in 1 .. n - 1 : Until(s, c)[i] = s[i]
         /\ n <= Len(s) => Least(Places(s, c)) = n /\ Places(s, c) # {}
<1>1. Len(s) \in Nat /\ DOMAIN s = 1 .. Len(s)
  OBVIOUS
<1>2. CASE n <= Len(s)
  <2>1. PICK P : P = Places(s, c)
    OBVIOUS
  <2>2. n \in P /\ P \in SUBSET Nat /\ \A k \in P : n <= k
    BY <1>1, <1>2, <2>1 DEF Places
  <2>3. Least(P) \in P /\ Least(P) <= n
    BY <2>2, LeastIs
  <2>4. Least(P) = n
    BY <1>1, <2>1, <2>2, <2>3 DEF Places
  <2>5. Until(s, c) = SubSeq(s, 1, n - 1)
    BY <2>1, <2>2, <2>4 DEF Until
  <2> QED
    BY <1>1, <1>2, <2>1, <2>2, <2>4, <2>5
<1>3. CASE n = Len(s) + 1
  <2>1. Places(s, c) = {}
    BY <1>1, <1>3 DEF Places
  <2>2. Until(s, c) = s
    BY <2>1 DEF Until
  <2>3. s = SubSeq(s, 1, Len(s))
    OBVIOUS
  <2> QED
    BY <1>1, <1>3, <2>2, <2>3
<1> QED
  BY <1>1, <1>2, <1>3

\* Every text ends before its first comment.
LEMMA FirstPlace ==
  ASSUME NEW S, NEW s \in Seq(S), NEW c
  PROVE  \E n \in 1 .. Len(s) + 1 : (n <= Len(s) => s[n] = c) /\ \A i \in 1 .. n - 1 : s[i] # c
<1>1. PICK P \in SUBSET Nat : P = {i \in 1 .. Len(s) : s[i] = c}
  <2>1. {i \in 1 .. Len(s) : s[i] = c} \in SUBSET Nat
    OBVIOUS
  <2> QED
    BY <2>1
<1>2. CASE P = {}
  <2>1. Len(s) + 1 \in 1 .. Len(s) + 1
    OBVIOUS
  <2>2. \A i \in 1 .. Len(s) : s[i] # c
    BY <1>1, <1>2
  <2> QED
    BY <2>1, <2>2
<1>3. CASE P # {}
  <2>1. PICK n \in P : \A k \in P : n <= k
    BY <1>3, MinExists
  <2>2. n \in 1 .. Len(s) /\ s[n] = c
    BY <1>1, <2>1
  <2>3. ASSUME NEW i \in 1 .. n - 1 PROVE s[i] # c
    BY <1>1, <2>1, <2>2
  <2> QED
    BY <2>2, <2>3
<1> QED
  BY <1>2, <1>3

\* A stretch of a text that ends at the only places of a character.
LEMMA OmitIsStretch ==
  ASSUME NEW S, NEW v \in Seq(S), NEW q, NEW i \in Nat, NEW j \in Nat, i <= j, j <= Len(v),
         \A k \in 1 .. Len(v) : v[k] # q <=> k \in i + 1 .. j
  PROVE  Omit(v, q) = SubSeq(v, i + 1, j)
<1>1. PICK R : R = {<<k, k>> : k \in {p \in DOMAIN v : v[p] # q}}
  OBVIOUS
<1>2. R = {<<k, k>> : k \in i + 1 .. j}
  <2>1. \A k : k \in {p \in DOMAIN v : v[p] # q} <=> k \in i + 1 .. j
    OBVIOUS
  <2> QED
    BY <1>1, <2>1
<1>3. PICK m \in Nat : m = j - i
  OBVIOUS
<1>4. PICK w : w = [k \in 1 .. m |-> <<k + i, k + i>>]
  OBVIOUS
<1>5. Enumerates(w, m, R)
  <2>1. w \in [1 .. m -> R]
    BY <1>2, <1>3, <1>4
  <2>2. ASSUME NEW r \in R PROVE \E k \in 1 .. m : w[k] = r
    <3>1. PICK p \in i + 1 .. j : r = <<p, p>>
      BY <1>2
    <3>2. p - i \in 1 .. m /\ w[p - i] = r
      BY <1>3, <1>4, <3>1
    <3> QED
      BY <3>2
  <2>3. \A a, b \in 1 .. m : a < b => w[a][1] < w[b][1]
    BY <1>4
  <2> QED
    BY <2>1, <2>2, <2>3 DEF Enumerates
<1>6. \A r \in R : r[1] \in Int
  BY <1>2
<1>7. Cardinality(R) = m /\ \A k \in 1 .. m : Nth(R, k) = w[k]
  BY <1>5, <1>6, Counted
<1>8. Omit(v, q) = [k \in 1 .. m |-> v[k + i]]
  <2>1. Omit(v, q) = [k \in 1 .. m |-> v[Nth(R, k)[1]]]
    BY <1>1, <1>7 DEF Omit
  <2>2. \A k \in 1 .. m : Nth(R, k)[1] = k + i
    BY <1>4, <1>7
  <2> QED
    BY <2>1, <2>2
<1>9. SubSeq(v, i + 1, j) = [k \in 1 .. m |-> v[k + i]]
  BY <1>3
<1> QED
  BY <1>8, <1>9

LEMMA OmitIsBare ==
  ASSUME NEW S, NEW v \in Seq(S), NEW q, NEW bare,
         bare = IF Len(v) >= 2 /\ v[1] = q /\ v[Len(v)] = q THEN SubSeq(v, 2, Len(v) - 1) ELSE v,
         \A k \in DOMAIN bare : bare[k] # q
  PROVE  bare = Omit(v, q)
<1>1. PICK n \in Nat : n = Len(v)
  OBVIOUS
<1>2. CASE n >= 2 /\ v[1] = q /\ v[n] = q
  <2>1. bare = SubSeq(v, 2, n - 1)
    BY <1>1, <1>2
  <2>2. ASSUME NEW k \in 2 .. n - 1 PROVE v[k] # q
    <3>1. k - 1 \in DOMAIN SubSeq(v, 2, n - 1) /\ SubSeq(v, 2, n - 1)[k - 1] = v[k]
      BY <1>1
    <3> QED
      BY <2>1, <3>1
  <2>3. ASSUME NEW k \in 1 .. n PROVE v[k] # q <=> k \in 1 + 1 .. n - 1
    <3>1. k = 1 \/ k = n \/ k \in 2 .. n - 1
      OBVIOUS
    <3>2. n >= 2 /\ ~(1 \in 2 .. n - 1) /\ ~(n \in 2 .. n - 1)
      BY <1>2
    <3> QED
      BY <1>2, <2>2, <3>1, <3>2
  <2>4. 1 \in Nat /\ n - 1 \in Nat /\ 1 <= n - 1 /\ n - 1 <= Len(v)
    BY <1>1, <1>2
  <2>5. Omit(v, q) = SubSeq(v, 1 + 1, n - 1)
    BY <1>1, <2>3, <2>4, OmitIsStretch
  <2> QED
    BY <2>1, <2>5
<1>3. CASE ~(n >= 2 /\ v[1] = q /\ v[n] = q)
  <2>1. bare = v /\ v = SubSeq(v, 0 + 1, n)
    BY <1>1, <1>3
  <2>2. ASSUME NEW k \in 1 .. n PROVE v[k] # q <=> k \in 0 + 1 .. n
    <3>1. k \in DOMAIN v /\ bare = v
      BY <1>1, <2>1
    <3>2. bare[k] # q
      BY <3>1
    <3>3. bare[k] = v[k]
      BY <3>1
    <3>4. v[k] # q
      BY <3>2, <3>3
    <3>5. k \in 0 + 1 .. n
      BY <1>1
    <3> QED
      BY <3>4, <3>5
  <2>3. 0 \in Nat /\ 0 <= n /\ n <= Len(v)
    BY <1>1
  <2>4. Omit(v, q) = SubSeq(v, 0 + 1, n)
    BY <1>1, <2>2, <2>3, OmitIsStretch
  <2> QED
    BY <2>1, <2>4
<1> QED
  BY <1>2, <1>3

\* Where quotes are only around a value, taking those off leaves what removing all leaves.
LEMMA BareIsUnquoted ==
  ASSUME NEW S, NEW v \in Seq(S)
  PROVE  Places(Bare(v), "\"") = {} => Bare(v) = Unquoted(v)
<1>1. PICK bare : bare = Bare(v)
  OBVIOUS
<1>2. PICK q : q = "\""
  OBVIOUS
<1>3. Places(Bare(v), "\"") = {} => \A k \in DOMAIN bare : bare[k] # q
  BY <1>1, <1>2, Zenon DEF Places
<1>4. bare = IF Len(v) >= 2 /\ v[1] = q /\ v[Len(v)] = q THEN SubSeq(v, 2, Len(v) - 1) ELSE v
  BY <1>1, <1>2, Zenon DEF Bare, Quoted
<1>5. (\A k \in DOMAIN bare : bare[k] # q) => bare = Omit(v, q)
  BY <1>4, OmitIsBare
<1> QED
  BY <1>1, <1>2, <1>3, <1>5, Zenon DEF Unquoted

\* The runs of a line with one "=" before its comment.
LEMMA TwoRuns ==
  ASSUME NEW S, NEW s \in Seq(S), NEW seps, NEW e \in 2 .. Len(s), NEW z \in e + 2 .. Len(s) + 1,
         s[e] \in seps, z <= Len(s) => s[z] \in seps,
         \A i \in 1 .. z - 1 : i # e => s[i] \notin seps,
         NEW R, R = Runs(s, seps)
  PROVE  ~(Cardinality(R) < 2) /\ Nth(R, 1) = <<1, e - 1>> /\ Nth(R, 2) = <<e + 1, z - 1>>
<1>1. PICK w, m : Enumerates(w, m, R)
  <2>1. -1 \in Int /\ FALSE \in BOOLEAN
    OBVIOUS
  <2> QED
    BY <2>1, SplitIs
<1>2. ASSUME NEW r \in R
      PROVE  \E a, b \in 1 .. Len(s) :
               /\ r = <<a, b>> /\ a <= b /\ \A k \in a .. b : s[k] \notin seps
               /\ a = 1 \/ s[a - 1] \in seps
               /\ b = Len(s) \/ s[b + 1] \in seps
  BY RunIs
<1>3. \A r \in R : r[1] \in Int
  BY <1>2
<1>4. Cardinality(R) = m /\ \A k \in 1 .. m : Nth(R, k) = w[k]
  BY <1>1, <1>3, Counted
<1>5. /\ m \in Nat /\ w \in [1 .. m -> R]
      /\ \A r \in R : \E k \in 1 .. m : w[k] = r
      /\ \A a, b \in 1 .. m : a < b => w[a][1] < w[b][1]
  BY <1>1 DEF Enumerates
<1>6. <<1, e - 1>> \in R /\ <<e + 1, z - 1>> \in R
  <2>1. 1 \in 1 .. Len(s) /\ e - 1 \in 1 .. Len(s) /\ s[(e - 1) + 1] \in seps
    OBVIOUS
  <2>2. \A k \in 1 .. e - 1 : s[k] \notin seps
    OBVIOUS
  <2>3. <<1, e - 1>> \in R
    BY <2>1, <2>2, RunIs
  <2>4. /\ e + 1 \in 1 .. Len(s) /\ z - 1 \in 1 .. Len(s) /\ e + 1 <= z - 1 /\ s[(e + 1) - 1] \in seps
        /\ z - 1 = Len(s) \/ s[(z - 1) + 1] \in seps
    OBVIOUS
  <2>5. \A k \in e + 1 .. z - 1 : s[k] \notin seps
    OBVIOUS
  <2>6. <<e + 1, z - 1>> \in R
    BY <2>4, <2>5, RunIs
  <2> QED
    BY <2>3, <2>6
<1>7. PICK x \in 1 .. m, y \in 1 .. m : w[x] = <<1, e - 1>> /\ w[y] = <<e + 1, z - 1>>
  BY <1>5, <1>6
<1>8. x = 1
  <2>1. SUFFICES ASSUME 1 < x PROVE FALSE
    BY <1>5, <1>7
  <2>2. 1 \in 1 .. m /\ w[1][1] < 1
    BY <1>5, <1>7, <2>1
  <2>3. w[1] \in R
    BY <1>5, <2>2
  <2>4. w[1][1] \in 1 .. Len(s)
    BY <1>2, <2>3
  <2> QED
    BY <2>2, <2>4
<1>9. y = 2
  <2>1. y # 1
    BY <1>7, <1>8
  <2>2. SUFFICES ASSUME 2 < y PROVE FALSE
    BY <1>5, <1>7, <2>1
  <2>3. 2 \in 1 .. m /\ 1 \in 1 .. m /\ w[1][1] < w[2][1] /\ w[2][1] < w[y][1]
    BY <1>5, <1>7, <2>2
  <2>4. w[2] \in R
    BY <1>5, <2>3
  <2>5. PICK a \in 1 .. Len(s), b \in 1 .. Len(s) :
          w[2] = <<a, b>> /\ (a = 1 \/ s[a - 1] \in seps)
    BY <1>2, <2>4
  <2>6. 1 < a /\ a < e + 1
    BY <1>7, <1>8, <2>3, <2>5
  <2>7. a - 1 \in 1 .. z - 1 /\ a - 1 # e
    BY <2>6
  <2>8. s[a - 1] \notin seps
    BY <2>7
  <2> QED
    BY <2>5, <2>6, <2>8
<1>10. m >= 2 /\ 1 \in 1 .. m /\ 2 \in 1 .. m
  BY <1>5, <1>7, <1>9
<1>11. ~(Cardinality(R) < 2)
  BY <1>4, <1>5, <1>10
<1> QED
  BY <1>4, <1>7, <1>8, <1>9, <1>10, <1>11

\* On an assignment of the documented form the parser reads what the line says.
LEMMA AssignmentReads ==
  ASSUME NEW S, NEW line \in Seq(S), PlainAssignment(line), NEW field
  PROVE  Says(line, field) = Reads(line, field)
<1>1. PICK z \in 1 .. Len(line) + 1 :
        (z <= Len(line) => line[z] = "#") /\ \A i \in 1 .. z - 1 : line[i] # "#"
  BY FirstPlace
<1>2. PICK said : said = Until(line, "#")
  OBVIOUS
<1>3. /\ said = SubSeq(line, 1, z - 1) /\ said \in Seq(S) /\ Len(said) = z - 1
      /\ \A i \in 1 .. z - 1 : said[i] = line[i]
  BY <1>1, <1>2, UntilIs
<1>4. PICK e \in 2 .. Len(said) - 1 : Places(said, "=") = {e}
  BY <1>2 DEF PlainAssignment
<1>5. said[e] = "=" /\ \A i \in 1 .. z - 1 : i # e => said[i] # "="
  <2>1. {i \in DOMAIN said : said[i] = "="} = {e}
    BY <1>4 DEF Places
  <2>2. DOMAIN said = 1 .. z - 1
    BY <1>1, <1>3
  <2> QED
    BY <2>1, <2>2
<1>6. e \in 2 .. Len(line) /\ z \in e + 2 .. Len(line) + 1
  BY <1>1, <1>3, <1>4
<1>7. PICK seps : seps = {"=", "#"}
  OBVIOUS
<1>8. /\ line[e] \in seps /\ (z <= Len(line) => line[z] \in seps)
      /\ \A i \in 1 .. z - 1 : i # e => line[i] \notin seps
  <2>1. e \in 1 .. z - 1
    BY <1>6
  <2> QED
    BY <1>1, <1>3, <1>5, <1>7, <2>1
<1>9. PICK R : R = Runs(line, seps)
  OBVIOUS
<1>10. ~(Cardinality(R) < 2) /\ Nth(R, 1) = <<1, e - 1>> /\ Nth(R, 2) = <<e + 1, z - 1>>
  BY <1>6, <1>8, <1>9, TwoRuns
<1>11. PICK tag, value : tag = SubSeq(line, 1, e - 1) /\ value = SubSeq(line, e + 1, z - 1)
  OBVIOUS
<1>12. Reads(line, field) = IF Trim(tag) # <<field>> THEN NULL ELSE Unquoted(Trim(value))
  BY <1>7, <1>9, <1>10, <1>11 DEF Reads
<1>13. Until(said, "=") = tag /\ Least(Places(said, "=")) = e /\ Places(said, "=") # {}
  <2>1. e \in 1 .. Len(said) + 1 /\ e <= Len(said)
    BY <1>3, <1>6
  <2>2. \A i \in 1 .. e - 1 : said[i] # "="
    BY <1>5, <1>6
  <2>3. Until(said, "=") = SubSeq(said, 1, e - 1) /\ Least(Places(said, "=")) = e /\ Places(said, "=") # {}
    <3>1. said \in Seq(S) /\ (e <= Len(said) => said[e] = "=")
      BY <1>3, <1>5
    <3> QED
      BY <2>1, <2>2, <3>1, UntilIs
  <2>4. SubSeq(said, 1, e - 1) = SubSeq(line, 1, e - 1)
    BY <1>3, <1>6
  <2> QED
    BY <1>11, <2>3, <2>4
<1>14. After(said, "=") = value
  <2>1. After(said, "=") = SubSeq(said, e + 1, z - 1)
    BY <1>3, <1>13 DEF After
  <2>2. SubSeq(said, e + 1, z - 1) = SubSeq(line, e + 1, z - 1)
    BY <1>3, <1>6
  <2> QED
    BY <1>11, <2>1, <2>2
<1>15. Says(line, field) = IF Trim(tag) # <<field>> THEN NULL ELSE Bare(Trim(value))
  BY <1>2, <1>13, <1>14 DEF Says
<1>16. Bare(Trim(value)) = Unquoted(Trim(value))
  <2>1. value \in Seq(S)
    <3>1. \A k \in e + 1 .. z - 1 : line[k] \in S
      BY <1>6
    <3> QED
      BY <1>6, <1>11, <3>1, SubSeqProperties
  <2>2. Trim(value) \in Seq(S)
    BY <2>1, TrimTyped
  <2>3. Places(Bare(Trim(value)), "\"") = {}
    BY <1>2, <1>14, Zenon DEF PlainAssignment
  <2> QED
    BY <2>2, <2>3, BareIsUnquoted, Zenon
<1> QED
  BY <1>12, <1>15, <1>16

LEMMA RemarkReads ==
  ASSUME NEW S, NEW line \in Seq(S), PlainRemark(line), NEW field
  PROVE  Says(line, field) = NULL /\ Reads(line, field) = NULL
<1>1. PICK R : R = Runs(line, {"=", "#"})
  OBVIOUS
<1>2. \A i \in DOMAIN line : line[i] # "=" /\ (line[i] = "#" => i = 1)
  BY DEF PlainRemark
<1>3. Says(line, field) = NULL
  <2>1. PICK n \in 1 .. Len(line) + 1 :
          (n <= Len(line) => line[n] = "#") /\ \A i \in 1 .. n - 1 : line[i] # "#"
    BY FirstPlace
  <2>2. PICK said : said = Until(line, "#")
    OBVIOUS
  <2>3. said \in Seq(S) /\ Len(said) = n - 1 /\ \A i \in 1 .. n - 1 : said[i] = line[i]
    BY <2>1, <2>2, UntilIs
  <2>4. Places(said, "=") = {}
    BY <1>2, <2>3 DEF Places
  <2> QED
    BY <2>2, <2>4 DEF Says
<1>4. Reads(line, field) = NULL
  <2>1. PICK c \in Nat : c = Cardinality(R)
    BY <1>1, RunTexts
  <2>2. SUFFICES ASSUME c >= 2 PROVE FALSE
    BY <1>1, <2>1 DEF Reads
  <2>3. PICK w, m : Enumerates(w, m, R)
    <3>1. -1 \in Int /\ FALSE \in BOOLEAN
      OBVIOUS
    <3> QED
      BY <1>1, <3>1, SplitIs
  <2>4. ASSUME NEW r \in R
        PROVE  \E a, b \in 1 .. Len(line) :
                 /\ r = <<a, b>> /\ a <= b
                 /\ a = 1 \/ line[a - 1] \in {"=", "#"}
                 /\ \A k \in a .. b : line[k] \notin {"=", "#"}
    BY <1>1, RunIs
  <2>5. \A r \in R : r[1] \in Int
    BY <2>4
  <2>6. Cardinality(R) = m
    BY <2>3, <2>5, Counted
  <2>7. /\ m \in Nat /\ w \in [1 .. m -> R] /\ w[1][1] < w[2][1] /\ w[1] \in R /\ w[2] \in R
    BY <2>1, <2>2, <2>3, <2>6 DEF Enumerates
  <2>8. PICK a \in 1 .. Len(line), b \in 1 .. Len(line) :
          /\ w[1] = <<a, b>> /\ a <= b
          /\ a = 1 \/ line[a - 1] \in {"=", "#"}
          /\ \A k \in a .. b : line[k] \notin {"=", "#"}
    <3>1. w[1] \in R
      BY <2>7
    <3> QED
      BY <2>4, <3>1
  <2>9. PICK c2 \in 1 .. Len(line), d \in 1 .. Len(line) :
          w[2] = <<c2, d>> /\ (c2 = 1 \/ line[c2 - 1] \in {"=", "#"})
    BY <2>4, <2>7
  <2>10. a < c2
    BY <2>7, <2>8, <2>9
  <2>11. c2 - 1 \in DOMAIN line /\ line[c2 - 1] \in {"=", "#"}
    BY <2>9, <2>10
  <2>12. c2 - 1 = 1 /\ line[1] = "#"
    BY <1>2, <2>11
  <2>13. a = 1
    BY <2>10, <2>12
  <2> QED
    BY <2>8, <2>12, <2>13
<1> QED
  BY <1>3, <1>4

\* What is known of a plain header.
LEMMA HeaderReads ==
  ASSUME NEW S, NEW line \in Seq(S), PlainHeader(line)
  PROVE  /\ \A field : field # "[" => Says(line, field) = NULL /\ Reads(line, field) = NULL
         /\ Runs(line, {"[", "]", "#"}) # {} /\ ReadTitle(line) = Title(line)
         /\ Title(line) \in Seq(S)
<1>1. line # <<>> /\ line[1] = "[" /\ Places(Until(line, "#"), "=") = {}
  BY DEF PlainHeader, IsTag
<1>2. ASSUME NEW field, field # "[" PROVE Says(line, field) = NULL /\ Reads(line, field) = NULL
  BY <1>1, <1>2, HeaderSaysNothing DEF Says
<1>3. PICK k \in 3 .. Len(line) :
        line[k] = "]" /\ \A j \in 2 .. k - 1 : line[j] \notin {"[", "]", "#"}
  BY DEF PlainHeader
<1>4. PICK R : R = Runs(line, {"[", "]", "#"})
  OBVIOUS
<1>5. <<2, k - 1>> \in R
  <2>1. /\ 2 \in 1 .. Len(line) /\ k - 1 \in 1 .. Len(line) /\ 2 <= k - 1
        /\ line[2 - 1] \in {"[", "]", "#"} /\ line[(k - 1) + 1] \in {"[", "]", "#"}
    BY <1>1, <1>3
  <2> QED
    BY <1>3, <1>4, <2>1, RunIs
<1>6. Nth(R, 1) = <<2, k - 1>>
  <2>1. Cardinality(R) \in Nat /\ Cardinality(R) # 0 /\ \A r \in R : Nth(R, 1)[1] <= r[1]
    BY <1>4, <1>5, RunTexts
  <2>2. Nth(R, 1) \in R
    <3>1. 1 \in 1 .. Cardinality(R)
      BY <2>1
    <3> QED
      BY <1>4, <3>1, RunTexts
  <2>3. PICK r : r = Nth(R, 1)
    OBVIOUS
  <2>4. PICK a, b \in 1 .. Len(line) :
          /\ r = <<a, b>> /\ a <= b /\ \A i \in a .. b : line[i] \notin {"[", "]", "#"}
          /\ a = 1 \/ line[a - 1] \in {"[", "]", "#"}
          /\ b = Len(line) \/ line[b + 1] \in {"[", "]", "#"}
    BY <1>4, <2>2, <2>3, RunIs
  <2>5. a <= 2
    BY <1>5, <2>1, <2>3, <2>4
  <2>6. a = 2
    <3>1. a # 1
      BY <1>1, <2>4
    <3> QED
      BY <2>5, <3>1
  <2>7. b = k - 1
    <3>1. ~(k <= b)
      <4>1. k \in a .. b => line[k] \notin {"[", "]", "#"}
        BY <2>4
      <4> QED
        BY <1>3, <2>6, <4>1
    <3>2. ~(b < k - 1)
      <4>1. SUFFICES ASSUME b < k - 1 PROVE FALSE
        OBVIOUS
      <4>2. b + 1 \in 2 .. k - 1 /\ b # Len(line)
        BY <2>4, <2>6, <4>1
      <4> QED
        BY <1>3, <2>4, <4>2
    <3> QED
      BY <3>1, <3>2
  <2> QED
    BY <2>3, <2>4, <2>6, <2>7
<1>7. PICK said : said = Until(line, "]")
  OBVIOUS
<1>8. said = SubSeq(line, 1, k - 1) /\ Len(said) = k - 1
  <2>1. k \in 1 .. Len(line) + 1 /\ (k <= Len(line) => line[k] = "]")
    BY <1>3
  <2>2. \A i \in 1 .. k - 1 : line[i] # "]"
    BY <1>1, <1>3
  <2> QED
    BY <1>7, <2>1, <2>2, UntilIs
<1>9. SubSeq(said, 2, Len(said)) = SubSeq(line, 2, k - 1)
  BY <1>3, <1>8
<1>10. SubSeq(line, 2, k - 1) \in Seq(S)
  <2>1. \A i \in 2 .. k - 1 : line[i] \in S
    BY <1>3
  <2> QED
    BY <1>3, <2>1, SubSeqProperties
<1>11. ReadTitle(line) = Title(line) /\ Title(line) = Trim(SubSeq(line, 2, k - 1))
  <2>1. ReadTitle(line) = TextOf(line, <<2, k - 1>>)
    BY <1>4, <1>6 DEF ReadTitle
  <2>2. TextOf(line, <<2, k - 1>>) = Trim(SubSeq(line, 2, k - 1))
    BY DEF TextOf
  <2>3. Title(line) = Trim(SubSeq(line, 2, k - 1))
    BY <1>7, <1>9 DEF Title
  <2> QED
    BY <2>1, <2>2, <2>3
<1> QED
  BY <1>2, <1>4, <1>5, <1>10, <1>11, TrimTyped

\* On every line of a plain file the parser reads what the line says.
LEMMA PlainReads ==
  ASSUME NEW S, NEW lines \in Seq(Seq(S) \ {<<>>}), PlainFile(lines),
         NEW i \in DOMAIN lines, NEW field, field # "["
  PROVE  Says(lines[i], field) = Reads(lines[i], field)
<1>1. lines[i] \in Seq(S)
  OBVIOUS
<1>2. PlainHeader(lines[i]) \/ PlainRemark(lines[i]) \/ PlainAssignment(lines[i])
  BY DEF PlainFile
<1>3. CASE PlainHeader(lines[i])
  <2>1. \A g : g # "[" => Says(lines[i], g) = NULL /\ Reads(lines[i], g) = NULL
    BY <1>1, <1>3, HeaderReads
  <2> QED
    BY <2>1
<1>4. CASE PlainRemark(lines[i])
  BY <1>1, <1>4, RemarkReads
<1>5. CASE PlainAssignment(lines[i])
  BY <1>1, <1>5, AssignmentReads
<1> QED
  BY <1>2, <1>3, <1>4, <1>5

\* The section the parser takes is the only one of its name.
LEMMA PlainSection ==
  ASSUME NEW S, NULL \notin Seq(S), NEW lines \in Seq(Seq(S) \ {<<>>}), PlainFile(lines), NEW tag
  PROVE  Section(lines, tag) = ReadSection(lines, tag) /\ Section(lines, tag) \subseteq DOMAIN lines
<1>1. PICK n \in Nat : n = Len(lines) /\ DOMAIN lines = 1 .. n
  OBVIOUS
<1>2. PICK H \in SUBSET (1 .. n) : H = Headers(lines) /\ H = HeaderLines(lines)
  <2>1. \A i \in 1 .. n : IsTag(lines[i]) <=> lines[i][1] = "["
    BY <1>1 DEF IsTag
  <2>2. Headers(lines) = HeaderLines(lines) /\ Headers(lines) \in SUBSET (1 .. n)
    BY <1>1, <2>1 DEF Headers, HeaderLines
  <2> QED
    BY <2>2
<1>3. ASSUME NEW h \in H
      PROVE  /\ Runs(lines[h], {"[", "]", "#"}) # {} /\ ReadTitle(lines[h]) = Title(lines[h])
             /\ Title(lines[h]) \in Seq(S)
  <2>1. lines[h] \in Seq(S) /\ lines[h] # <<>> /\ lines[h][1] = "["
    BY <1>1, <1>2, <1>3 DEF HeaderLines
  <2>2. PlainHeader(lines[h])
    <3>1. PlainHeader(lines[h]) \/ PlainRemark(lines[h]) \/ PlainAssignment(lines[h])
      BY <1>1 DEF PlainFile
    <3>2. ~PlainRemark(lines[h])
      BY <2>1 DEF PlainRemark
    <3>3. ~PlainAssignment(lines[h])
      BY <2>1, Zenon DEF PlainAssignment, IsTag
    <3> QED
      BY <3>1, <3>2, <3>3
  <2> QED
    BY <2>1, <2>2, HeaderReads
<1>4. \A h, k \in H : Title(lines[h]) = Title(lines[k]) => h = k
  BY <1>2 DEF PlainFile
<1>5. PICK N \in SUBSET H : N = Named(lines, tag)
  BY <1>2 DEF Named
<1>6. \A h \in H : h \in N <=> Title(lines[h]) = tag
  BY <1>2, <1>3, <1>5 DEF Named
<1>7. Section(lines, tag) =
        {i \in (1 .. n) \ H : /\ {h \in H : h <= i} # {}
                              /\ Title(lines[Greatest({h \in H : h <= i})]) = tag}
  BY <1>1, <1>2 DEF Section
<1>8. CASE tag = NULL \/ N = {}
  <2>1. ReadSection(lines, tag) = {}
    BY <1>5, <1>8 DEF ReadSection
  <2>2. ASSUME NEW i \in (1 .. n) \ H, {h \in H : h <= i} # {} PROVE Title(lines[Greatest({h \in H : h <= i})]) # tag
    <3>1. PICK g : g = Greatest({h \in H : h <= i})
      OBVIOUS
    <3>2. g \in H
      <4>1. {h \in H : h <= i} \in SUBSET (0 .. n)
        <5>1. \A h \in H : h \in 0 .. n
          BY <1>1
        <5> QED
          BY <5>1
      <4>2. g \in {h \in H : h <= i}
        BY <2>2, <3>1, <4>1, GreatestIs
      <4> QED
        BY <4>2
    <3>3. Title(lines[g]) # tag
      BY <1>3, <1>6, <1>8, <3>2
    <3> QED
      BY <3>1, <3>3
  <2>3. Section(lines, tag) = {}
    BY <1>7, <2>2
  <2> QED
    BY <2>1, <2>3
<1>9. CASE tag # NULL /\ N # {}
  <2>1. PICK a : a = Least(N)
    OBVIOUS
  <2>2. a \in N
    <3>1. N \in SUBSET Nat
      OBVIOUS
    <3> QED
      BY <1>9, <2>1, <3>1, LeastIs
  <2>3. ReadSection(lines, tag) = {i \in (1 .. n) \ H : /\ \E h \in H : h <= i
                                                       /\ Greatest({h \in H : h <= i}) = a}
    BY <1>1, <1>2, <1>5, <1>9, <2>1 DEF ReadSection
  <2>4. ASSUME NEW i \in (1 .. n) \ H
        PROVE  (/\ {h \in H : h <= i} # {} /\ Title(lines[Greatest({h \in H : h <= i})]) = tag)
                 <=> ((\E h \in H : h <= i) /\ Greatest({h \in H : h <= i}) = a)
    <3>1. PICK above, g : above = {h \in H : h <= i} /\ g = Greatest(above)
      OBVIOUS
    <3>2. above # {} <=> \E h \in H : h <= i
      BY <3>1
    <3>3. above # {} => g \in H
      <4>1. above \in SUBSET (0 .. n)
        <5>1. \A h \in H : h \in 0 .. n
          BY <1>1
        <5> QED
          BY <3>1, <5>1
      <4>2. above # {} => g \in above
        BY <3>1, <4>1, GreatestIs
      <4> QED
        BY <3>1, <4>2
    <3>4. Title(lines[a]) = tag
      BY <1>6, <2>2
    <3>5. g \in H => (Title(lines[g]) = tag <=> g = a)
      BY <1>4, <2>2, <3>4
    <3> QED
      BY <3>1, <3>2, <3>3, <3>5
  <2> QED
    BY <1>1, <1>7, <2>3, <2>4
<1> QED
  BY <1>1, <1>7, <1>8, <1>9

LEMMA PlainLast ==
  ASSUME NEW S, NEW lines \in Seq(Seq(S) \ {<<>>}), PlainFile(lines),
         NEW where, where \subseteq DOMAIN lines, NEW field, field # "[", NEW otherwise
  PROVE  LastIn(lines, where, field, otherwise) = LastRead(lines, where, field, otherwise)
<1>1. \A i \in where : Says(lines[i], field) = Reads(lines[i], field)
  BY PlainReads
<1>2. PICK sets : sets = {i \in where : Says(lines[i], field) # NULL}
  OBVIOUS
<1>3. sets = {i \in where : Reads(lines[i], field) # NULL}
  BY <1>1, <1>2
<1>4. ASSUME sets # {} PROVE Greatest(sets) \in where
  <2>1. sets \in SUBSET (0 .. Len(lines)) /\ Len(lines) \in Nat
    BY <1>2
  <2>2. Greatest(sets) \in sets
    BY <1>4, <2>1, GreatestIs
  <2> QED
    BY <1>2, <2>2
<1> QED
  BY <1>1, <1>2, <1>3, <1>4 DEF LastIn, LastRead

LEMMA PlainValue ==
  ASSUME NEW S, NULL \notin Seq(S), NEW lines \in Seq(Seq(S) \ {<<>>}), PlainFile(lines)
  PROVE  \A tag, f : f # "[" => Value(lines, tag, f) = ReadValue(lines, tag, f)
<1>1. SUFFICES ASSUME NEW tag, NEW f, f # "[" PROVE Value(lines, tag, f) = ReadValue(lines, tag, f)
  OBVIOUS
<1>2. Section(lines, tag) = ReadSection(lines, tag) /\ Section(lines, tag) \subseteq DOMAIN lines
  BY PlainSection
<1>3. LastIn(lines, Section(lines, tag), f, NULL) = LastRead(lines, Section(lines, tag), f, NULL)
  BY <1>1, <1>2, PlainLast
<1> QED
  BY <1>2, <1>3 DEF Value, ReadValue

----------------------------------------------------------------------------

\* What the two commands read from their files.
LEMMA RequestIsRead ==
  ASSUME NEW S, NULL \notin Seq(S), NULL \notin [start : Nat, end : Nat],
         NEW L \in Seq(Seq(S) \ {<<>>}), PlainFile(L), NEW result, result = ParseCSR(L)
  PROVE  /\ \A f \in ReqFields : result[f] = Value(L, <<"req">>, f)
         /\ \A f \in NameFields : result[f] = Value(L, Value(L, <<"req">>, "distinguished_name"), f)
         /\ \A f \in ExtensionFields : result[f] = Value(L, Value(L, <<"req">>, "x509_extensions"), f)
<1>1. /\ \A f \in ReqFields : result[f] = ReadValue(L, <<"req">>, f)
      /\ \A f \in NameFields : result[f] = ReadValue(L, ReadValue(L, <<"req">>, "distinguished_name"), f)
      /\ \A f \in ExtensionFields : result[f] = ReadValue(L, ReadValue(L, <<"req">>, "x509_extensions"), f)
  BY ParsedRequest
<1>2. \A tag, f : f # "[" => Value(L, tag, f) = ReadValue(L, tag, f)
  BY PlainValue
<1>3. /\ \A f \in ReqFields \union NameFields \union ExtensionFields : f # "["
      /\ "distinguished_name" \in ReqFields /\ "x509_extensions" \in ReqFields
  BY ReqFieldsDiffer DEF ReqFields
<1>4. \A g \in ReqFields : ReadValue(L, <<"req">>, g) = Value(L, <<"req">>, g)
  BY <1>2, <1>3
<1>5. PICK dn, ext : /\ dn = Value(L, <<"req">>, "distinguished_name")
                     /\ ext = Value(L, <<"req">>, "x509_extensions")
  OBVIOUS
<1>6. /\ dn = ReadValue(L, <<"req">>, "distinguished_name")
      /\ ext = ReadValue(L, <<"req">>, "x509_extensions")
  BY <1>3, <1>4, <1>5
<1>7. \A f \in NameFields : result[f] = Value(L, dn, f)
  BY <1>1, <1>2, <1>3, <1>6
<1>8. \A f \in ExtensionFields : result[f] = Value(L, ext, f)
  BY <1>1, <1>2, <1>3, <1>6
<1> QED
  BY <1>1, <1>4, <1>5, <1>7, <1>8

AuthorityValues(L) == [f \in CAFields |-> Value(L, Value(L, <<"ca">>, "default_ca"), f)]
AuthorityGives(L, X, ca, result) ==
  /\ \A f \in CAFields : result[f] = ca[f]
  /\ \A f \in ExtensionFields :
       Value(L, ca["crl_extensions"], f) = NULL =>
         result[f] = LastIn(X, DOMAIN X, f, Value(L, ca["x509_extensions"], f))

LEMMA AuthorityIsRead ==
  ASSUME NEW S, NULL \notin Seq(S), NULL \notin [start : Nat, end : Nat],
         NEW L \in Seq(Seq(S) \ {<<>>}), PlainFile(L), NEW X \in Seq(Seq(S) \ {<<>>}), PlainFile(X),
         NEW ca, ca = AuthorityValues(L), NEW result, result = ParseExtFile(X, ParseCRT(L))
  PROVE  AuthorityGives(L, X, ca, result)
<1>1. \A tag, f : f # "[" => Value(L, tag, f) = ReadValue(L, tag, f)
  BY PlainValue
<1>2. /\ \A f \in CAFields \union ExtensionFields : f # "[" /\ (f \in CAFields => f \notin ExtensionFields)
      /\ "default_ca" # "["
  BY CAFieldsDiffer
<1>3. PICK read : read = ParseCRT(L)
  OBVIOUS
<1>4. AuthoritySays(L, ca)
  BY <1>1, <1>2 DEF AuthoritySays, AuthorityValues
<1>5. AuthorityFile(L, ca, read)
  BY <1>3, <1>4, ParsedAuthority
<1>6. /\ DOMAIN read = {"default_ca"} \union CAFields \union ExtensionFields
      /\ \A f \in CAFields : read[f] = ca[f]
      /\ \A f \in ExtensionFields :
           read[f] = LastRead(L, ReadSection(L, ca["crl_extensions"]), f,
                              ReadValue(L, ca["x509_extensions"], f))
  BY <1>5 DEF AuthorityFile
<1>7. \A f \in DOMAIN read :
        result[f] = IF f \in ExtensionFields THEN LastRead(X, DOMAIN X, f, read[f]) ELSE read[f]
  BY <1>3, ParsedExtFile
<1>8. \A f \in CAFields : result[f] = ca[f]
  BY <1>2, <1>6, <1>7
<1>9. ASSUME NEW f \in ExtensionFields, Value(L, ca["crl_extensions"], f) = NULL
      PROVE  result[f] = LastIn(X, DOMAIN X, f, Value(L, ca["x509_extensions"], f))
  <2>1. f # "["
    BY <1>2
  <2>2. PICK crl, other : crl = ReadSection(L, ca["crl_extensions"]) /\ other = ReadValue(L, ca["x509_extensions"], f)
    OBVIOUS
  <2>3. LastRead(L, crl, f, NULL) = NULL
    BY <1>1, <1>9, <2>1, <2>2 DEF ReadValue
  <2>4. crl \subseteq DOMAIN L
    BY <2>2, PlainSection
  <2>5. LastRead(L, crl, f, other) = other
    <3>1. PICK sets : sets = {i \in crl : Reads(L[i], f) # NULL}
      OBVIOUS
    <3>2. ASSUME sets # {} PROVE Reads(L[Greatest(sets)], f) # NULL
      <4>1. sets \in SUBSET (0 .. Len(L)) /\ Len(L) \in Nat
        BY <2>4, <3>1
      <4>2. Greatest(sets) \in sets
        BY <3>2, <4>1, GreatestIs
      <4> QED
        BY <3>1, <4>2
    <3> QED
      BY <2>3, <3>1, <3>2 DEF LastRead
  <2>6. read[f] = Value(L, ca["x509_extensions"], f)
    BY <1>1, <1>6, <1>9, <2>1, <2>2, <2>5
  <2>7. result[f] = LastRead(X, DOMAIN X, f, read[f])
    BY <1>6, <1>7
  <2>8. LastRead(X, DOMAIN X, f, read[f]) = LastIn(X, DOMAIN X, f, read[f])
    BY <2>1, PlainLast
  <2> QED
    BY <2>6, <2>7, <2>8
<1> QED
  BY <1>8, <1>9 DEF AuthorityGives

\* Whatever values a plain file gives, and wherever its sections are: each field gets the last
\* value its section says, as docs/config-files.md reads it, unless the section of the CRL
\* extensions sets it too (parse_config_file(), locate_tag(), locate_value()).
THEOREM ConfigCorrectAlways == ASSUME ConfigAssumption PROVE ConfigSpec => []ConfigCorrect
<1>1. ConfigInit => ConfTyped /\ ConfigCorrect
  BY ConfigAssumption DEF ConfigInit, ConfTyped, ConfigCorrect
<1>2. ConfTyped /\ ConfigCorrect /\ [ConfigNext]_cvars => ConfTyped' /\ ConfigCorrect'
  <2>1. SUFFICES ASSUME ConfTyped, ConfigCorrect, ConfigNext PROVE ConfTyped' /\ ConfigCorrect'
    <3>1. ConfTyped /\ UNCHANGED cvars => ConfTyped'
      BY DEF cvars, ConfTyped
    <3>2. ConfigCorrect /\ UNCHANGED cvars => ConfigCorrect'
      BY DEF cvars, ConfigCorrect
    <3> QED
      BY <3>1, <3>2
  <2>2. conf' = conf /\ ConfTyped'
    BY <2>1 DEF ConfigNext, ConfTyped
  <2>3. NULL \notin Seq(STRING) /\ NULL \notin [start : Nat, end : Nat]
    BY ConfigAssumption
  <2>4. SUFFICES ASSUME PlainFile(conf.lines), PlainFile(conf.ext),
                        NEW f \in DOMAIN Documented(conf),
                        conf.use = "req" \/ f \notin SetForCrls(conf)
                 PROVE  fields'[f] = Documented(conf)[f]
    BY <2>2 DEF ConfigCorrect
  <2>5. PICK L, X : L = conf.lines /\ X = conf.ext
    OBVIOUS
  <2>6. CASE ReqReads
    <3>1. conf.use = "req" /\ L \in Seq(Seq(STRING) \ {<<>>}) /\ fields' = ParseCSR(L) /\ PlainFile(L)
      BY <2>1, <2>4, <2>5, <2>6 DEF ReqReads, ConfTyped
    <3>2. /\ \A g \in ReqFields : fields'[g] = Value(L, <<"req">>, g)
          /\ \A g \in NameFields : fields'[g] = Value(L, Value(L, <<"req">>, "distinguished_name"), g)
          /\ \A g \in ExtensionFields : fields'[g] = Value(L, Value(L, <<"req">>, "x509_extensions"), g)
      BY <2>3, <3>1, RequestIsRead
    <3>3. "distinguished_name" \in ReqFields /\ "x509_extensions" \in ReqFields
      BY DEF ReqFields
    <3>4. /\ \A g \in NameFields : g \notin ReqFields
          /\ \A g \in ExtensionFields : g \notin ReqFields /\ g \notin NameFields
      BY ReqFieldsDiffer
    <3>5. PICK req : req = [g \in ReqFields |-> Value(L, <<"req">>, g)]
      OBVIOUS
    <3>6. Documented(conf) = [g \in ReqFields \union NameFields \union ExtensionFields |->
             IF g \in ReqFields THEN req[g]
             ELSE IF g \in NameFields THEN Value(L, req["distinguished_name"], g)
             ELSE Value(L, req["x509_extensions"], g)]
      BY <2>5, <3>1, <3>5 DEF Documented
    <3>7. f \in ReqFields \/ f \in NameFields \/ f \in ExtensionFields
      BY <2>4, <3>6
    <3> QED
      BY <3>2, <3>3, <3>4, <3>5, <3>6, <3>7
  <2>7. CASE CAReads
    <3>1. /\ conf.use = "ca" /\ L \in Seq(Seq(STRING) \ {<<>>}) /\ X \in Seq(Seq(STRING) \ {<<>>})
          /\ fields' = ParseExtFile(X, ParseCRT(L)) /\ PlainFile(L) /\ PlainFile(X)
      BY <2>1, <2>4, <2>5, <2>7 DEF CAReads, ConfTyped
    <3>2. PICK ca : ca = AuthorityValues(L)
      OBVIOUS
    <3>3. /\ \A g \in CAFields : fields'[g] = ca[g]
          /\ \A g \in ExtensionFields :
               Value(L, ca["crl_extensions"], g) = NULL =>
                 fields'[g] = LastIn(X, DOMAIN X, g, Value(L, ca["x509_extensions"], g))
      <4>1. PICK S : S = STRING
        OBVIOUS
      <4>2. /\ NULL \notin Seq(S) /\ L \in Seq(Seq(S) \ {<<>>}) /\ X \in Seq(Seq(S) \ {<<>>})
        BY <2>3, <3>1, <4>1
      <4>5. NULL \notin [start : Nat, end : Nat] /\ PlainFile(L) /\ PlainFile(X)
        BY <2>3, <3>1
      <4>3. PICK result : result = ParseExtFile(X, ParseCRT(L))
        OBVIOUS
      <4>4. AuthorityGives(L, X, ca, result)
        BY <3>2, <4>2, <4>3, <4>5, AuthorityIsRead
      <4> QED
        BY <3>1, <4>3, <4>4 DEF AuthorityGives
    <3>4. \A g \in CAFields : g \notin ExtensionFields
      BY CAFieldsDiffer
    <3>5. Documented(conf) = [g \in CAFields \union ExtensionFields |->
             IF g \in CAFields THEN ca[g]
             ELSE LastIn(X, DOMAIN X, g, Value(L, ca["x509_extensions"], g))]
      BY <2>5, <3>1, <3>2 DEF Documented, AuthorityValues
    <3>6. Documented(conf)["crl_extensions"] = ca["crl_extensions"]
      BY <3>5 DEF CAFields
    <3>7. f \in ExtensionFields => Value(L, ca["crl_extensions"], f) = NULL
      BY <2>4, <2>5, <3>1, <3>6 DEF SetForCrls
    <3> QED
      BY <2>4, <3>3, <3>4, <3>5, <3>7
  <2> QED
    BY <2>1, <2>6, <2>7 DEF ConfigNext
<1> QED
  BY <1>1, <1>2, PTL DEF ConfigSpec
=============================================================================
