----------------------------- MODULE Dictionary -----------------------------
(***************************************************************************)
(* What a map promises: a partial function from keys to values, and for    *)
(* every call the answer the caller gets.  Smallest, largest and the       *)
(* sorted listings follow the order of the keys.                           *)
(***************************************************************************)
EXTENDS Integers, Sequences, FiniteSets

CONSTANTS Keys, Values, NULL

VARIABLES dict, answer

dvars == <<dict, answer>>

ValueAt(k) == IF k \in DOMAIN dict THEN dict[k] ELSE NULL
Rank(k)    == Cardinality({j \in DOMAIN dict : j <= k})
Sorted     == [i \in 1 .. Cardinality(DOMAIN dict) |-> CHOOSE k \in DOMAIN dict : Rank(k) = i]
Without(k) == [j \in DOMAIN dict \ {k} |-> dict[j]]

Init == dict = <<>> /\ answer = NULL

Get(k) == answer' = ValueAt(k) /\ UNCHANGED dict

\* A value that was replaced is handed back.
Set(k, v) ==
  /\ answer' = ValueAt(k)
  /\ dict' = [j \in DOMAIN dict \union {k} |-> IF j = k THEN v ELSE dict[j]]

Erase(k) == answer' = ValueAt(k) /\ dict' = Without(k)

\* An end of the key order, looked at or taken away.
End(k, rest) ==
  IF dict = <<>> THEN answer' = NULL /\ UNCHANGED dict
  ELSE k \in DOMAIN dict /\ answer' = <<k, dict[k]>> /\ dict' = rest
Smallest == LET k == Sorted[1] IN End(k, dict) \/ End(k, Without(k))
Largest  == LET k == Sorted[Len(Sorted)] IN End(k, dict) \/ End(k, Without(k))

ListKeys   == answer' = Sorted /\ UNCHANGED dict
ListValues == answer' = [i \in DOMAIN Sorted |-> dict[Sorted[i]]] /\ UNCHANGED dict
Destroy    == answer' = [i \in DOMAIN Sorted |-> dict[Sorted[i]]] /\ dict' = <<>>

Next ==
  \/ \E k \in Keys : Get(k) \/ Erase(k) \/ \E v \in Values : Set(k, v)
  \/ Smallest \/ Largest \/ ListKeys \/ ListValues \/ Destroy

Spec == Init /\ [][Next]_dvars
=============================================================================
