------------------------------ MODULE Strings ------------------------------
(***************************************************************************)
(* The string functions of ericstools every line of a configuration file,  *)
(* a database and an -extfile goes through.  A string is a sequence of     *)
(* characters without its terminating zero; the loops are those of the C   *)
(* code, with 1-based positions, so position Len + 1 is the zero.          *)
(***************************************************************************)
EXTENDS Integers, Sequences, FiniteSets

Blank == {" ", "\t", "\n", "\r"}

From(s, i) == SubSeq(s, i, Len(s))

\* Mutant: one separator is skipped, not all of them.
SkipOne(s, i, set) == IF i <= Len(s) /\ s[i] \in set THEN i + 1 ELSE i

\* The first position from i on that is not in set, and the first that is.
Skip(s, i, set) ==
  LET at[j \in 1 .. Len(s) + 1] == IF j <= Len(s) /\ s[j] \in set THEN at[j + 1] ELSE j
  IN at[i]
Find(s, i, set) ==
  LET at[j \in 1 .. Len(s) + 1] == IF j > Len(s) \/ s[j] \in set THEN j ELSE at[j + 1]
  IN at[i]

\* A negative limit means one piece more than there are separators.
MaxPieces(s, seps, limit) ==
  IF limit < 0 THEN Cardinality({i \in DOMAIN s : s[i] \in seps}) + 1 ELSE limit

\* split_on_separators(): at the limit the last piece may be all that is left.
Split(s, seps, limit, remainder) ==
  LET max == MaxPieces(s, seps, limit)
      piece[at \in (1 .. Len(s) + 1) \X (0 .. max)] ==    \* from a place on, after so many pieces
        LET i == at[1]
            n == at[2]
            end  == Find(s, i, seps)
            this == IF n + 1 < max \/ ~remainder THEN SubSeq(s, i, end - 1) ELSE From(s, i)
        IN IF i > Len(s) \/ n = max THEN <<>>
           ELSE <<this>> \o piece[<<Skip(s, end, seps), n + 1>>]
  IN piece[<<Skip(s, 1, seps), 0>>]

\* trim_flanking_whitespace()
Trim(s) ==
  LET start == Skip(s, 1, Blank)
      last[i \in 0 .. Len(s)] == IF i >= start /\ s[i] \in Blank THEN last[i - 1] ELSE i
  IN IF start > Len(s) THEN <<>> ELSE SubSeq(s, start, last[Len(s)])

StartsAt(s, i, old) ==
  i + Len(old) - 1 <= Len(s) /\ SubSeq(s, i, i + Len(old) - 1) = old

\* Mutant: the sizing pass counts overlapping occurrences.
OccurrencesOverlapping(s, old) == Cardinality({i \in DOMAIN s : StartsAt(s, i, old)})

\* dynamic_replace(): one pass sizes the buffer, a second one fills it.
Occurrences(s, old) ==
  LET n[i \in 1 .. Len(s) + 1] ==
        IF i > Len(s) THEN 0
        ELSE IF StartsAt(s, i, old) THEN 1 + n[i + Len(old)] ELSE n[i + 1]
  IN n[1]
Allocated(s, old, new) == Len(s) + 1 + Occurrences(s, old) * (Len(new) - Len(old))
Replace(s, old, new) ==
  LET rest[i \in 1 .. Len(s) + 1] ==
        IF i > Len(s) THEN <<>>
        ELSE IF StartsAt(s, i, old) THEN new \o rest[i + Len(old)] ELSE <<s[i]>> \o rest[i + 1]
  IN rest[1]

----------------------------------------------------------------------------

\* Where the pieces of a text are, without looking at it from left to right:
\* the maximal runs of characters that are not separators.
Runs(s, seps) ==
  {r \in (DOMAIN s) \X (DOMAIN s) :
     /\ r[1] <= r[2] /\ \A i \in r[1] .. r[2] : s[i] \notin seps
     /\ r[1] = 1 \/ s[r[1] - 1] \in seps
     /\ r[2] = Len(s) \/ s[r[2] + 1] \in seps}
Nth(set, n) == CHOOSE r \in set : Cardinality({q \in set : q[1] <= r[1]}) = n
=============================================================================
