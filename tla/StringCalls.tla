---------------------------- MODULE StringCalls ----------------------------
(***************************************************************************)
(* Calls of the string functions on every short text, and what they owe    *)
(* their callers.                                                          *)
(***************************************************************************)
EXTENDS Strings

CONSTANTS
  Chars,        \* characters of the strings tried
  MaxLen,       \* bound: their length
  Limits,       \* limits on the number of pieces; a negative one is no limit
  Olds, News    \* texts that are replaced, and by what

\* Nothing is replaced where nothing is looked for.
ASSUME StringAssumption ==
  /\ MaxLen \in Nat /\ Limits \subseteq Int
  /\ Olds \subseteq Seq(Chars) \ {<<>>} /\ News \subseteq Seq(Chars)

VARIABLES
  text,     \* the argument of the call
  call      \* what was called on it, and what came back

svars == <<text, call>>

Texts == UNION {[1 .. n -> Chars] : n \in 0 .. MaxLen}

TextInit == text \in Texts /\ call = <<"none">>

TextSplit(seps, limit, remainder) ==
  call' = <<"split", seps, limit, remainder, Split(text, seps, limit, remainder)>>

TextTrim == call' = <<"trim", Trim(text)>>

TextReplace(old, new) ==
  call' = <<"replace", old, new, Replace(text, old, new), Allocated(text, old, new)>>

TextNext ==
  /\ call = <<"none">> /\ UNCHANGED text
  /\ \/ \E seps \in SUBSET Chars \ {{}}, limit \in Limits, remainder \in BOOLEAN :
          TextSplit(seps, limit, remainder)
     \/ TextTrim
     \/ \E old \in Olds, new \in News : TextReplace(old, new)

StringSpec == TextInit /\ [][TextNext]_svars

----------------------------------------------------------------------------

\* Splitting returns those runs in order, as many as the limit allows, and
\* the array sized from the separator count has room for all of them.
SplitCorrect ==
  call[1] = "split" =>
    LET runs   == Runs(text, call[2])
        limit  == call[3]
        pieces == call[5]
        want   == IF limit < 0 \/ Cardinality(runs) < limit THEN Cardinality(runs) ELSE limit
    IN /\ Len(pieces) = want
       /\ \A n \in 1 .. want :
            LET r == Nth(runs, n)
            IN pieces[n] = SubSeq(text, r[1], IF n = limit /\ call[4] THEN Len(text) ELSE r[2])

\* Trimming removes blanks at the ends, all of them, and nothing else.
TrimCorrect ==
  call[1] = "trim" =>
    \E i, j \in 0 .. Len(text) :
      /\ call[2] = SubSeq(text, i + 1, j)
      /\ \A k \in DOMAIN text : (k <= i \/ k > j) => text[k] \in Blank
      /\ i < j => text[i + 1] \notin Blank /\ text[j] \notin Blank

\* What dynamic_replace() writes, its zero included, fills the buffer its
\* first pass sized: the two passes agree on every overlapping occurrence.
ReplaceFits == call[1] = "replace" => Len(call[4]) + 1 = call[5]
=============================================================================
