------------------------------- MODULE Deque -------------------------------
(***************************************************************************)
(* What a list promises: a sequence that grows and shrinks at both ends,   *)
(* loses any element it is told to lose, and can be looked at anywhere.    *)
(***************************************************************************)
EXTENDS Integers, Sequences

CONSTANTS Elements, MaxIndex

VARIABLES seq, found

qvars == <<seq, found>>

Init == seq = <<>> /\ found = <<>>

Absent(e) == \A i \in DOMAIN seq : seq[i] # e
Add(e)    == Absent(e) /\ seq' \in {<<e>> \o seq, Append(seq, e)} /\ found' = <<>>

TakeFirst == /\ found' = IF seq = <<>> THEN <<>> ELSE <<Head(seq)>>
             /\ seq' = IF seq = <<>> THEN <<>> ELSE Tail(seq)

TakeLast == /\ found' = IF seq = <<>> THEN <<>> ELSE <<seq[Len(seq)]>>
            /\ seq' = SubSeq(seq, 1, Len(seq) - 1)

Drop(i) == /\ seq' = SubSeq(seq, 1, i - 1) \o SubSeq(seq, i + 1, Len(seq))
           /\ found' = <<>>

At(i)  == /\ found' = IF i < Len(seq) THEN <<seq[i + 1]>> ELSE <<>>
          /\ UNCHANGED seq
All    == found' = seq /\ seq' \in {seq, <<>>}

Next == \/ \E e \in Elements : Add(e)
        \/ TakeFirst \/ TakeLast \/ All
        \/ \E i \in DOMAIN seq : Drop(i)
        \/ \E i \in 0 .. MaxIndex : At(i)

Spec == Init /\ [][Next]_qvars
=============================================================================
