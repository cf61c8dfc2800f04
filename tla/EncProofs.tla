----------------------------- MODULE EncProofs -----------------------------
(***************************************************************************)
(* The three promises of "enc" as theorems: for files of any length, any   *)
(* sizes of block and chunk, any arguments and any sequence of commands.   *)
(***************************************************************************)
EXTENDS Enc, SequenceTheorems, TLAPS

----------------------------------------------------------------------------
(* Whole blocks *)

\* at is the end of a block.
AtBlock(at) == \E q \in Nat : at = q * Block

LEMMA ModIs ==
  ASSUME EncAssumption, NEW a \in Nat
  PROVE  a % Block \in 0 .. Block - 1 /\ a % Block <= a /\ AtBlock(a - (a % Block))
<1>1. Block \in Nat /\ Block > 0
  BY DEF EncAssumption
<1>2. PICK q, r : q = a \div Block /\ r = a % Block
  OBVIOUS
<1>3. q \in Nat /\ r \in 0 .. Block - 1 /\ a = Block * q + r
  BY <1>1, <1>2
<1>4. PICK b : b = q * Block
  OBVIOUS
<1>5. b \in Nat /\ a = b + r
  <2>1. Block * q = q * Block
    BY <1>1, <1>3
  <2> QED
    BY <1>1, <1>3, <1>4, <2>1
<1>6. r <= a /\ a - r = b
  BY <1>1, <1>3, <1>5
<1> QED
  BY <1>2, <1>3, <1>4, <1>6 DEF AtBlock

LEMMA ModUnique ==
  ASSUME EncAssumption, NEW at \in Nat, AtBlock(at), NEW r \in Nat, r < Block
  PROVE  (at + r) % Block = r
<1>1. Block \in Nat /\ Block > 0
  BY DEF EncAssumption
<1>2. PICK q \in Nat : at = q * Block
  BY DEF AtBlock
<1>3. PICK s : s = (at + r) % Block
  OBVIOUS
<1>4. s \in 0 .. Block - 1 /\ AtBlock(at + r - s)
  <2>1. at + r \in Nat
    OBVIOUS
  <2>2. (at + r) % Block \in 0 .. Block - 1 /\ AtBlock((at + r) - ((at + r) % Block))
    BY <2>1, ModIs
  <2> QED
    BY <1>3, <2>2
<1>5. PICK p \in Nat : at + r - s = p * Block
  BY <1>4 DEF AtBlock
<1>6. (q - p) * Block = s - r
  BY <1>1, <1>2, <1>4, <1>5
<1>7. q - p = 0
  <2>1. CASE q - p >= 1
    <3>1. (q - p) * Block >= Block
      BY <1>1, <2>1
    <3> QED
      BY <1>1, <1>4, <1>6, <3>1
  <2>2. CASE q - p <= -1
    <3>1. (q - p) * Block <= -Block
      BY <1>1, <2>2
    <3> QED
      BY <1>1, <1>4, <1>6, <3>1
  <2> QED
    BY <2>1, <2>2
<1> QED
  BY <1>1, <1>3, <1>4, <1>6, <1>7

LEMMA BlocksAdd ==
  ASSUME EncAssumption, NEW a \in Nat, NEW b \in Nat, AtBlock(a), AtBlock(b)
  PROVE  AtBlock(a + b)
<1>1. Block \in Nat
  BY DEF EncAssumption
<1>2. PICK p \in Nat, q \in Nat : a = p * Block /\ b = q * Block
  BY DEF AtBlock
<1>3. a + b = (p + q) * Block /\ p + q \in Nat
  BY <1>1, <1>2
<1> QED
  BY <1>3 DEF AtBlock

\* Past the end of a block, the next end is a block away.
LEMMA NextBlock ==
  ASSUME EncAssumption, NEW a \in Nat, NEW b \in Nat, AtBlock(a), AtBlock(b), a < b
  PROVE  a + Block <= b
<1>1. Block \in Nat /\ Block > 0
  BY DEF EncAssumption
<1>2. PICK p \in Nat, q \in Nat : a = p * Block /\ b = q * Block
  BY DEF AtBlock
<1>3. q > p
  <2>1. CASE q <= p
    <3>1. q * Block <= p * Block
      BY <1>1, <2>1
    <3> QED
      BY <1>1, <1>2, <3>1
  <2> QED
    BY <2>1
<1>4. (q - p) * Block >= Block
  BY <1>1, <1>3
<1>5. (q - p) * Block = b - a
  BY <1>1, <1>2
<1> QED
  BY <1>1, <1>4, <1>5
----------------------------------------------------------------------------
(* A piece of a file *)

LEMMA FunctionIsSeq ==
  ASSUME NEW S, NEW l \in Nat, NEW f \in [1 .. l -> S]
  PROVE  f \in Seq(S) /\ Len(f) = l
OBVIOUS

LEMMA Piece ==
  ASSUME NEW S, NEW C \in Seq(S), NEW a \in Nat, NEW b \in Nat, a <= b, b <= Len(C)
  PROVE  /\ SubSeq(C, a + 1, b) \in Seq(S)
         /\ Len(SubSeq(C, a + 1, b)) = b - a
         /\ \A i \in 1 .. b - a : SubSeq(C, a + 1, b)[i] = C[a + i]
<1>1. Len(C) \in Nat /\ \A i \in 1 .. Len(C) : C[i] \in S
  OBVIOUS
<1>2. \A i \in a + 1 .. b : C[i] \in S
  BY <1>1
<1>3. /\ SubSeq(C, a + 1, b) \in Seq(S)
      /\ Len(SubSeq(C, a + 1, b)) = (IF a + 1 <= b THEN b - (a + 1) + 1 ELSE 0)
      /\ \A i \in 1 .. b - (a + 1) + 1 : SubSeq(C, a + 1, b)[i] = C[(a + 1) + i - 1]
  BY <1>2, SubSeqProperties
<1>4. b - (a + 1) + 1 = b - a /\ \A i \in 1 .. b - a : (a + 1) + i - 1 = a + i
  OBVIOUS
<1> QED
  BY <1>3, <1>4

LEMMA PieceOfPiece ==
  ASSUME NEW S, NEW C \in Seq(S), NEW a \in Nat, NEW b \in Nat, a <= b, b <= Len(C),
         NEW i \in Nat, NEW j \in Nat, i <= j, j <= b - a
  PROVE  SubSeq(SubSeq(C, a + 1, b), i + 1, j) = SubSeq(C, a + i + 1, a + j)
<1>1. PICK p : p = SubSeq(C, a + 1, b)
  OBVIOUS
<1>2. p \in Seq(S) /\ Len(p) = b - a /\ \A n \in 1 .. b - a : p[n] = C[a + n]
  BY <1>1, Piece
<1>3. /\ SubSeq(p, i + 1, j) \in Seq(S) /\ Len(SubSeq(p, i + 1, j)) = j - i
      /\ \A n \in 1 .. j - i : SubSeq(p, i + 1, j)[n] = p[i + n]
  BY <1>2, Piece
<1>4. a + i \in Nat /\ a + j \in Nat /\ a + i <= a + j /\ a + j <= Len(C) /\ (a + j) - (a + i) = j - i
  OBVIOUS
<1>5. /\ SubSeq(C, a + i + 1, a + j) \in Seq(S) /\ Len(SubSeq(C, a + i + 1, a + j)) = j - i
      /\ \A n \in 1 .. j - i : SubSeq(C, a + i + 1, a + j)[n] = C[a + i + n]
  BY <1>4, Piece
<1>6. \A n \in 1 .. j - i : p[i + n] = C[a + i + n]
  BY <1>2
<1> QED
  BY <1>1, <1>3, <1>5, <1>6, SeqEqual

LEMMA PiecesJoin ==
  ASSUME NEW S, NEW C \in Seq(S), NEW a \in Nat, NEW b \in Nat, NEW c \in Nat,
         a <= b, b <= c, c <= Len(C)
  PROVE  SubSeq(C, a + 1, b) \o SubSeq(C, b + 1, c) = SubSeq(C, a + 1, c)
<1>1. a + 1 \in 1 .. Len(C) + 1 /\ b \in (a + 1) - 1 .. Len(C) /\ c \in b .. Len(C)
  OBVIOUS
<1> QED
  BY <1>1, ConcatAdjacentSubSeq
----------------------------------------------------------------------------
(* A cipher context *)

\* The context of a command that has read C up to pos and processed it up to at.
Context(key, dec, padded, C, at, pos) ==
  [key |-> key, decrypt |-> dec, padded |-> padded, rest |-> SubSeq(C, at + 1, pos), at |-> at]

\* What is held back: nothing, or less than a block, or, where it may be the
\* padding, a block.
Balanced(key, dec, padded, at, pos) ==
  /\ at \in Nat /\ pos \in Nat /\ at <= pos
  /\ key.mode # "cbc" => at = pos
  /\ key.mode = "cbc" =>
       /\ AtBlock(at) /\ pos <= at + Block
       /\ IF dec /\ padded THEN pos > 0 => at < pos ELSE pos < at + Block

\* A unit that was processed, and those from one place to another.
Unit(key, dec, u, at) ==
  IF ~dec THEN [kind |-> "cipher", val |-> u.val, key |-> key, at |-> at]
  ELSE IF u.kind = "cipher" /\ u.key = key /\ u.at = at THEN Text(u.val) ELSE Noise
Units(key, dec, C, from, to) == [i \in 1 .. to - from |-> Unit(key, dec, C[from + i], from + i)]

LEMMA ContextStarts ==
  ASSUME EncAssumption, NEW key, NEW dec, NEW padded, NEW S, NEW C \in Seq(S)
  PROVE  /\ NewContext(key, dec, padded) = Context(key, dec, padded, C, 0, 0)
         /\ Balanced(key, dec, padded, 0, 0)
<1>1. SubSeq(C, 0 + 1, 0) = <<>>
  BY SubSeqEmpty
<1>2. Block \in Nat /\ Block > 0 /\ 0 = 0 * Block
  BY DEF EncAssumption
<1> QED
  BY <1>1, <1>2 DEF NewContext, Context, Balanced, AtBlock

LEMMA ProcessedIs ==
  ASSUME NEW key, NEW dec, NEW padded, NEW S, NEW C \in Seq(S), NEW at \in Nat, NEW pos \in Nat,
         NEW to \in Nat, at <= to, to <= Len(C)
  PROVE  Processed(Context(key, dec, padded, C, at, pos), SubSeq(C, at + 1, to))
           = Units(key, dec, C, at, to)
<1>1. PICK p : p = SubSeq(C, at + 1, to)
  OBVIOUS
<1>2. p \in Seq(S) /\ Len(p) = to - at /\ \A i \in 1 .. to - at : p[i] = C[at + i]
  BY <1>1, Piece
<1>3. DOMAIN p = 1 .. to - at
  BY <1>2
<1>4. PICK ctx : ctx = Context(key, dec, padded, C, at, pos)
  OBVIOUS
<1>5. ctx.key = key /\ ctx.decrypt = dec /\ ctx.at = at
  BY <1>4 DEF Context
<1>6. Processed(ctx, p) = [i \in 1 .. to - at |-> Unit(key, dec, p[i], at + i)]
  BY <1>3, <1>5 DEF Processed, Unit
<1>7. \A i \in 1 .. to - at : Unit(key, dec, p[i], at + i) = Unit(key, dec, C[at + i], at + i)
  BY <1>2
<1> QED
  BY <1>1, <1>4, <1>6, <1>7 DEF Units

\* What mbedtls_cipher_update() holds back of n units.
KeptBack(ctx, n) ==
  IF ~CBC(ctx) THEN 0
  ELSE IF n % Block = 0 /\ n > 0 /\ ctx.decrypt /\ ctx.padded THEN Block ELSE n % Block

\* The context that mbedtls_cipher_update() leaves.
Moved(ctx, rest, at) == [ctx EXCEPT !.rest = rest, !.at = at]

\* What mbedtls_cipher_update() makes of the units it has when it keeps some.
Split(ctx, all, kept) ==
  [ctx |-> Moved(ctx, SubSeq(all, Len(all) - kept + 1, Len(all)),
                 ctx.at + Len(SubSeq(all, 1, Len(all) - kept))),
   out |-> Processed(ctx, SubSeq(all, 1, Len(all) - kept))]

LEMMA UpdateParts ==
  ASSUME NEW S, NEW ctx, NEW units, ctx.rest \o units \in Seq(S)
  PROVE  Update(ctx, units) =
           Split(ctx, ctx.rest \o units, KeptBack(ctx, Len(ctx.rest \o units)))
<1>1. PICK all : all = ctx.rest \o units
  OBVIOUS
<1>2. all \in Seq(S) /\ (all # <<>> <=> Len(all) > 0)
  BY <1>1
<1>3. PICK kept : kept = IF ~CBC(ctx) THEN 0
                         ELSE IF Len(all) % Block = 0 /\ all # <<>> /\ ctx.decrypt /\ ctx.padded
                         THEN Block ELSE Len(all) % Block
  OBVIOUS
<1>4. kept = KeptBack(ctx, Len(all))
  BY <1>2, <1>3 DEF KeptBack
<1>5. Update(ctx, units) = Split(ctx, all, kept)
  BY <1>1, <1>3 DEF Update, Split, Moved
<1> QED
  BY <1>1, <1>4, <1>5

LEMMA KeptIs ==
  ASSUME EncAssumption, NEW ctx, NEW n \in Nat
  PROVE  /\ KeptBack(ctx, n) \in Nat /\ KeptBack(ctx, n) <= n
         /\ ~CBC(ctx) => KeptBack(ctx, n) = 0
         /\ CBC(ctx) => /\ AtBlock(n - KeptBack(ctx, n)) /\ KeptBack(ctx, n) <= Block
                        /\ IF ctx.decrypt /\ ctx.padded THEN n > 0 => KeptBack(ctx, n) > 0
                                                        ELSE KeptBack(ctx, n) < Block
<1>1. Block \in Nat /\ Block > 0 /\ AtBlock(0)
  <2>1. 0 = 0 * Block
    BY DEF EncAssumption
  <2> QED
    BY <2>1 DEF EncAssumption, AtBlock
<1>2. PICK over : over = n % Block
  OBVIOUS
<1>3. over \in 0 .. Block - 1 /\ over <= n /\ AtBlock(n - over)
  BY <1>2, ModIs
<1>4. PICK k : k = KeptBack(ctx, n)
  OBVIOUS
<1>5. CASE ~CBC(ctx)
  BY <1>5 DEF KeptBack
<1>6. CASE CBC(ctx) /\ over = 0 /\ n > 0 /\ ctx.decrypt /\ ctx.padded
  <2>1. KeptBack(ctx, n) = Block
    BY <1>2, <1>6 DEF KeptBack
  <2>2. Block <= n /\ AtBlock(n - Block)
    <3>1. AtBlock(n)
      BY <1>3, <1>6
    <3>2. 0 + Block <= n
      BY <1>1, <1>6, <3>1, NextBlock
    <3>3. PICK q \in Nat : n = q * Block
      BY <3>1 DEF AtBlock
    <3>4. q # 0 /\ n - Block = (q - 1) * Block
      BY <1>1, <1>6, <3>3
    <3> QED
      BY <1>1, <3>2, <3>4 DEF AtBlock
  <2> QED
    BY <1>1, <1>6, <2>1, <2>2
<1>7. CASE CBC(ctx) /\ ~(over = 0 /\ n > 0 /\ ctx.decrypt /\ ctx.padded)
  <2>1. KeptBack(ctx, n) = over
    BY <1>2, <1>7 DEF KeptBack
  <2> QED
    BY <1>1, <1>3, <1>7, <2>1
<1> QED
  BY <1>5, <1>6, <1>7

LEMMA MovedIs ==
  ASSUME NEW key, NEW dec, NEW padded, NEW C, NEW at, NEW pos, NEW now, NEW to
  PROVE  Moved(Context(key, dec, padded, C, at, pos), SubSeq(C, now + 1, to), now)
           = Context(key, dec, padded, C, now, to)
<1>1. PICK r : r = Context(key, dec, padded, C, at, pos)
  OBVIOUS
<1>2. PICK rest, held : rest = SubSeq(C, now + 1, to) /\ held = SubSeq(C, at + 1, pos)
  OBVIOUS
<1>3. r = [key |-> key, decrypt |-> dec, padded |-> padded, rest |-> held, at |-> at]
  BY <1>1, <1>2 DEF Context
<1>4. PICK a : a = [r EXCEPT !.rest = rest]
  OBVIOUS
<1>5. a = [key |-> key, decrypt |-> dec, padded |-> padded, rest |-> rest, at |-> at]
  BY <1>3, <1>4
<1>6. [a EXCEPT !.at = now] = [key |-> key, decrypt |-> dec, padded |-> padded, rest |-> rest, at |-> now]
  BY <1>5
<1>7. Moved(r, rest, now) = [a EXCEPT !.at = now]
  BY <1>4 DEF Moved
<1> QED
  BY <1>1, <1>2, <1>6, <1>7 DEF Context

IsPiece(units, text, from, to) == units = SubSeq(text, from + 1, to)

\* A context that has read up to pos reads k units more: it is then the
\* context that has read up to there, and what it gave out are the units up to
\* the new place.
Updated(key, dec, padded, C, at, to, up) ==
  \E now \in Nat :
    /\ at <= now /\ now <= to /\ Balanced(key, dec, padded, now, to)
    /\ up = [ctx |-> Context(key, dec, padded, C, now, to), out |-> Units(key, dec, C, at, now)]

LEMMA UpdateIs ==
  ASSUME EncAssumption, NEW key, NEW dec, NEW padded, NEW S, NEW C \in Seq(S),
         NEW at \in Nat, NEW pos \in Nat, NEW k \in Nat, pos + k <= Len(C),
         Balanced(key, dec, padded, at, pos), NEW ctx, ctx = Context(key, dec, padded, C, at, pos),
         NEW read, IsPiece(read, C, pos, pos + k), NEW up, up = Update(ctx, read)
  PROVE  Updated(key, dec, padded, C, at, pos + k, up)
<1>1. at <= pos /\ pos + k \in Nat /\ Len(C) \in Nat
  BY DEF Balanced
<1>2. read = SubSeq(C, pos + 1, pos + k)
  BY DEF IsPiece
<1>3. /\ ctx.rest = SubSeq(C, at + 1, pos) /\ ctx.at = at /\ ctx.decrypt = dec /\ ctx.padded = padded
      /\ CBC(ctx) <=> key.mode = "cbc"
  BY DEF Context, CBC
<1>4. PICK all : all = SubSeq(C, at + 1, pos + k)
  OBVIOUS
<1>5. all = ctx.rest \o read
  <2>1. SubSeq(C, at + 1, pos) \o SubSeq(C, pos + 1, pos + k) = SubSeq(C, at + 1, pos + k)
    BY <1>1, PiecesJoin
  <2> QED
    BY <1>2, <1>3, <1>4, <2>1
<1>6. all \in Seq(S) /\ Len(all) = pos + k - at
  BY <1>1, <1>4, Piece
<1>7. PICK n, kept : n = pos + k - at /\ kept = KeptBack(ctx, n)
  OBVIOUS
<1>8. /\ n \in Nat /\ kept \in Nat /\ kept <= n
      /\ ~CBC(ctx) => kept = 0
      /\ CBC(ctx) => /\ AtBlock(n - kept) /\ kept <= Block
                     /\ IF dec /\ padded THEN n > 0 => kept > 0 ELSE kept < Block
  <2>1. n \in Nat
    BY <1>1, <1>7
  <2> QED
    BY <1>3, <1>7, <2>1, KeptIs
<1>9. PICK now : now = at + (n - kept)
  OBVIOUS
<1>10. now \in at .. pos + k /\ now \in Nat /\ pos + k - now = kept
  BY <1>1, <1>7, <1>8, <1>9
<1>11. SubSeq(all, 1, n - kept) = SubSeq(C, at + 1, now) /\ SubSeq(all, n - kept + 1, n) = SubSeq(C, now + 1, pos + k)
  <2> DEFINE m == n - kept
  <2>0. m \in Nat /\ 0 <= m /\ m <= n /\ m <= pos + k - at /\ n <= pos + k - at /\ at <= pos + k
    BY <1>1, <1>7, <1>8
  <2> HIDE DEF m
  <2>1. SubSeq(SubSeq(C, at + 1, pos + k), 0 + 1, m) = SubSeq(C, at + 0 + 1, at + m)
    BY <1>1, <2>0, PieceOfPiece
  <2>2. SubSeq(SubSeq(C, at + 1, pos + k), m + 1, n) = SubSeq(C, at + m + 1, at + n)
    BY <1>1, <1>8, <2>0, PieceOfPiece
  <2>3. at + 0 + 1 = at + 1 /\ 0 + 1 = 1 /\ at + n = pos + k
    BY <1>1, <1>7
  <2> QED
    BY <1>4, <1>9, <2>1, <2>2, <2>3 DEF m
<1>12. Len(SubSeq(C, at + 1, now)) = n - kept
  <2>1. at <= now /\ now <= Len(C)
    BY <1>1, <1>10
  <2>2. now - at = n - kept
    BY <1>8, <1>9
  <2> QED
    BY <1>10, <2>1, <2>2, Piece
<1>13. up = [ctx |-> Moved(ctx, SubSeq(C, now + 1, pos + k), now),
             out |-> Processed(ctx, SubSeq(C, at + 1, now))]
  <2>1. all = ctx.rest \o read /\ ctx.rest \o read \in Seq(S) /\ n = Len(all)
    BY <1>5, <1>6, <1>7
  <2>2. up = Split(ctx, all, kept)
    BY <1>7, <2>1, UpdateParts
  <2>3. ctx.at + Len(SubSeq(all, 1, n - kept)) = now
    BY <1>3, <1>9, <1>11, <1>12
  <2> QED
    BY <1>11, <2>1, <2>2, <2>3 DEF Split
<1>14. Moved(ctx, SubSeq(C, now + 1, pos + k), now) = Context(key, dec, padded, C, now, pos + k)
  BY MovedIs
<1>15. Processed(ctx, SubSeq(C, at + 1, now)) = Units(key, dec, C, at, now)
  BY <1>1, <1>10, ProcessedIs
<1>16. Balanced(key, dec, padded, now, pos + k)
  <2>1. CASE key.mode # "cbc"
    BY <1>3, <1>8, <1>10, <2>1 DEF Balanced
  <2>2. CASE key.mode = "cbc"
    <3>1. AtBlock(now)
      BY <1>3, <1>8, <1>9, <2>2, BlocksAdd DEF Balanced
    <3>2. dec /\ padded => (pos + k > 0 => now < pos + k)
      <4>1. dec /\ padded /\ pos + k > 0 => n > 0
        BY <1>1, <1>7, <2>2 DEF Balanced
      <4> QED
        BY <1>1, <1>3, <1>8, <1>10, <2>2, <4>1
    <3>3. Block \in Nat
      BY DEF EncAssumption
    <3> QED
      BY <1>1, <1>3, <1>8, <1>10, <2>2, <3>1, <3>2, <3>3 DEF Balanced
  <2> QED
    BY <2>1, <2>2
<1> QED
  <2>1. at <= now /\ now <= pos + k
    BY <1>10
  <2>2. up = [ctx |-> Context(key, dec, padded, C, now, pos + k), out |-> Units(key, dec, C, at, now)]
    BY <1>13, <1>14, <1>15
  <2> QED
    BY <1>10, <1>16, <2>1, <2>2 DEF Updated

----------------------------------------------------------------------------
(* What is encrypted, and what it is decrypted to *)

\* The encrypted units from one place to another: those of the text, then the padding.
Sealed(key, text, pad, i) ==
  [kind |-> "cipher", key |-> key, at |-> i, val |-> IF i <= Len(text) THEN text[i].val ELSE pad]
SealedUnits(key, text, pad) == {Sealed(key, text, pad, i) : i \in Nat}
Ciphertext(key, text, pad, from, to) == [i \in 1 .. to - from |-> Sealed(key, text, pad, from + i)]

\* pad is the padding that a text of n units gets.
IsPad(key, padded, n, pad) == pad = IF key.mode = "cbc" /\ padded THEN Block - (n % Block) ELSE 0

PadOK(key, padded, n, pad) ==
  /\ pad \in Nat /\ pad <= Block
  /\ key.mode = "cbc" /\ padded => pad > 0 /\ AtBlock(n + pad)
  /\ ~(key.mode = "cbc" /\ padded) => pad = 0

LEMMA PadIs ==
  ASSUME EncAssumption, NEW key, NEW padded, NEW n \in Nat, NEW pad, IsPad(key, padded, n, pad)
  PROVE  PadOK(key, padded, n, pad)
<1>1. Block \in Nat /\ Block > 0
  BY DEF EncAssumption
<1>2. PICK over : over = n % Block
  OBVIOUS
<1>3. over \in 0 .. Block - 1 /\ over <= n /\ AtBlock(n - over)
  BY <1>2, ModIs
<1>4. AtBlock((n - over) + Block)
  <2>1. Block = 1 * Block
    BY <1>1
  <2>2. AtBlock(Block)
    BY <2>1 DEF AtBlock
  <2>3. n - over \in Nat
    BY <1>3
  <2> QED
    BY <1>1, <1>3, <2>2, <2>3, BlocksAdd
<1>5. CASE key.mode = "cbc" /\ padded
  <2>1. pad = Block - over
    BY <1>2, <1>5 DEF IsPad
  <2>2. n + pad = (n - over) + Block
    BY <1>1, <1>3, <2>1
  <2> QED
    BY <1>1, <1>3, <1>4, <1>5, <2>1, <2>2 DEF PadOK
<1>6. CASE ~(key.mode = "cbc" /\ padded)
  BY <1>1, <1>6 DEF IsPad, PadOK
<1> QED
  BY <1>5, <1>6

SealedFrom(key, text, pad, from, to, c) ==
  /\ c \in Seq(SealedUnits(key, text, pad)) /\ Len(c) = to - from
  /\ \A i \in 1 .. to - from : c[i] = Sealed(key, text, pad, from + i)

LEMMA CiphertextIs ==
  ASSUME NEW key, NEW text, NEW pad, NEW from \in Nat, NEW to \in Nat, from <= to
  PROVE  SealedFrom(key, text, pad, from, to, Ciphertext(key, text, pad, from, to))
<1>1. to - from \in Nat /\ \A i \in 1 .. to - from : Sealed(key, text, pad, from + i) \in SealedUnits(key, text, pad)
  BY DEF SealedUnits
<1>2. PICK c : c = Ciphertext(key, text, pad, from, to)
  OBVIOUS
<1>3. c = [i \in 1 .. to - from |-> Sealed(key, text, pad, from + i)]
  BY <1>2 DEF Ciphertext
<1>4. c \in [1 .. to - from -> SealedUnits(key, text, pad)]
  BY <1>1, <1>3
<1>5. c \in Seq(SealedUnits(key, text, pad)) /\ Len(c) = to - from
  BY <1>1, <1>4
<1> QED
  BY <1>2, <1>3, <1>5 DEF SealedFrom

LEMMA CiphertextJoins ==
  ASSUME NEW key, NEW text, NEW pad, NEW from \in Nat, NEW mid \in Nat, NEW to \in Nat,
         from <= mid, mid <= to
  PROVE  Ciphertext(key, text, pad, from, mid) \o Ciphertext(key, text, pad, mid, to)
           = Ciphertext(key, text, pad, from, to)
<1>1. PICK a, b, c : /\ a = Ciphertext(key, text, pad, from, mid) /\ b = Ciphertext(key, text, pad, mid, to)
                     /\ c = Ciphertext(key, text, pad, from, to)
  OBVIOUS
<1>2. PICK U : U = SealedUnits(key, text, pad)
  OBVIOUS
<1>3. from <= to
  OBVIOUS
<1>5. a \in Seq(U) /\ Len(a) = mid - from /\ \A i \in 1 .. mid - from : a[i] = Sealed(key, text, pad, from + i)
  <2>1. SealedFrom(key, text, pad, from, mid, a)
    BY <1>1, <1>3, CiphertextIs
  <2> QED
    BY <1>2, <2>1 DEF SealedFrom
<1>6. b \in Seq(U) /\ Len(b) = to - mid /\ \A i \in 1 .. to - mid : b[i] = Sealed(key, text, pad, mid + i)
  <2>1. SealedFrom(key, text, pad, mid, to, b)
    BY <1>1, <1>3, CiphertextIs
  <2> QED
    BY <1>2, <2>1 DEF SealedFrom
<1>7. c \in Seq(U) /\ Len(c) = to - from /\ \A i \in 1 .. to - from : c[i] = Sealed(key, text, pad, from + i)
  <2>1. SealedFrom(key, text, pad, from, to, c)
    BY <1>1, <1>3, CiphertextIs
  <2> QED
    BY <1>2, <2>1 DEF SealedFrom
<1>8. /\ a \o b \in Seq(U) /\ Len(a \o b) = to - from
      /\ \A i \in 1 .. to - from : (a \o b)[i] = IF i <= mid - from THEN a[i] ELSE b[i - (mid - from)]
  <2>1. a \in Seq(U) /\ b \in Seq(U) /\ Len(a) = mid - from /\ Len(b) = to - mid
    BY <1>5, <1>6
  <2>2. /\ a \o b \in Seq(U) /\ Len(a \o b) = Len(a) + Len(b)
        /\ \A i \in 1 .. Len(a) + Len(b) : (a \o b)[i] = IF i <= Len(a) THEN a[i] ELSE b[i - Len(a)]
    BY <2>1, ConcatProperties
  <2>3. Len(a) + Len(b) = to - from
    BY <2>1
  <2> QED
    BY <2>1, <2>2, <2>3
<1>9. \A i \in 1 .. to - from : (a \o b)[i] = c[i]
  <2> SUFFICES ASSUME NEW i \in 1 .. to - from
               PROVE  (a \o b)[i] = c[i]
    OBVIOUS
  <2>1. CASE i <= mid - from
    <3>1. i \in 1 .. mid - from
      BY <2>1
    <3>2. (a \o b)[i] = a[i]
      BY <1>8, <2>1
    <3> QED
      BY <1>5, <1>7, <3>1, <3>2
  <2>2. CASE i > mid - from
    <3>1. i - (mid - from) \in 1 .. to - mid
      BY <2>2
    <3>2. (a \o b)[i] = b[i - (mid - from)]
      BY <1>8, <2>2
    <3>3. PICK j, place : j = i - (mid - from) /\ place = from + i
      OBVIOUS
    <3>4. mid + j = place
      BY <3>3
    <3>5. b[j] = Sealed(key, text, pad, place)
      BY <1>6, <3>1, <3>3, <3>4
    <3>6. c[i] = Sealed(key, text, pad, place)
      BY <1>7, <3>3
    <3>7. (a \o b)[i] = b[j]
      BY <3>2, <3>3
    <3> QED
      BY <3>5, <3>6, <3>7
  <2>3. i <= mid - from \/ i > mid - from
    OBVIOUS
  <2> QED
    BY <2>1, <2>2, <2>3
<1> QED
  BY <1>1, <1>7, <1>8, <1>9, SeqEqual

\* What an encryption gives out of a text.
LEMMA UnitsEncrypted ==
  ASSUME NEW key, NEW dec, ~dec, NEW S, NEW text \in Seq(S), NEW pad,
         NEW from \in Nat, NEW to \in Nat, from <= to, to <= Len(text)
  PROVE  Units(key, dec, text, from, to) = Ciphertext(key, text, pad, from, to)
<1>1. \A i \in 1 .. to - from : Unit(key, dec, text[from + i], from + i) = Sealed(key, text, pad, from + i)
  <2> SUFFICES ASSUME NEW i \in 1 .. to - from
               PROVE  Unit(key, dec, text[from + i], from + i) = Sealed(key, text, pad, from + i)
    OBVIOUS
  <2>1. PICK at, u : at = from + i /\ u = text[at]
    OBVIOUS
  <2>2. at <= Len(text)
    BY <2>1
  <2>3. Unit(key, dec, u, at) = Sealed(key, text, pad, at)
    BY <2>1, <2>2 DEF Unit, Sealed
  <2> QED
    BY <2>1, <2>3
<1> QED
  BY <1>1 DEF Units, Ciphertext

\* Encrypting, mbedtls_cipher_finish() gives out the rest of the text and the padding.
LEMMA FinishEncrypts ==
  ASSUME EncAssumption, NEW key, NEW dec, ~dec, NEW padded, NEW S, NEW text \in Seq(S),
         NEW at \in Nat, Balanced(key, dec, padded, at, Len(text)),
         NEW pad, IsPad(key, padded, Len(text), pad),
         NEW last \in Finish(Context(key, dec, padded, text, at, Len(text)))
  PROVE  \/ last = NULL
         \/ /\ last = Ciphertext(key, text, pad, at, Len(text) + pad)
            /\ key.mode = "cbc" => AtBlock(Len(text) + pad)
<1>1. PICK ctx, n : ctx = Context(key, dec, padded, text, at, Len(text)) /\ n = Len(text)
  OBVIOUS
<1>2. Block \in Nat /\ Block > 0 /\ n \in Nat /\ at <= n
  BY <1>1 DEF EncAssumption, Balanced
<1>3. /\ ctx.rest = SubSeq(text, at + 1, n) /\ ctx.at = at /\ ctx.key = key /\ ctx.decrypt = dec
      /\ ctx.padded = padded /\ (CBC(ctx) <=> key.mode = "cbc")
  BY <1>1 DEF Context, CBC
<1>4. ctx.rest \in Seq(S) /\ Len(ctx.rest) = n - at
  BY <1>1, <1>2, <1>3, Piece
<1>5. /\ pad \in Nat /\ pad <= Block
      /\ key.mode = "cbc" /\ padded => pad > 0 /\ AtBlock(n + pad)
      /\ ~(key.mode = "cbc" /\ padded) => pad = 0
  <2>1. IsPad(key, padded, n, pad)
    BY <1>1
  <2>2. n \in Nat
    BY <1>2
  <2>3. PadOK(key, padded, n, pad)
    BY <2>1, <2>2, PadIs
  <2> QED
    BY <2>3 DEF PadOK
<1>6. Ciphertext(key, text, pad, n, n) = <<>>
  BY <1>2 DEF Ciphertext
<1>7. CASE ~CBC(ctx)
  <2>1. last = <<>>
    BY <1>1, <1>7 DEF Finish
  <2>2. at = n /\ n + pad = n
    BY <1>1, <1>2, <1>3, <1>5, <1>7 DEF Balanced
  <2> QED
    BY <1>1, <1>3, <1>6, <1>7, <2>1, <2>2
<1>8. CASE CBC(ctx) /\ ~padded
  <2>1. last = NULL \/ (last = <<>> /\ Len(ctx.rest) = 0)
    BY <1>1, <1>3, <1>8 DEF Finish
  <2>2. Len(ctx.rest) = 0 => at = n /\ n + pad = n
    BY <1>2, <1>4, <1>5, <1>8
  <2>3. AtBlock(at)
    BY <1>1, <1>3, <1>8 DEF Balanced
  <2> QED
    BY <1>1, <1>6, <2>1, <2>2, <2>3
<1>9. CASE CBC(ctx) /\ padded
  <2>1. PICK padding : padding = [i \in 1 .. Block - Len(ctx.rest) |-> Text(Block - Len(ctx.rest))]
    OBVIOUS
  <2>2. last = Processed(ctx, ctx.rest \o padding)
    BY <1>1, <1>3, <1>9, <2>1 DEF Finish
  <2>3. pad = Block - (n - at)
    <3>1. n - at \in Nat /\ n - at < Block /\ AtBlock(at)
      BY <1>1, <1>2, <1>3, <1>9 DEF Balanced
    <3>2. (at + (n - at)) % Block = n - at
      BY <3>1, ModUnique
    <3>3. at + (n - at) = n
      BY <1>2
    <3> QED
      BY <1>1, <1>3, <1>9, <3>2, <3>3 DEF IsPad
  <2>4. PICK T : T = S \union {Text(pad)}
    OBVIOUS
  <2>5. padding = [i \in 1 .. pad |-> Text(pad)]
    <3>1. Block - Len(ctx.rest) = pad
      BY <1>4, <2>3
    <3> QED
      BY <2>1, <3>1
  <2>6. padding \in Seq(T) /\ Len(padding) = pad /\ \A i \in 1 .. pad : padding[i] = Text(pad)
    <3>1. padding \in [1 .. pad -> T]
      BY <2>4, <2>5
    <3> QED
      BY <1>5, <2>5, <3>1
  <2>7. ctx.rest \in Seq(T)
    BY <1>4, <2>4, SeqMonotonic
  <2>8. PICK all : all = ctx.rest \o padding
    OBVIOUS
  <2>9. /\ all \in Seq(T) /\ Len(all) = n + pad - at
        /\ \A i \in 1 .. n + pad - at : all[i] = IF i <= n - at THEN ctx.rest[i] ELSE padding[i - (n - at)]
    <3>1. PICK rest : rest = ctx.rest
      OBVIOUS
    <3>2. rest \in Seq(T) /\ padding \in Seq(T) /\ all = rest \o padding
      BY <2>6, <2>7, <2>8, <3>1
    <3>3. /\ all \in Seq(T) /\ Len(all) = Len(rest) + Len(padding)
          /\ \A i \in 1 .. Len(rest) + Len(padding) :
               all[i] = IF i <= Len(rest) THEN rest[i] ELSE padding[i - Len(rest)]
      BY <3>2, ConcatProperties
    <3>4. Len(rest) = n - at /\ Len(rest) + Len(padding) = n + pad - at
      BY <1>2, <1>4, <1>5, <2>6, <3>1
    <3> QED
      BY <3>1, <3>3, <3>4
  <2>10. \A i \in 1 .. n + pad - at : Unit(key, dec, all[i], at + i) = Sealed(key, text, pad, at + i)
    <3> SUFFICES ASSUME NEW i \in 1 .. n + pad - at
                 PROVE  Unit(key, dec, all[i], at + i) = Sealed(key, text, pad, at + i)
      OBVIOUS
    <3>1. CASE i <= n - at
      <4>1. all[i] = text[at + i]
        <5>1. i \in 1 .. n - at
          BY <3>1
        <5>2. SubSeq(text, at + 1, n)[i] = text[at + i]
          BY <1>1, <1>2, <5>1, Piece
        <5> QED
          BY <1>3, <2>9, <3>1, <5>2
      <4>2. PICK place : place = at + i
        OBVIOUS
      <4>3. place <= Len(text)
        BY <1>1, <1>2, <3>1, <4>2
      <4> QED
        BY <4>1, <4>2, <4>3 DEF Unit, Sealed
    <3>2. CASE i > n - at
      <4>1. all[i] = Text(pad)
        <5>1. PICK j : j = i - (n - at)
          OBVIOUS
        <5>2. j \in 1 .. pad /\ ~(i <= n - at)
          BY <1>2, <1>5, <3>2, <5>1
        <5>3. all[i] = padding[j]
          BY <2>9, <5>1, <5>2
        <5> QED
          BY <2>6, <5>2, <5>3
      <4>2. PICK place : place = at + i
        OBVIOUS
      <4>3. ~(place <= Len(text))
        BY <1>1, <1>2, <3>2, <4>2
      <4> QED
        BY <4>1, <4>2, <4>3 DEF Unit, Sealed, Text
    <3> QED
      BY <1>2, <3>1, <3>2
  <2>11. DOMAIN all = 1 .. n + pad - at
    BY <2>9
  <2>12. Processed(ctx, all) = [i \in 1 .. n + pad - at |-> Unit(key, dec, all[i], at + i)]
    BY <1>3, <2>11 DEF Processed, Unit
  <2>13. PICK to : to = n + pad
    OBVIOUS
  <2>14. Processed(ctx, all) = Ciphertext(key, text, pad, at, to)
    <3>1. to \in Nat /\ to - at \in Nat /\ n + pad - at = to - at
      BY <1>2, <1>5, <2>13
    <3>2. Processed(ctx, all) = [i \in 1 .. to - at |-> Unit(key, dec, all[i], at + i)]
      BY <2>12, <3>1
    <3>3. \A i \in 1 .. to - at : Unit(key, dec, all[i], at + i) = Sealed(key, text, pad, at + i)
      BY <2>10, <3>1
    <3> QED
      BY <3>2, <3>3 DEF Ciphertext
  <2> QED
    BY <1>1, <1>3, <1>5, <1>9, <2>2, <2>8, <2>13, <2>14
<1> QED
  BY <1>7, <1>8, <1>9

\* What is decrypted is never beyond the end of the text: the last block is held back.
LEMMA DecryptReaches ==
  ASSUME EncAssumption, NEW key, NEW dec, dec, NEW padded, NEW n \in Nat, NEW pad, PadOK(key, padded, n, pad),
         NEW at \in Nat, NEW pos \in Nat, NEW m \in Nat, pos <= m, m <= n + pad,
         Balanced(key, dec, padded, at, pos)
  PROVE  at <= n
<1>1. at <= pos
  BY DEF Balanced
<1>2. CASE pos <= n
  BY <1>1, <1>2
<1>3. CASE pos > n
  <2>1. pad # 0
    BY <1>3 DEF PadOK
  <2>2. key.mode = "cbc" /\ padded /\ pad \in Nat /\ pad <= Block /\ AtBlock(n + pad)
    BY <2>1 DEF PadOK
  <2>3. at < pos /\ AtBlock(at)
    BY <1>3, <2>2 DEF Balanced
  <2>4. at < n + pad /\ n + pad \in Nat
    BY <2>2, <2>3
  <2>5. at + Block <= n + pad
    BY <2>2, <2>3, <2>4, NextBlock
  <2>6. Block \in Nat
    BY DEF EncAssumption
  <2> QED
    BY <2>2, <2>5, <2>6
<1> QED
  BY <1>2, <1>3

Decrypts(dec) == dec

\* The encrypted units decrypt to the text.
LEMMA UnitsDecrypted ==
  ASSUME NEW key, NEW dec, Decrypts(dec), NEW text \in Seq(TextUnits), NEW pad, NEW m \in Nat,
         NEW from \in Nat, NEW to \in Nat, from <= to, to <= m, to <= Len(text),
         NEW C, C = Ciphertext(key, text, pad, 0, m)
  PROVE  IsPiece(Units(key, dec, C, from, to), text, from, to)
<1>2. \A i \in 1 .. m : C[i] = Sealed(key, text, pad, i)
  <2>1. SealedFrom(key, text, pad, 0, m, C)
    BY CiphertextIs
  <2> QED
    BY <2>1 DEF SealedFrom
<1>3. \A i \in 1 .. to - from : Unit(key, dec, C[from + i], from + i) = text[from + i] /\ text[from + i] \in TextUnits
  <2> SUFFICES ASSUME NEW i \in 1 .. to - from
               PROVE  Unit(key, dec, C[from + i], from + i) = text[from + i] /\ text[from + i] \in TextUnits
    OBVIOUS
  <2>1. PICK place : place = from + i
    OBVIOUS
  <2>2. place \in 1 .. m /\ place <= Len(text) /\ place \in 1 .. Len(text)
    BY <2>1
  <2>3. text[place] \in TextUnits
    BY <2>2
  <2>4. Unit(key, dec, C[place], place) = Text(text[place].val)
    <3>1. PICK u : u = Sealed(key, text, pad, place)
      OBVIOUS
    <3>2. u.kind = "cipher" /\ u.key = key /\ u.at = place /\ u.val = text[place].val
      BY <2>2, <3>1 DEF Sealed
    <3>3. Unit(key, dec, u, place) = Text(u.val)
      BY <3>2 DEF Unit, Decrypts
    <3>4. C[place] = u
      BY <1>2, <2>2, <3>1
    <3> QED
      BY <3>2, <3>3, <3>4
  <2>5. text[place] = Text(text[place].val)
    BY <2>3 DEF TextUnits, Text
  <2> QED
    BY <2>1, <2>3, <2>4, <2>5
<1>4. PICK u, t : u = Units(key, dec, C, from, to) /\ t = SubSeq(text, from + 1, to)
  OBVIOUS
<1>5. u = [i \in 1 .. to - from |-> Unit(key, dec, C[from + i], from + i)]
  BY <1>4 DEF Units
<1>6. to - from \in Nat /\ \A i \in 1 .. to - from : Unit(key, dec, C[from + i], from + i) \in TextUnits
  <2>1. to - from \in Nat
    OBVIOUS
  <2>2. ASSUME NEW i \in 1 .. to - from
        PROVE  Unit(key, dec, C[from + i], from + i) \in TextUnits
    BY <1>3
  <2> QED
    BY <2>1, <2>2
<1>7. u \in Seq(TextUnits) /\ Len(u) = to - from
  <2>1. u \in [1 .. to - from -> TextUnits]
    BY <1>5, <1>6
  <2>2. PICK l \in Nat : l = to - from
    BY <1>6
  <2>3. u \in [1 .. l -> TextUnits]
    BY <2>1, <2>2
  <2>4. u \in Seq(TextUnits) /\ Len(u) = l
    BY <2>3
  <2> QED
    BY <2>2, <2>4
<1>8. t \in Seq(TextUnits) /\ Len(t) = to - from /\ \A i \in 1 .. to - from : t[i] = text[from + i]
  BY <1>4, Piece
<1>9. \A i \in 1 .. to - from : u[i] = t[i]
  BY <1>3, <1>5, <1>8
<1>10. u = t
  BY <1>7, <1>8, <1>9, SeqEqual
<1> QED
  BY <1>4, <1>10 DEF IsPiece

\* What EncStreams reads of a file.
NextRead(C, pos) ==
  LET left == SubSeq(C, pos + 1, Len(C))
  IN SubSeq(left, 1, IF Len(left) < Chunk THEN Len(left) ELSE Chunk)

ReadUpTo(C, pos, k, read) ==
  /\ pos + k <= Len(C) /\ read = SubSeq(C, pos + 1, pos + k) /\ Len(read) = k
  /\ read = <<>> <=> pos = Len(C)

\* What is read of a file is the next piece of it, empty only at its end.
LEMMA ReadIs ==
  ASSUME EncAssumption, NEW S, NEW C \in Seq(S), NEW pos \in Nat, pos <= Len(C),
         NEW read, read = NextRead(C, pos)
  PROVE  \E k \in Nat : ReadUpTo(C, pos, k, read)
<1>0. PICK left : left = SubSeq(C, pos + 1, Len(C))
  OBVIOUS
<1>1. Chunk \in Nat /\ Chunk > 0 /\ Len(C) \in Nat
  BY DEF EncAssumption
<1>2. left \in Seq(S) /\ Len(left) = Len(C) - pos
  BY <1>0, <1>1, Piece
<1>3. PICK k : k = IF Len(left) < Chunk THEN Len(left) ELSE Chunk
  OBVIOUS
<1>4. k \in Nat /\ k <= Len(C) - pos /\ (k = 0 <=> pos = Len(C))
  BY <1>1, <1>2, <1>3
<1>5. read = SubSeq(left, 1, k)
  BY <1>0, <1>3 DEF NextRead
<1>6. SubSeq(SubSeq(C, pos + 1, Len(C)), 0 + 1, k) = SubSeq(C, pos + 0 + 1, pos + k)
  BY <1>1, <1>4, PieceOfPiece
<1>7. pos + 0 + 1 = pos + 1 /\ 0 + 1 = 1 /\ pos + k \in Nat /\ pos <= pos + k /\ pos + k <= Len(C) /\ (pos + k) - pos = k
  BY <1>1, <1>4
<1>8. read = SubSeq(C, pos + 1, pos + k)
  BY <1>0, <1>5, <1>6, <1>7
<1>9. read \in Seq(S) /\ Len(read) = k
  <2>1. PICK b : b = pos + k
    OBVIOUS
  <2>2. b \in Nat /\ pos <= b /\ b <= Len(C) /\ b - pos = k
    BY <1>7, <2>1
  <2>3. SubSeq(C, pos + 1, b) \in Seq(S) /\ Len(SubSeq(C, pos + 1, b)) = b - pos
    BY <2>2, Piece
  <2> QED
    BY <1>8, <2>1, <2>2, <2>3
<1>10. read = <<>> <=> Len(read) = 0
  BY <1>9, EmptySeq
<1>11. ReadUpTo(C, pos, k, read)
  BY <1>4, <1>7, <1>8, <1>9, <1>10 DEF ReadUpTo
<1> QED
  BY <1>4, <1>11

\* What comes after the header.
LEMMA SkipHeader ==
  ASSUME NEW S, NEW H \in Seq(S), NEW C \in Seq(S), NEW a \in Nat, NEW b \in Nat, a <= b, b <= Len(C)
  PROVE  SubSeq(H \o C, Len(H) + a + 1, Len(H) + b) = SubSeq(C, a + 1, b)
<1>1. PICK h, D : h = Len(H) /\ D = H \o C
  OBVIOUS
<1>2. h \in Nat /\ D \in Seq(S) /\ Len(D) = h + Len(C) /\ Len(C) \in Nat
      /\ \A i \in 1 .. h + Len(C) : D[i] = IF i <= h THEN H[i] ELSE C[i - h]
  BY <1>1, ConcatProperties
<1>3. PICK p, q : p = SubSeq(D, h + a + 1, h + b) /\ q = SubSeq(C, a + 1, b)
  OBVIOUS
<1>4. /\ h + a \in Nat /\ h + b \in Nat /\ h + a <= h + b /\ h + b <= Len(D)
      /\ (h + b) - (h + a) = b - a
  BY <1>2
<1>5. p \in Seq(S) /\ Len(p) = b - a /\ \A i \in 1 .. b - a : p[i] = D[h + a + i]
  BY <1>2, <1>3, <1>4, Piece
<1>6. q \in Seq(S) /\ Len(q) = b - a /\ \A i \in 1 .. b - a : q[i] = C[a + i]
  BY <1>3, Piece
<1>7. \A i \in 1 .. b - a : p[i] = q[i]
  <2> SUFFICES ASSUME NEW i \in 1 .. b - a
               PROVE  p[i] = q[i]
    OBVIOUS
  <2>1. PICK j, l : j = h + a + i /\ l = a + i
    OBVIOUS
  <2>2. j \in 1 .. h + Len(C) /\ ~(j <= h) /\ j - h = l
    BY <1>2, <2>1
  <2>3. D[j] = C[l]
    BY <1>2, <2>2
  <2> QED
    BY <1>5, <1>6, <2>1, <2>3
<1>8. p = q
  BY <1>5, <1>6, <1>7, SeqEqual
<1> QED
  BY <1>1, <1>3, <1>8

\* A block decrypts to the text and, after its end, the padding.
TextThenPadding(block, size, text, n, pad, at) ==
  /\ block \in Seq(TextUnits) /\ Len(block) = size
  /\ \A i \in 1 .. size : block[i].kind = "text"
  /\ \A i \in 1 .. size : at + i <= n => block[i] = text[at + i]
  /\ \A i \in 1 .. size : ~(at + i <= n) => block[i].val = pad

LEMMA BlockDecrypted ==
  ASSUME NEW key, NEW dec, dec, NEW text \in Seq(TextUnits), NEW n, n = Len(text), NEW pad \in Nat,
         NEW m \in Nat, NEW at \in Nat, NEW size \in Nat, m - at = size,
         NEW C, C = Ciphertext(key, text, pad, 0, m)
  PROVE  TextThenPadding(Units(key, dec, C, at, m), size, text, n, pad, at)
<1>0. PICK block : block = Units(key, dec, C, at, m)
  OBVIOUS
<1>1. \A i \in 1 .. m : C[i] = Sealed(key, text, pad, i)
  <2>1. SealedFrom(key, text, pad, 0, m, C)
    BY CiphertextIs
  <2> QED
    BY <2>1 DEF SealedFrom
<1>2. block = [i \in 1 .. size |-> Unit(key, dec, C[at + i], at + i)]
  BY <1>0 DEF Units
<1>3. ASSUME NEW i \in 1 .. size
      PROVE  /\ block[i] \in TextUnits /\ block[i].kind = "text"
             /\ at + i <= n => block[i] = text[at + i]
             /\ ~(at + i <= n) => block[i].val = pad
  <2>1. PICK place, u : place = at + i /\ u = Sealed(key, text, pad, place)
    OBVIOUS
  <2>2. place \in 1 .. m
    BY <2>1
  <2>3. u.kind = "cipher" /\ u.key = key /\ u.at = place
    BY <2>1 DEF Sealed
  <2>4. Unit(key, dec, u, place) = Text(u.val)
    BY <2>3 DEF Unit
  <2>5. block[i] = Text(u.val)
    BY <1>1, <1>2, <2>1, <2>2, <2>4
  <2>6. CASE place <= n
    <3>1. u.val = text[place].val
      BY <2>1, <2>6 DEF Sealed
    <3>2. text[place] \in TextUnits
      BY <2>2, <2>6
    <3>3. text[place] = Text(text[place].val)
      BY <3>2 DEF TextUnits, Text
    <3>4. Text(u.val).kind = "text"
      BY DEF Text
    <3> QED
      BY <2>1, <2>5, <2>6, <3>1, <3>2, <3>3, <3>4
  <2>7. CASE ~(place <= n)
    <3>1. u.val = pad
      BY <2>1, <2>7 DEF Sealed
    <3>2. Text(pad) \in TextUnits /\ Text(pad).kind = "text" /\ Text(pad).val = pad
      BY DEF Text, TextUnits
    <3> QED
      BY <2>1, <2>5, <2>7, <3>1, <3>2
  <2> QED
    BY <2>6, <2>7
<1>4. block \in Seq(TextUnits) /\ Len(block) = size
  <2>1. block \in [1 .. size -> TextUnits]
    BY <1>2, <1>3
  <2> QED
    BY <2>1, FunctionIsSeq
<1> QED
  BY <1>0, <1>3, <1>4 DEF TextThenPadding

\* The end of the text, all of it where m units are all that was encrypted.
LastText(text, n, pad, m, at, last) ==
  \E k \in Nat : /\ at <= k /\ k <= n /\ last = SubSeq(text, at + 1, k)
                 /\ m = n + pad => k = n

\* Decrypting, mbedtls_cipher_finish() gives out more of the text; all of it,
\* without an error, when the encryption was whole.
LEMMA FinishDecrypts ==
  ASSUME EncAssumption, NEW key, NEW dec, Decrypts(dec), NEW padded, NEW text \in Seq(TextUnits),
         NEW n, n = Len(text), NEW pad, PadOK(key, padded, n, pad), NEW m \in Nat, m <= n + pad,
         NEW at \in Nat, Balanced(key, dec, padded, at, m),
         NEW C, C = Ciphertext(key, text, pad, 0, m),
         NEW last \in Finish(Context(key, dec, padded, C, at, m))
  PROVE  \/ last = NULL /\ ~(m = n + pad /\ (key.mode = "cbc" => AtBlock(m)))
         \/ LastText(text, n, pad, m, at, last)
<1>1. PICK ctx : ctx = Context(key, dec, padded, C, at, m)
  OBVIOUS
<1>2. Block \in Nat /\ Block > 0 /\ n \in Nat /\ at <= m
  BY DEF EncAssumption, Balanced
<1>3. /\ ctx.rest = SubSeq(C, at + 1, m) /\ ctx.decrypt = dec /\ ctx.padded = padded
      /\ (CBC(ctx) <=> key.mode = "cbc")
  BY <1>1 DEF Context, CBC
<1>4. PICK U : U = SealedUnits(key, text, pad)
  OBVIOUS
<1>5. C \in Seq(U) /\ Len(C) = m /\ \A i \in 1 .. m : C[i] = Sealed(key, text, pad, i)
  <2>1. SealedFrom(key, text, pad, 0, m, C)
    BY CiphertextIs
  <2> QED
    BY <1>4, <2>1 DEF SealedFrom
<1>6. Len(ctx.rest) = m - at
  BY <1>2, <1>3, <1>5, Piece
<1>7. at <= n
  <2>1. m <= m
    OBVIOUS
  <2> QED
    BY <1>2, <2>1, DecryptReaches DEF Decrypts
<1>8. SubSeq(text, at + 1, at) = <<>>
  BY SubSeqEmpty
<1>9. CASE ~CBC(ctx)
  <2>1. last = <<>>
    BY <1>1, <1>9 DEF Finish, Decrypts
  <2>2. at = m /\ n + pad = n
    BY <1>2, <1>3, <1>9 DEF Balanced, PadOK, Decrypts
  <2> QED
    BY <1>7, <1>8, <2>1, <2>2 DEF LastText
<1>10. CASE CBC(ctx) /\ ~padded
  <2>1. (last = NULL /\ Len(ctx.rest) # 0) \/ (last = <<>> /\ Len(ctx.rest) = 0)
    BY <1>1, <1>3, <1>10 DEF Finish, Decrypts
  <2>2. n + pad = n
    BY <1>2, <1>10 DEF PadOK
  <2>3. AtBlock(at) /\ m < at + Block
    BY <1>3, <1>10 DEF Balanced, Decrypts
  <2>4. Len(ctx.rest) # 0 => ~AtBlock(m)
    <3>1. at < m /\ AtBlock(m) => at + Block <= m
      BY <2>3, NextBlock
    <3> QED
      BY <1>2, <1>6, <2>3, <3>1
  <2>5. Len(ctx.rest) = 0 => at = m
    BY <1>2, <1>6
  <2> QED
    BY <1>3, <1>7, <1>8, <1>10, <2>1, <2>2, <2>4, <2>5 DEF LastText
<1>11. CASE CBC(ctx) /\ padded
  <2>1. pad \in Nat /\ pad > 0 /\ pad <= Block /\ AtBlock(n + pad)
    BY <1>3, <1>11 DEF PadOK
  <2>2. AtBlock(at) /\ m <= at + Block /\ (m > 0 => at < m)
    BY <1>3, <1>11 DEF Balanced, Decrypts
  <2>3. m = n + pad => m = at + Block
    <3>1. m = n + pad => at < m /\ AtBlock(m)
      BY <1>2, <2>1, <2>2
    <3>2. at < m /\ AtBlock(m) => at + Block <= m
      BY <2>2, NextBlock
    <3> QED
      BY <1>2, <2>2, <3>1, <3>2
  <2>4. CASE m - at # Block
    <3>1. last = NULL
      BY <1>1, <1>3, <1>6, <1>11, <2>4 DEF Finish, Decrypts
    <3>2. m # n + pad
      BY <1>2, <2>3, <2>4
    <3> QED
      BY <3>1, <3>2
  <2>5. CASE m - at = Block
    <3>1. last \in Unpadded(Processed(ctx, ctx.rest))
      BY <1>1, <1>3, <1>6, <1>11, <2>5 DEF Finish, Decrypts
    <3>2. PICK block : block = Units(key, dec, C, at, m)
      OBVIOUS
    <3>3. last \in Unpadded(block)
      <4>1. Processed(ctx, SubSeq(C, at + 1, m)) = Units(key, dec, C, at, m)
        <5>1. C \in Seq(U) /\ at <= m /\ m <= Len(C)
          BY <1>2, <1>5
        <5>2. Processed(Context(key, dec, padded, C, at, m), SubSeq(C, at + 1, m)) = Units(key, dec, C, at, m)
          BY <5>1, ProcessedIs
        <5> QED
          BY <1>1, <5>2
      <4> QED
        BY <1>3, <3>1, <3>2, <4>1
    <3>4. /\ block \in Seq(TextUnits) /\ Len(block) = Block
          /\ \A i \in 1 .. Block : block[i].kind = "text"
          /\ \A i \in 1 .. Block : at + i <= n => block[i] = text[at + i]
          /\ \A i \in 1 .. Block : ~(at + i <= n) => block[i].val = pad
      <4>1. Block \in Nat /\ pad \in Nat /\ m - at = Block
        BY <1>2, <2>1, <2>5
      <4>2. TextThenPadding(block, Block, text, n, pad, at)
        BY <3>2, <4>1, BlockDecrypted DEF Decrypts
      <4> QED
        BY <4>2 DEF TextThenPadding
    <3>5. ASSUME NEW j \in Nat, j <= Block, at + j <= n
          PROVE  SubSeq(block, 1, j) = SubSeq(text, at + 1, at + j)
      <4>1. /\ SubSeq(block, 0 + 1, j) \in Seq(TextUnits) /\ Len(SubSeq(block, 0 + 1, j)) = j - 0
            /\ \A i \in 1 .. j - 0 : SubSeq(block, 0 + 1, j)[i] = block[0 + i]
        BY <1>2, <3>4, <3>5, Piece
      <4>2. PICK b : b = at + j
        OBVIOUS
      <4>3. b \in Nat /\ at <= b /\ b <= Len(text) /\ b - at = j
        BY <3>5, <4>2
      <4>4. /\ SubSeq(text, at + 1, b) \in Seq(TextUnits) /\ Len(SubSeq(text, at + 1, b)) = b - at
            /\ \A i \in 1 .. b - at : SubSeq(text, at + 1, b)[i] = text[at + i]
        BY <4>3, Piece
      <4>5. \A i \in 1 .. j : block[i] = text[at + i]
        BY <1>2, <3>4, <3>5
      <4>6. PICK p, q : p = SubSeq(block, 1, j) /\ q = SubSeq(text, at + 1, b)
        OBVIOUS
      <4>7. p \in Seq(TextUnits) /\ Len(p) = j /\ \A i \in 1 .. j : p[i] = block[i]
        BY <3>5, <4>1, <4>6
      <4>8. q \in Seq(TextUnits) /\ Len(q) = j /\ \A i \in 1 .. j : q[i] = text[at + i]
        BY <4>3, <4>4, <4>6
      <4>9. p = q
        BY <4>5, <4>7, <4>8, SeqEqual
      <4> QED
        BY <4>2, <4>6, <4>9
    <3>6. PICK v : v = block[Block].val
      OBVIOUS
    <3>7. IF v \in 1 .. Block /\ \A i \in Block - v + 1 .. Block : block[i].val = v
          THEN last = SubSeq(block, 1, Block - v) ELSE last = NULL
      <4>1. ~ \E i \in 1 .. Block : block[i].kind = "noise"
        BY <3>4
      <4> QED
        BY <3>3, <3>6, <4>1 DEF Unpadded
    <3>8. CASE m = n + pad
      <4>1. n - at = Block - pad /\ Block \in 1 .. Block /\ ~(at + Block <= n)
        BY <1>2, <2>1, <2>5, <3>8
      <4>2. v = pad
        BY <3>4, <3>6, <4>1
      <4>3. \A i \in Block - v + 1 .. Block : block[i].val = v
        <5> SUFFICES ASSUME NEW i \in Block - v + 1 .. Block
                     PROVE  block[i].val = v
          OBVIOUS
        <5>1. i \in 1 .. Block /\ ~(at + i <= n)
          BY <1>2, <2>1, <4>1, <4>2
        <5> QED
          BY <3>4, <4>2, <5>1
      <4>4. last = SubSeq(block, 1, Block - v)
        BY <1>2, <2>1, <3>7, <4>2, <4>3
      <4>5. PICK j : j = Block - v
        OBVIOUS
      <4>6. j \in Nat /\ j <= Block /\ at + j <= n /\ at + j = n
        BY <1>2, <1>7, <2>1, <4>1, <4>2, <4>5
      <4>7. last = SubSeq(text, at + 1, at + j)
        BY <3>5, <4>4, <4>5, <4>6
      <4> QED
        BY <1>2, <1>7, <4>6, <4>7 DEF LastText
    <3>9. CASE m # n + pad
      <4>1. at + Block <= n /\ at + Block = m
        <5>1. Block = 1 * Block
          BY <1>2
        <5>2. AtBlock(Block)
          BY <5>1 DEF AtBlock
        <5>3. at + Block = m /\ m < n + pad /\ n + pad \in Nat
          BY <1>2, <2>1, <2>5, <3>9
        <5>4. AtBlock(m)
          BY <1>2, <2>2, <5>2, <5>3, BlocksAdd
        <5>5. m + Block <= n + pad
          BY <2>1, <5>3, <5>4, NextBlock
        <5> QED
          BY <1>2, <2>1, <5>3, <5>5
      <4>2. CASE last = NULL
        BY <3>9, <4>2
      <4>3. CASE last # NULL
        <5>1. v \in 1 .. Block /\ last = SubSeq(block, 1, Block - v)
          BY <3>7, <4>3
        <5>2. PICK j : j = Block - v
          OBVIOUS
        <5>3. j \in Nat /\ j <= Block /\ at + j <= n
          BY <1>2, <4>1, <5>1, <5>2
        <5>4. last = SubSeq(text, at + 1, at + j)
          BY <3>5, <5>1, <5>2, <5>3
        <5>5. at + j \in Nat /\ at <= at + j
          BY <5>3
        <5> QED
          BY <3>9, <5>3, <5>4, <5>5 DEF LastText
      <4> QED
        BY <4>2, <4>3
    <3> QED
      BY <3>8, <3>9
  <2> QED
    BY <2>4, <2>5
<1> QED
  BY <1>9, <1>10, <1>11

----------------------------------------------------------------------------
(* The inductive invariant *)

Fields == {"args", "pc", "code", "fault", "opened", "opt", "salt", "key", "pos", "ctx", "before"}

Salted(opt) == ~Raw(opt) /\ ~opt.nosalt

\* The salt of the encryption that runs.
SaltUsed(opt) == IF ~Salted(opt) THEN NULL ELSE IF opt.S = NULL THEN salts ELSE opt.S

\* The units of padding after a text.
Pad(opt, n) == IF opt.mode = "cbc" /\ ~opt.nopad THEN Block - (n % Block) ELSE 0

\* The file that holds m units of an encrypted text.
Body(opt, salt, text, from, to) == Ciphertext(KeyOf(opt, salt), text, Pad(opt, Len(text)), from, to)
Holding(opt, salt, text, m) == Header(salt) \o Body(opt, salt, text, 0, m)
FileOf(opt, salt, text, m) == [base64 |-> opt.base64 = TRUE, units |-> Holding(opt, salt, text, m)]

\* m can be the length of a beginning of the text and its padding; where
\* nothing was wrong, it is all of it, and there are whole blocks.
Reached(opt, text, m) == m \in 0 .. Len(text) + Pad(opt, Len(text))
Whole(opt, text, m)   == m = Len(text) + Pad(opt, Len(text)) /\ (opt.mode = "cbc" => AtBlock(m))

\* What is known of the command that runs, whatever it does.
RunOK ==
  /\ salts \in Nat
  /\ run.pc \in {"start", "open", "buffered", "header", "setup", "stream", "finish", "closing", "exit"}
  /\ run.pc # "exit" \/ run.opened => DOMAIN run = Fields
  /\ run.pc \in {"start", "open"} => ~run.opened
  /\ run.pc \in {"buffered", "header", "setup", "stream", "finish", "closing"} => run.opened
  /\ run.pc \in {"start", "open", "buffered", "header", "setup"} => ~run.fault
  /\ run.pc # "exit" /\ run.opened /\ ~run.opt.printonly => run.opt.out \in DOMAIN fs
  /\ run.pc \in {"stream", "finish", "closing"} => ~run.opt.printonly
  /\ run.pc = "start" => run.opt = EncDefaults
  /\ run.pc \in {"start", "open", "buffered", "header"} => run.pos = 0
  /\ run.pc = "exit" /\ ~run.opened /\ run.code = 0 => run.opt.mode = NULL

\* The salt and the key, and which way a command goes: the salt in a file with
\* a header is not known before it is read.
KeyOK ==
  LET opt == run.opt
  IN run.pc \notin {"start", "closing", "exit"} =>
       /\ run.pc = "buffered" => opt.base64
       /\ run.pc \in {"header", "setup", "stream", "finish"} => ~opt.base64
       /\ run.pc = "header" => SaltFromStream(opt)
       /\ run.pc = "setup" /\ ~SaltFromStream(opt) => run.pos = 0
       /\ ~SaltFromStream(opt) => run.key = KeyOf(opt, run.salt)
       /\ ~Salted(opt) => run.salt = NULL
       /\ Salted(opt) /\ ~opt.decrypt => run.salt # NULL /\ run.salt = SaltUsed(opt)

\* A command that encrypts a plain file into another one, without a fault so far.
Encrypting ==
  /\ run.opened /\ ~run.fault /\ ~run.opt.decrypt /\ ~run.opt.printonly
  /\ run.opt.in # run.opt.out /\ Plain(run.opt.in)

\* Under way, it has written what it has processed of what it has read.
EncryptedSoFar(opt, salt, text, ctx, pos, ended, units) ==
  \E at \in Nat :
    /\ pos \in Nat /\ pos <= Len(text) /\ (ended => pos = Len(text))
    /\ Balanced(KeyOf(opt, salt), opt.decrypt, ~opt.nopad, at, pos)
    /\ ctx = Context(KeyOf(opt, salt), opt.decrypt, ~opt.nopad, text, at, pos)
    /\ units = Holding(opt, salt, text, at)

\* What it leaves; code is its exit code.  What it should have left in base64
\* may be no base64.
Unreadable == RawFile(<<Noise>>)
Encrypted(opt, salt, text, code, file) ==
  \/ code # 0 /\ file = RawFile(<<>>)
  \/ code # 0 /\ opt.base64 /\ file = Unreadable
  \/ \E m \in Nat : /\ Reached(opt, text, m) /\ (code = 0 => Whole(opt, text, m))
                    /\ file = FileOf(opt, salt, text, m)

EncryptOK ==
  LET opt  == run.opt
      text == fs[opt.in].units
      salt == SaltUsed(opt)
  IN Encrypting =>
       /\ opt.out \in DOMAIN fs /\ (Salted(opt) => salt # NULL)
       /\ run.pc \in {"buffered", "setup"} => fs[opt.out] = RawFile(<<>>)
       /\ run.pc \in {"stream", "finish"} =>
            /\ fs[opt.out] = RawFile(fs[opt.out].units)
            /\ EncryptedSoFar(opt, salt, text, run.ctx, run.pos, run.pc = "finish", fs[opt.out].units)
       /\ run.pc \in {"closing", "exit"} => Encrypted(opt, salt, text, run.code, fs[opt.out])

\* What the command before has encrypted is as it was, until something else is
\* written to its files.
BeforeOK ==
  LET e == run.before.opt
  IN (/\ run.opened \/ run.pc # "exit"
      /\ run.before.opened /\ ~run.before.fault /\ ~e.decrypt /\ ~e.printonly /\ e.in # e.out
      /\ Plain(e.in) /\ ~(run.opened /\ run.opt.out \in {e.in, e.out}))
     => /\ e.out \in DOMAIN fs
        /\ \E s : /\ s # NULL <=> Salted(e)
                  /\ Encrypted(e, s, fs[e.in].units, run.before.code, fs[e.out])

\* The input of a decryption: m units of the text that was encrypted.
Source(e, s, m, text, code, units) ==
  /\ s # NULL <=> Salted(e)
  /\ Reached(e, text, m) /\ (code = 0 => Whole(e, text, m))
  /\ units = Holding(e, s, text, m)

\* Under way, a decryption has written the text of what it has processed.
DecryptedSoFar(e, s, m, dec, text, ctx, pos, ended, units) ==
  LET read == pos - Len(Header(s))
  IN \E at \in Nat :
       /\ pos \in Nat /\ read \in Nat /\ read <= m /\ (ended => read = m)
       /\ Balanced(KeyOf(e, s), dec, ~e.nopad, at, read)
       /\ ctx = Context(KeyOf(e, s), dec, ~e.nopad, Body(e, s, text, 0, m), at, read)
       /\ at <= Len(text) /\ units = SubSeq(text, 1, at)

\* What it leaves: a beginning of the text, all of it if nothing went wrong.
Decrypted(text, before, code, file) ==
  \E k \in Nat : /\ k <= Len(text) /\ file = RawFile(SubSeq(text, 1, k))
                 /\ before = 0 /\ code # 9 => code = 0 /\ k = Len(text)

DecryptOK ==
  LET opt  == run.opt
      e    == run.before.opt
      text == fs[e.in].units
  IN Undoes =>
       /\ run.pc \in {"buffered", "header", "setup"} => fs[opt.out] = RawFile(<<>>)
       /\ run.pc \in {"setup", "stream", "finish"} =>
            /\ ~fs[e.out].base64
            /\ \E s : \E m \in Nat :
                 /\ Source(e, s, m, text, run.before.code, fs[e.out].units)
                 /\ run.pc = "setup" => run.pos = Len(Header(s)) /\ run.key = KeyOf(e, s)
                 /\ run.pc # "setup" =>
                      /\ fs[opt.out] = RawFile(fs[opt.out].units)
                      /\ DecryptedSoFar(e, s, m, opt.decrypt, text, run.ctx, run.pos, run.pc = "finish",
                                        fs[opt.out].units)
       /\ run.pc \in {"closing", "exit"} => Decrypted(text, run.before.code, run.code, fs[opt.out])

EncInv == RunOK /\ KeyOK /\ EncryptOK /\ BeforeOK /\ DecryptOK

----------------------------------------------------------------------------
(* Files *)

FileUnits(opt, salt, text) ==
  {Magic, SaltOf(salt)} \union SealedUnits(KeyOf(opt, salt), text, Pad(opt, Len(text)))

LEMMA HeaderIs ==
  ASSUME NEW salt
  PROVE  /\ Header(salt) \in Seq({Magic, SaltOf(salt)})
         /\ Len(Header(salt)) = IF salt = NULL THEN 0 ELSE 2
         /\ salt # NULL => Header(salt)[1] = Magic /\ Header(salt)[2] = SaltOf(salt)
<1>1. CASE salt = NULL
  BY <1>1 DEF Header
<1>2. CASE salt # NULL
  <2>1. PICK h : h = <<Magic, SaltOf(salt)>>
    OBVIOUS
  <2>2. h \in Seq({Magic, SaltOf(salt)}) /\ Len(h) = 2 /\ h[1] = Magic /\ h[2] = SaltOf(salt)
    BY <2>1
  <2> QED
    BY <1>2, <2>1, <2>2 DEF Header
<1> QED
  BY <1>1, <1>2

LEMMA BodyIs ==
  ASSUME NEW opt, NEW salt, NEW text, NEW from \in Nat, NEW to \in Nat, from <= to
  PROVE  /\ Body(opt, salt, text, from, to) \in Seq(FileUnits(opt, salt, text))
         /\ Len(Body(opt, salt, text, from, to)) = to - from
<1>1. PICK key, pad : key = KeyOf(opt, salt) /\ pad = Pad(opt, Len(text))
  OBVIOUS
<1>2. PICK c : c = Body(opt, salt, text, from, to)
  OBVIOUS
<1>3. SealedFrom(key, text, pad, from, to, c)
  <2>1. c = Ciphertext(key, text, pad, from, to)
    BY <1>1, <1>2 DEF Body
  <2> QED
    BY <2>1, CiphertextIs
<1>4. c \in Seq(SealedUnits(key, text, pad)) /\ Len(c) = to - from
  BY <1>3 DEF SealedFrom
<1>5. SealedUnits(key, text, pad) \subseteq FileUnits(opt, salt, text)
  BY <1>1 DEF FileUnits
<1>6. c \in Seq(FileUnits(opt, salt, text))
  BY <1>4, <1>5, SeqMonotonic
<1> QED
  BY <1>2, <1>4, <1>6

LEMMA HoldingIs ==
  ASSUME NEW opt, NEW salt, NEW text, NEW m \in Nat
  PROVE  /\ Header(salt) \in Seq(FileUnits(opt, salt, text)) /\ Len(Header(salt)) \in Nat
         /\ Holding(opt, salt, text, m) \in Seq(FileUnits(opt, salt, text))
         /\ Len(Holding(opt, salt, text, m)) = Len(Header(salt)) + m
         /\ salt # NULL => /\ HasHeader(Holding(opt, salt, text, m))
                           /\ Holding(opt, salt, text, m)[2].key = salt
<1>1. PICK S, h, b, f : /\ S = FileUnits(opt, salt, text) /\ h = Header(salt) /\ b = Body(opt, salt, text, 0, m)
                        /\ f = Holding(opt, salt, text, m)
  OBVIOUS
<1>2. f = h \o b
  BY <1>1 DEF Holding
<1>3. h \in Seq(S) /\ Len(h) = (IF salt = NULL THEN 0 ELSE 2) /\ (salt # NULL => h[1] = Magic /\ h[2] = SaltOf(salt))
  <2>1. {Magic, SaltOf(salt)} \subseteq S
    BY <1>1 DEF FileUnits
  <2>2. h \in Seq({Magic, SaltOf(salt)})
    BY <1>1, HeaderIs
  <2>3. h \in Seq(S)
    BY <2>1, <2>2, SeqMonotonic
  <2> QED
    BY <1>1, <2>3, HeaderIs
<1>4. b \in Seq(S) /\ Len(b) = m
  <2>1. b \in Seq(S) /\ Len(b) = m - 0
    BY <1>1, BodyIs
  <2> QED
    BY <2>1
<1>5. /\ f \in Seq(S) /\ Len(f) = Len(h) + m
      /\ \A i \in 1 .. Len(h) + m : f[i] = IF i <= Len(h) THEN h[i] ELSE b[i - Len(h)]
  BY <1>2, <1>3, <1>4, ConcatProperties
<1>6. ASSUME salt # NULL
      PROVE  HasHeader(f) /\ f[2].key = salt
  <2>1. Len(h) = 2 /\ f[1] = Magic /\ f[2] = SaltOf(salt)
    BY <1>3, <1>5, <1>6
  <2> QED
    BY <1>5, <2>1 DEF HasHeader, HeaderLen, SaltOf
<1> QED
  BY <1>1, <1>3, <1>5, <1>6

LEMMA HoldingStarts ==
  ASSUME NEW opt, NEW salt, NEW text
  PROVE  Holding(opt, salt, text, 0) = Header(salt)
<1>1. Body(opt, salt, text, 0, 0) = <<>>
  BY DEF Body, Ciphertext
<1>2. Header(salt) \in Seq({Magic, SaltOf(salt)})
  BY HeaderIs
<1>3. PICK h : h = Header(salt)
  OBVIOUS
<1>4. h \o <<>> = h
  BY <1>2, <1>3, ConcatEmptySeq
<1> QED
  BY <1>1, <1>3, <1>4 DEF Holding

LEMMA HoldingGrows ==
  ASSUME NEW opt, NEW salt, NEW text, NEW m \in Nat, NEW to \in Nat, m <= to
  PROVE  Holding(opt, salt, text, m) \o Body(opt, salt, text, m, to) = Holding(opt, salt, text, to)
<1>1. PICK S, h, a, b : /\ S = FileUnits(opt, salt, text) /\ h = Header(salt)
                        /\ a = Body(opt, salt, text, 0, m) /\ b = Body(opt, salt, text, m, to)
  OBVIOUS
<1>2. h \in Seq(S)
  BY <1>1, HoldingIs
<1>3. a \in Seq(S) /\ b \in Seq(S)
  BY <1>1, BodyIs
<1>4. (h \o a) \o b = h \o (a \o b)
  BY <1>2, <1>3, ConcatAssociative
<1>5. a \o b = Body(opt, salt, text, 0, to)
  <2>1. PICK key, pad : key = KeyOf(opt, salt) /\ pad = Pad(opt, Len(text))
    OBVIOUS
  <2>2. Ciphertext(key, text, pad, 0, m) \o Ciphertext(key, text, pad, m, to) = Ciphertext(key, text, pad, 0, to)
    <3>1. 0 \in Nat /\ 0 <= m
      OBVIOUS
    <3> QED
      BY <3>1, CiphertextJoins
  <2> QED
    BY <1>1, <2>1, <2>2 DEF Body
<1> QED
  BY <1>1, <1>4, <1>5 DEF Holding

\* A beginning of such a file, not shorter than its header, is such a file.
LEMMA HoldingBegins ==
  ASSUME NEW opt, NEW salt, NEW text, NEW m \in Nat,
         NEW n \in HeaderLen .. Len(Holding(opt, salt, text, m))
  PROVE  \E j \in 0 .. m : SubSeq(Holding(opt, salt, text, m), 1, n) = Holding(opt, salt, text, j)
<1>1. PICK S, h : S = FileUnits(opt, salt, text) /\ h = Len(Header(salt))
  OBVIOUS
<1>2. (h = 0 \/ h = 2) /\ Len(Holding(opt, salt, text, m)) = h + m
  <2>1. Len(Header(salt)) = IF salt = NULL THEN 0 ELSE 2
    BY HeaderIs
  <2>2. Len(Holding(opt, salt, text, m)) = Len(Header(salt)) + m
    BY HoldingIs
  <2> QED
    BY <1>1, <2>1, <2>2
<1>3. PICK j : j = n - h
  OBVIOUS
<1>4. j \in Nat /\ j <= m /\ n = h + j /\ n \in Nat
  BY <1>2, <1>3 DEF HeaderLen
<1>5. PICK a, b : a = Holding(opt, salt, text, j) /\ b = Body(opt, salt, text, j, m)
  OBVIOUS
<1>6. a \in Seq(S) /\ Len(a) = n
  BY <1>1, <1>4, <1>5, HoldingIs
<1>7. b \in Seq(S)
  BY <1>1, <1>4, <1>5, BodyIs
<1>8. Holding(opt, salt, text, m) = a \o b
  BY <1>4, <1>5, HoldingGrows
<1>9. SubSeq(a \o b, 1, n) = SubSeq(a, 1, n)
  <2>1. 1 \in 1 .. Len(a) /\ n \in 1 .. Len(a)
    BY <1>4, <1>6 DEF HeaderLen
  <2> QED
    BY <1>6, <1>7, <2>1, SubSeqOfConcat1
<1>10. SubSeq(a, 1, n) = a
  BY <1>6, SubSeqFull
<1>11. j \in 0 .. m
  BY <1>4
<1> QED
  BY <1>5, <1>8, <1>9, <1>10, <1>11

\* What a kill leaves of a file.
LEMMA CutIs ==
  ASSUME NEW file, NEW cut \in CutShort(file)
  PROVE  \/ cut = RawFile(<<>>)
         \/ cut = file
         \/ file.base64 /\ cut = Unreadable
         \/ \E n \in HeaderLen .. Len(file.units) : cut = [file EXCEPT !.units = SubSeq(file.units, 1, n)]
BY DEF CutShort, Unreadable

\* What a kill leaves of an encrypted file is what a failing encryption leaves.
LEMMA EncryptedCut ==
  ASSUME NEW opt, NEW salt, NEW text, NEW pad \in Nat, pad = Pad(opt, Len(text)), Len(text) \in Nat,
         NEW code, code # 0, NEW file, Encrypted(opt, salt, text, code, file), NEW cut \in CutShort(file)
  PROVE  Encrypted(opt, salt, text, code, cut)
<1>1. CASE cut = RawFile(<<>>) \/ cut = file
  BY <1>1 DEF Encrypted
<1>2. CASE file = RawFile(<<>>) \/ file = Unreadable
  <2>1. PICK units : file = RawFile(units) /\ (units = <<>> \/ units = <<Noise>>)
    BY <1>2 DEF Unreadable
  <2>2. file.units = units /\ file.base64 = FALSE
    BY <2>1 DEF RawFile
  <2>3. Len(units) = 0 \/ Len(units) = 1
    BY <2>1
  <2>4. cut = RawFile(<<>>) \/ cut = file
    <3>1. \A n \in HeaderLen .. Len(file.units) : FALSE
      <4>1. PICK len : len = Len(file.units)
        OBVIOUS
      <4>2. len = 0 \/ len = 1
        BY <2>2, <2>3, <4>1
      <4>3. \A n \in 2 .. len : FALSE
        BY <4>2
      <4> QED
        BY <4>1, <4>3 DEF HeaderLen
    <3>2. ~file.base64
      BY <2>2
    <3>3. \/ cut = RawFile(<<>>)
          \/ cut = file
          \/ file.base64 /\ cut = Unreadable
          \/ \E n \in HeaderLen .. Len(file.units) : cut = [file EXCEPT !.units = SubSeq(file.units, 1, n)]
      BY CutIs
    <3> QED
      BY <3>1, <3>2, <3>3
  <2> QED
    BY <1>1, <2>4
<1>3. ASSUME NEW m \in Nat, Reached(opt, text, m), file = FileOf(opt, salt, text, m), cut # RawFile(<<>>), cut # file
      PROVE  Encrypted(opt, salt, text, code, cut)
  <2>1. PICK units, coded : units = Holding(opt, salt, text, m) /\ coded = (opt.base64 = TRUE)
    OBVIOUS
  <2>2. file = [base64 |-> coded, units |-> units]
    BY <1>3, <2>1 DEF FileOf
  <2>3. file.units = units /\ file.base64 = coded
    BY <2>2
  <2>4. CASE file.base64 /\ cut = Unreadable
    <3>1. opt.base64
      BY <2>1, <2>3, <2>4
    <3> QED
      BY <2>4, <3>1 DEF Encrypted
  <2>5. ASSUME NEW n \in HeaderLen .. Len(file.units), cut = [file EXCEPT !.units = SubSeq(file.units, 1, n)]
        PROVE  Encrypted(opt, salt, text, code, cut)
    <3>1. PICK j \in 0 .. m : SubSeq(units, 1, n) = Holding(opt, salt, text, j)
      BY <2>1, <2>3, <2>5, HoldingBegins
    <3>2. PICK first : first = SubSeq(units, 1, n)
      OBVIOUS
    <3>3. cut = [base64 |-> coded, units |-> first]
      BY <2>2, <2>3, <2>5, <3>2
    <3>4. cut = FileOf(opt, salt, text, j)
      BY <2>1, <3>1, <3>2, <3>3 DEF FileOf
    <3>5. j \in Nat /\ Reached(opt, text, j)
      BY <1>3 DEF Reached
    <3> QED
      BY <3>4, <3>5 DEF Encrypted
  <2> QED
    BY <1>3, <2>4, <2>5, CutIs
<1>4. CASE \E m \in Nat : Reached(opt, text, m) /\ file = FileOf(opt, salt, text, m)
  BY <1>1, <1>3, <1>4
<1> QED
  BY <1>2, <1>4 DEF Encrypted

\* A kill leaves the beginning of a beginning of a text.
LEMMA BeginningCut ==
  ASSUME NEW S, NEW text \in Seq(S), NEW k \in Nat, k <= Len(text), NEW cut \in CutShort(RawFile(SubSeq(text, 1, k)))
  PROVE  \E j \in Nat : j <= Len(text) /\ cut = RawFile(SubSeq(text, 1, j))
<1>1. PICK units, file : units = SubSeq(text, 1, k) /\ file = RawFile(units)
  OBVIOUS
<1>2. 0 \in Nat /\ 0 + 1 = 1 /\ 0 <= k /\ k - 0 = k /\ 0 <= Len(text)
  OBVIOUS
<1>3. SubSeq(text, 0 + 1, k) \in Seq(S) /\ Len(SubSeq(text, 0 + 1, k)) = k - 0
  BY <1>2, Piece
<1>4. Len(units) = k
  BY <1>1, <1>2, <1>3
<1>5. file.units = units /\ file.base64 = FALSE
  BY <1>1 DEF RawFile
<1>6. CASE cut = RawFile(<<>>)
  <2>1. SubSeq(text, 1, 0) = <<>>
    BY SubSeqEmpty
  <2> QED
    BY <1>2, <1>6, <2>1
<1>7. CASE cut = file
  BY <1>1, <1>7
<1>8. ASSUME NEW n \in HeaderLen .. Len(file.units), cut = [file EXCEPT !.units = SubSeq(file.units, 1, n)]
      PROVE  \E j \in Nat : j <= Len(text) /\ cut = RawFile(SubSeq(text, 1, j))
  <2>1. n \in Nat /\ n <= k
    BY <1>4, <1>5, <1>8 DEF HeaderLen
  <2>2. SubSeq(SubSeq(text, 0 + 1, k), 0 + 1, n) = SubSeq(text, 0 + 0 + 1, 0 + n)
    BY <1>2, <2>1, PieceOfPiece
  <2>3. SubSeq(units, 1, n) = SubSeq(text, 1, n)
    BY <1>1, <1>2, <2>1, <2>2
  <2>4. PICK first : first = SubSeq(units, 1, n)
    OBVIOUS
  <2>5. cut = RawFile(first)
    BY <1>1, <1>5, <1>8, <2>4 DEF RawFile
  <2>6. cut = RawFile(SubSeq(text, 1, n))
    BY <2>3, <2>4, <2>5
  <2> QED
    BY <2>1, <2>6
<1> QED
  BY <1>1, <1>5, <1>6, <1>7, <1>8, CutIs

----------------------------------------------------------------------------
(* What every step of a command leaves as it was *)

\* Only the output may be written, by a command that has opened it.
OnlyOutput ==
  /\ run'.opened
  /\ DOMAIN fs' \subseteq DOMAIN fs \union {run.opt.out}
  /\ \A p \in DOMAIN fs : p # run.opt.out => p \in DOMAIN fs' /\ fs'[p] = fs[p]

StepKeeps ==
  /\ run.pc # "exit" /\ DOMAIN run' = Fields /\ run'.before = run.before
  /\ run'.opened => run'.opt = run.opt
  /\ run.opened => run'.opened
  /\ run.fault => run'.fault
  /\ fs' = fs \/ OnlyOutput

LEMMA OutputWritten ==
  ASSUME NEW file, fs' = [fs EXCEPT ![run.opt.out] = file], run.opt.out \in DOMAIN fs, run'.opened
  PROVE  OnlyOutput /\ fs'[run.opt.out] = file /\ run.opt.out \in DOMAIN fs'
<1>1. DOMAIN fs' = DOMAIN fs
  OBVIOUS
<1>2. fs'[run.opt.out] = file
  OBVIOUS
<1>3. ASSUME NEW p \in DOMAIN fs, p # run.opt.out
      PROVE  p \in DOMAIN fs' /\ fs'[p] = fs[p]
  BY <1>1, <1>3
<1> QED
  BY <1>1, <1>2, <1>3 DEF OnlyOutput

LEMMA FileKept ==
  ASSUME StepKeeps, NEW p, p \in DOMAIN fs', run'.opened => p # run.opt.out
  PROVE  p \in DOMAIN fs /\ fs'[p] = fs[p]
<1>1. CASE fs' = fs
  BY <1>1
<1>2. CASE OnlyOutput
  <2>1. p # run.opt.out
    BY <1>2 DEF OnlyOutput
  <2>2. p \in DOMAIN fs
    BY <1>2, <2>1 DEF OnlyOutput
  <2> QED
    BY <1>2, <2>1, <2>2 DEF OnlyOutput
<1> QED
  BY <1>1, <1>2 DEF StepKeeps

LEMMA PlainKept ==
  ASSUME StepKeeps, NEW p, Plain(p)', run'.opened => p # run.opt.out
  PROVE  Plain(p) /\ fs'[p] = fs[p]
<1>1. p \in DOMAIN fs' /\ ~fs'[p].base64 /\ fs'[p].units \in Seq(TextUnits)
  BY DEF Plain
<1>2. p \in DOMAIN fs /\ fs'[p] = fs[p]
  BY <1>1, FileKept
<1> QED
  BY <1>1, <1>2 DEF Plain

LEMMA BeforeKept ==
  ASSUME BeforeOK, StepKeeps
  PROVE  BeforeOK'
<1>1. PICK e, d : e = run.before.opt /\ d = run.opt
  OBVIOUS
<1>2. run'.before = run.before /\ run.pc # "exit"
  BY DEF StepKeeps
<1>3. SUFFICES ASSUME run.before.opened, ~run.before.fault, ~e.decrypt, ~e.printonly, e.in # e.out,
                      Plain(e.in)', ~(run'.opened /\ run'.opt.out \in {e.in, e.out})
               PROVE  /\ e.out \in DOMAIN fs'
                      /\ \E s : /\ s # NULL <=> Salted(e)
                                /\ Encrypted(e, s, fs'[e.in].units, run.before.code, fs'[e.out])
  BY <1>1, <1>2 DEF BeforeOK
<1>4. run'.opened => d.out # e.in /\ d.out # e.out
  BY <1>1, <1>3 DEF StepKeeps
<1>5. Plain(e.in) /\ fs'[e.in] = fs[e.in]
  BY <1>1, <1>3, <1>4, PlainKept
<1>6. ~(run.opened /\ d.out \in {e.in, e.out})
  BY <1>4 DEF StepKeeps
<1>7. /\ e.out \in DOMAIN fs
      /\ \E s : /\ s # NULL <=> Salted(e)
                /\ Encrypted(e, s, fs[e.in].units, run.before.code, fs[e.out])
  BY <1>1, <1>2, <1>3, <1>5, <1>6 DEF BeforeOK
<1>8. e.out \in DOMAIN fs' /\ fs'[e.out] = fs[e.out]
  <2>1. CASE fs' = fs
    BY <1>7, <2>1
  <2>2. CASE OnlyOutput
    BY <1>1, <1>4, <1>7, <2>2 DEF OnlyOutput
  <2> QED
    BY <2>1, <2>2 DEF StepKeeps
<1> QED
  BY <1>5, <1>7, <1>8

LEMMA StillEncrypting ==
  ASSUME StepKeeps, run.opened, Encrypting'
  PROVE  /\ Encrypting /\ run'.opt = run.opt
         /\ fs'[run.opt.in] = fs[run.opt.in]
<1>1. run'.opened /\ run'.opt = run.opt /\ (run.fault => run'.fault)
  BY DEF StepKeeps
<1>2. PICK i, o : i = run.opt.in /\ o = run.opt.out
  OBVIOUS
<1>3. Plain(i)' /\ i # o /\ ~run'.fault /\ ~run.opt.decrypt /\ ~run.opt.printonly
  BY <1>1, <1>2 DEF Encrypting, Plain
<1>4. Plain(i) /\ fs'[i] = fs[i]
  BY <1>2, <1>3, PlainKept
<1> QED
  BY <1>1, <1>2, <1>3, <1>4 DEF Encrypting

\* The input of a decryption is what the encryption has left.
LEMMA HasSource ==
  ASSUME Undoes, BeforeOK
  PROVE  /\ run.before.opt.out \in DOMAIN fs
         /\ \E s : /\ s # NULL <=> Salted(run.before.opt)
                   /\ Encrypted(run.before.opt, s, fs[run.before.opt.in].units, run.before.code,
                                fs[run.before.opt.out])
<1>1. PICK e, d : e = run.before.opt /\ d = run.opt
  OBVIOUS
<1>2. ~e.decrypt /\ ~e.printonly /\ d.in = e.out /\ e.in \notin {e.out, d.out} /\ d.in # d.out
  BY <1>1 DEF Undoes, Matches
<1>3. run.opened /\ run.before.opened /\ ~run.before.fault /\ Plain(e.in)
  BY <1>1 DEF Undoes
<1>4. e.in # e.out /\ ~(d.out \in {e.in, e.out})
  BY <1>2
<1> QED
  BY <1>1, <1>2, <1>3, <1>4 DEF BeforeOK

LEMMA StillUndoes ==
  ASSUME StepKeeps, run.opened, BeforeOK, Undoes'
  PROVE  /\ Undoes /\ run'.opt = run.opt /\ run'.before = run.before
         /\ fs'[run.before.opt.in] = fs[run.before.opt.in]
         /\ fs'[run.before.opt.out] = fs[run.before.opt.out]
<1>1. run'.opened /\ run'.opt = run.opt /\ run'.before = run.before /\ (run.fault => run'.fault)
  BY DEF StepKeeps
<1>2. PICK e, d : e = run.before.opt /\ d = run.opt
  OBVIOUS
<1>3. Matches(e, d) /\ ~run'.fault /\ run.before.opened /\ ~run.before.fault /\ Plain(e.in)'
  BY <1>1, <1>2 DEF Undoes, Plain
<1>4. e.in # d.out /\ e.out # d.out
  BY <1>3 DEF Matches
<1>5. Plain(e.in) /\ fs'[e.in] = fs[e.in]
  BY <1>2, <1>3, <1>4, PlainKept
<1>6. Undoes
  BY <1>1, <1>2, <1>3, <1>5 DEF Undoes
<1>7. e.out \in DOMAIN fs
  BY <1>2, <1>6, HasSource
<1>8. fs'[e.out] = fs[e.out]
  <2>1. CASE fs' = fs
    BY <2>1
  <2>2. CASE OnlyOutput
    BY <1>2, <1>4, <1>7, <2>2 DEF OnlyOutput
  <2> QED
    BY <2>1, <2>2 DEF StepKeeps
<1> QED
  BY <1>1, <1>2, <1>5, <1>6, <1>8

LEMMA PadIsNat ==
  ASSUME EncAssumption, NEW opt, NEW n \in Nat
  PROVE  Pad(opt, n) \in Nat
<1>1. n % Block \in 0 .. Block - 1
  BY ModIs
<1> QED
  BY <1>1 DEF EncAssumption, Pad

LEMMA NotOpened ==
  ASSUME ~run'.opened
  PROVE  EncryptOK' /\ DecryptOK'
<1>1. ~Encrypting'
  BY DEF Encrypting
<1>2. ~Undoes'
  BY DEF Undoes
<1> QED
  BY <1>1, <1>2 DEF EncryptOK, DecryptOK

\* What an encryption that is under way has written is what it leaves.
LEMMA EncryptedNow ==
  ASSUME EncAssumption, RunOK, KeyOK, EncryptOK, Encrypting, run.pc # "exit", NEW code, code # 0
  PROVE  Encrypted(run.opt, SaltUsed(run.opt), fs[run.opt.in].units, code, fs[run.opt.out])
<1>1. PICK opt, text, salt : opt = run.opt /\ text = fs[opt.in].units /\ salt = SaltUsed(opt)
  OBVIOUS
<1>2. run.pc # "header"
  <2>1. ~opt.decrypt
    BY <1>1 DEF Encrypting
  <2> QED
    BY <1>1, <2>1 DEF KeyOK, SaltFromStream
<1>3. run.pc \in {"buffered", "setup", "stream", "finish", "closing"}
  BY <1>2 DEF RunOK, Encrypting
<1>4. CASE run.pc \in {"buffered", "setup"}
  BY <1>1, <1>4 DEF EncryptOK, Encrypted
<1>5. CASE run.pc \in {"stream", "finish"}
  <2>1. /\ fs[opt.out] = RawFile(fs[opt.out].units)
        /\ EncryptedSoFar(opt, salt, text, run.ctx, run.pos, run.pc = "finish", fs[opt.out].units)
    BY <1>1, <1>5 DEF EncryptOK
  <2>2. PICK at \in Nat : /\ run.pos \in Nat /\ run.pos <= Len(text)
                          /\ Balanced(KeyOf(opt, salt), opt.decrypt, ~opt.nopad, at, run.pos)
                          /\ fs[opt.out].units = Holding(opt, salt, text, at)
    BY <2>1 DEF EncryptedSoFar
  <2>3. fs[opt.out] = FileOf(opt, salt, text, at)
    <3>1. ~opt.base64
      BY <1>1, <1>5 DEF KeyOK
    <3> QED
      BY <2>1, <2>2, <3>1 DEF FileOf, RawFile
  <2>4. at <= run.pos
    BY <2>2 DEF Balanced
  <2>5. Len(text) \in Nat
    BY <1>1 DEF Encrypting, Plain
  <2>6. Reached(opt, text, at)
    BY <2>2, <2>4, <2>5, PadIsNat DEF Reached
  <2> QED
    BY <1>1, <2>3, <2>6 DEF Encrypted
<1>6. CASE run.pc = "closing"
  <2>1. Encrypted(opt, salt, text, run.code, fs[opt.out])
    BY <1>1, <1>6 DEF EncryptOK
  <2> QED
    BY <1>1, <2>1 DEF Encrypted
<1> QED
  BY <1>3, <1>4, <1>5, <1>6

\* A command that stops, or is killed, leaves what it has written so far or
\* what a kill leaves of it.
LEMMA EncryptLeaves ==
  ASSUME EncAssumption, RunOK, KeyOK, EncryptOK, StepKeeps, run.opened, salts' = salts,
         run'.pc = "exit", run'.code # 0,
         Encrypting => run.opt.out \in DOMAIN fs' /\ fs'[run.opt.out] \in CutShort(fs[run.opt.out])
  PROVE  EncryptOK'
<1>1. SUFFICES ASSUME Encrypting'
               PROVE  EncryptOK'
  BY DEF EncryptOK
<1>2. Encrypting /\ run'.opt = run.opt /\ fs'[run.opt.in] = fs[run.opt.in]
  BY <1>1, StillEncrypting
<1>3. PICK opt, text, salt, file, cut : /\ opt = run.opt /\ text = fs[opt.in].units /\ salt = SaltUsed(opt)
                                        /\ file = fs[opt.out] /\ cut = fs'[opt.out]
  OBVIOUS
<1>4. SaltUsed(opt)' = salt
  BY <1>3 DEF SaltUsed
<1>5. opt.out \in DOMAIN fs' /\ cut \in CutShort(file) /\ (Salted(opt) => salt # NULL)
  BY <1>2, <1>3 DEF EncryptOK
<1>6. run.pc # "exit"
  BY DEF StepKeeps
<1>7. Encrypted(opt, salt, text, run'.code, file)
  BY <1>2, <1>3, <1>6, EncryptedNow
<1>8. Len(text) \in Nat
  BY <1>2, <1>3 DEF Encrypting, Plain
<1>9. Pad(opt, Len(text)) \in Nat
  BY <1>8, PadIsNat
<1>10. Encrypted(opt, salt, text, run'.code, cut)
  BY <1>5, <1>7, <1>8, <1>9, EncryptedCut
<1> QED
  BY <1>2, <1>3, <1>4, <1>5, <1>10 DEF EncryptOK

LEMMA EncryptStops ==
  ASSUME EncAssumption, RunOK, KeyOK, EncryptOK, StepKeeps, run.opened, fs' = fs, salts' = salts,
         run'.pc = "exit", run'.code # 0
  PROVE  EncryptOK'
<1>1. Encrypting => run.opt.out \in DOMAIN fs
  BY DEF EncryptOK
<1>2. fs'[run.opt.out] \in CutShort(fs[run.opt.out])
  BY DEF CutShort
<1> QED
  BY <1>1, <1>2, EncryptLeaves

LEMMA EmptyBeginning ==
  ASSUME NEW S, NEW text \in Seq(S)
  PROVE  \E k \in Nat : k <= Len(text) /\ RawFile(<<>>) = RawFile(SubSeq(text, 1, k))
<1>1. PICK p : p = SubSeq(text, 1, 0)
  OBVIOUS
<1>2. p = <<>>
  BY <1>1, SubSeqEmpty
<1>3. 0 \in Nat /\ 0 <= Len(text)
  OBVIOUS
<1>4. RawFile(<<>>) = RawFile(p)
  BY <1>2
<1> QED
  BY <1>1, <1>3, <1>4

\* So does a decryption.
LEMMA DecryptLeaves ==
  ASSUME RunOK, BeforeOK, DecryptOK, StepKeeps, run.opened, run'.pc = "exit",
         Undoes => run'.code = 9 \/ run.before.code # 0,
         Undoes => fs'[run.opt.out] \in CutShort(fs[run.opt.out])
  PROVE  DecryptOK'
<1>1. SUFFICES ASSUME Undoes'
               PROVE  DecryptOK'
  BY DEF DecryptOK
<1>2. /\ Undoes /\ run'.opt = run.opt /\ run'.before = run.before
      /\ fs'[run.before.opt.in] = fs[run.before.opt.in]
  BY <1>1, StillUndoes
<1>3. PICK d, e, text : d = run.opt /\ e = run.before.opt /\ text = fs[e.in].units
  OBVIOUS
<1>4. text \in Seq(TextUnits) /\ Len(text) \in Nat
  BY <1>2, <1>3 DEF Undoes, Plain
<1>5. PICK k \in Nat : k <= Len(text) /\ fs[d.out] = RawFile(SubSeq(text, 1, k))
  <2>1. CASE run.pc \in {"buffered", "header", "setup"}
    <3>1. fs[d.out] = RawFile(<<>>)
      BY <1>2, <1>3, <2>1 DEF DecryptOK
    <3> QED
      BY <1>4, <3>1, EmptyBeginning
  <2>2. CASE run.pc \in {"stream", "finish"}
    <3>1. /\ fs[d.out] = RawFile(fs[d.out].units)
          /\ \E s : \E m \in Nat :
               DecryptedSoFar(e, s, m, d.decrypt, text, run.ctx, run.pos, run.pc = "finish", fs[d.out].units)
      BY <1>2, <1>3, <2>2 DEF DecryptOK
    <3> QED
      BY <3>1 DEF DecryptedSoFar
  <2>3. CASE run.pc = "closing"
    BY <1>2, <1>3, <2>3 DEF DecryptOK, Decrypted
  <2> QED
    BY <2>1, <2>2, <2>3 DEF RunOK, StepKeeps
<1>6. fs'[d.out] \in CutShort(RawFile(SubSeq(text, 1, k)))
  BY <1>2, <1>3, <1>5
<1>7. \E j \in Nat : j <= Len(text) /\ fs'[d.out] = RawFile(SubSeq(text, 1, j))
  BY <1>4, <1>5, <1>6, BeginningCut
<1>8. Decrypted(text, run.before.code, run'.code, fs'[d.out])
  BY <1>2, <1>7 DEF Decrypted
<1> QED
  BY <1>2, <1>3, <1>8 DEF DecryptOK

LEMMA DecryptStops ==
  ASSUME RunOK, BeforeOK, DecryptOK, StepKeeps, run.opened, fs' = fs, run'.pc = "exit",
         Undoes => run'.code = 9 \/ run.before.code # 0
  PROVE  DecryptOK'
<1>1. fs'[run.opt.out] \in CutShort(fs[run.opt.out])
  BY DEF CutShort
<1> QED
  BY <1>1, DecryptLeaves

----------------------------------------------------------------------------
(* The steps *)

LEMMA RunStep ==
  ASSUME EncInv, NEW args, EncRun(args)
  PROVE  EncInv'
<1>1. /\ run'.pc = "start" /\ DOMAIN run' = Fields /\ ~run'.opened /\ ~run'.fault /\ run'.opt = EncDefaults /\ run'.pos = 0
      /\ run'.before = [opt |-> run.opt, code |-> run.code, fault |-> run.fault, opened |-> run.opened]
      /\ run.pc = "exit" /\ fs' = fs /\ salts' = salts
  BY DEF EncRun, EncBegin, Fields
<1>2. RunOK' /\ KeyOK'
  BY <1>1 DEF EncInv, RunOK, KeyOK
<1>3. BeforeOK'
  <2>1. PICK e : e = run.opt
    OBVIOUS
  <2>2. run'.before.opt = e /\ run'.before.code = run.code /\ run'.before.fault = run.fault /\ run'.before.opened = run.opened
    BY <1>1, <2>1
  <2>3. ASSUME run.opened, ~run.fault, ~e.decrypt, ~e.printonly, e.in # e.out, Plain(e.in)
        PROVE  /\ e.out \in DOMAIN fs
               /\ \E s : /\ s # NULL <=> Salted(e)
                         /\ Encrypted(e, s, fs[e.in].units, run.code, fs[e.out])
    <3>1. Encrypting
      BY <2>1, <2>3 DEF Encrypting
    <3>2. PICK s : s = SaltUsed(e)
      OBVIOUS
    <3>3. /\ e.out \in DOMAIN fs /\ (Salted(e) => s # NULL)
          /\ Encrypted(e, s, fs[e.in].units, run.code, fs[e.out])
      BY <1>1, <2>1, <3>1, <3>2 DEF EncInv, EncryptOK
    <3>4. ~Salted(e) => s = NULL
      BY <3>2 DEF SaltUsed
    <3> QED
      BY <3>3, <3>4
  <2>4. Plain(e.in)' => Plain(e.in)
    BY <1>1 DEF Plain
  <2> QED
    BY <1>1, <2>2, <2>3, <2>4 DEF BeforeOK
<1> QED
  BY <1>1, <1>2, <1>3, NotOpened DEF EncInv

LEMMA KilledStep ==
  ASSUME EncAssumption, EncInv, EncKilled
  PROVE  EncInv'
<1>1. DOMAIN run = Fields /\ run.pc # "exit"
  BY DEF EncKilled, EncInv, RunOK
<1>2. /\ run'.pc = "exit" /\ run'.code = 9 /\ DOMAIN run' = Fields /\ run'.opened = run.opened
      /\ run'.opt = run.opt /\ run'.fault = run.fault /\ run'.before = run.before
      /\ salts' = salts
  BY <1>1 DEF EncKilled, Fields
<1>3. CASE run.opened /\ ~run.opt.printonly
  <2>1. PICK cut \in CutShort(fs[run.opt.out]) : fs' = [fs EXCEPT ![run.opt.out] = cut]
    BY <1>3 DEF EncKilled, EOpt
  <2>2. run.opt.out \in DOMAIN fs
    BY <1>1, <1>3 DEF EncInv, RunOK
  <2>3. OnlyOutput /\ fs'[run.opt.out] = cut /\ run.opt.out \in DOMAIN fs'
    BY <1>2, <1>3, <2>1, <2>2, OutputWritten
  <2>4. StepKeeps
    BY <1>1, <1>2, <2>3 DEF StepKeeps
  <2>5. RunOK' /\ KeyOK'
    BY <1>2, <1>3 DEF EncInv, RunOK, KeyOK
  <2>6. EncryptOK'
    BY <1>2, <1>3, <2>1, <2>3, <2>4, EncryptLeaves DEF EncInv
  <2>7. DecryptOK'
    BY <1>2, <1>3, <2>1, <2>3, <2>4, DecryptLeaves DEF EncInv
  <2> QED
    BY <2>4, <2>5, <2>6, <2>7, BeforeKept DEF EncInv
<1>4. CASE ~(run.opened /\ ~run.opt.printonly)
  <2>1. fs' = fs
    BY <1>4 DEF EncKilled, EOpt
  <2>2. StepKeeps
    BY <1>1, <1>2, <2>1 DEF StepKeeps
  <2>3. RunOK' /\ KeyOK'
    BY <1>2, <2>1 DEF EncInv, RunOK, KeyOK
  <2>4. EncryptOK' /\ DecryptOK'
    BY <1>2, <1>4 DEF EncryptOK, Encrypting, DecryptOK, Undoes, Matches
  <2> QED
    BY <2>2, <2>3, <2>4, BeforeKept DEF EncInv
<1> QED
  BY <1>3, <1>4

LEMMA StartsStep ==
  ASSUME EncAssumption, EncInv, EncStarts
  PROVE  EncInv'
<1>1. run.pc = "start" /\ DOMAIN run = Fields /\ ~run.opened /\ ~run.fault /\ run.opt = EncDefaults /\ fs' = fs /\ salts \in Nat
  BY DEF EncStarts, EncAt, EncInv, RunOK
<1>2. EncDefaults.mode = NULL
  BY DEF EncDefaults
<1>3. PICK opt : opt = EncOptions(run.args)
  OBVIOUS
<1>4. \/ \E code \in {0, 1} : EncExit(code) /\ salts' = salts
      \/ EncFault /\ salts' = salts
      \/ \E salt : /\ run' = [run EXCEPT !.pc = "open", !.opt = opt, !.salt = salt,
                                         !.key = IF SaltFromStream(opt) THEN NULL ELSE KeyOf(opt, salt)]
                   /\ \/ /\ salt = (IF Raw(opt) \/ opt.nosalt THEN NULL ELSE opt.S) /\ salts' = salts
                         /\ Raw(opt) \/ opt.nosalt \/ opt.S # NULL \/ opt.decrypt
                      \/ /\ salt = salts + 1 /\ salts' = salts + 1
                         /\ ~Raw(opt) /\ ~opt.nosalt /\ opt.S = NULL /\ ~opt.decrypt
  BY <1>3 DEF EncStarts
<1>5. CASE \E code \in {0, 1} : EncExit(code) /\ salts' = salts
  <2>1. /\ run'.pc = "exit" /\ DOMAIN run' = Fields /\ ~run'.opened /\ ~run'.fault /\ run'.opt = EncDefaults
        /\ run'.before = run.before /\ salts' = salts
    BY <1>1, <1>5 DEF EncExit, Fields
  <2>2. StepKeeps
    BY <1>1, <2>1 DEF StepKeeps
  <2>3. RunOK' /\ KeyOK'
    BY <1>1, <1>2, <2>1 DEF RunOK, KeyOK
  <2> QED
    BY <2>1, <2>2, <2>3, BeforeKept, NotOpened DEF EncInv
<1>6. CASE EncFault /\ salts' = salts
  <2>1. /\ run'.pc = "exit" /\ DOMAIN run' = Fields /\ ~run'.opened /\ run'.code = 1 /\ run'.opt = EncDefaults
        /\ run'.before = run.before /\ salts' = salts
    BY <1>1, <1>6 DEF EncFault, Fields
  <2>2. StepKeeps
    BY <1>1, <2>1 DEF StepKeeps
  <2>3. RunOK' /\ KeyOK'
    BY <1>1, <1>2, <2>1 DEF RunOK, KeyOK
  <2> QED
    BY <2>1, <2>2, <2>3, BeforeKept, NotOpened DEF EncInv
<1>7. ASSUME NEW salt,
             run' = [run EXCEPT !.pc = "open", !.opt = opt, !.salt = salt,
                                !.key = IF SaltFromStream(opt) THEN NULL ELSE KeyOf(opt, salt)],
             \/ /\ salt = (IF Raw(opt) \/ opt.nosalt THEN NULL ELSE opt.S) /\ salts' = salts
                /\ Raw(opt) \/ opt.nosalt \/ opt.S # NULL \/ opt.decrypt
             \/ /\ salt = salts + 1 /\ salts' = salts + 1
                /\ ~Raw(opt) /\ ~opt.nosalt /\ opt.S = NULL /\ ~opt.decrypt
      PROVE  EncInv'
  <2>1. /\ run'.pc = "open" /\ DOMAIN run' = Fields /\ ~run'.opened /\ ~run'.fault /\ run'.opt = opt
        /\ run'.before = run.before /\ run'.salt = salt /\ run'.pos = run.pos
        /\ run'.key = IF SaltFromStream(opt) THEN NULL ELSE KeyOf(opt, salt)
    BY <1>1, <1>7 DEF Fields
  <2>2. StepKeeps
    BY <1>1, <2>1 DEF StepKeeps
  <2>3. RunOK'
    <3>1. run.pos = 0
      BY <1>1 DEF EncInv, RunOK
    <3> QED
      BY <1>1, <1>7, <2>1, <3>1 DEF RunOK
  <2>4. ~Salted(opt) => salt = NULL
    BY <1>7 DEF Salted
  <2>5. Salted(opt) /\ ~opt.decrypt => salt # NULL /\ salt = SaltUsed(opt)'
    BY <1>1, <1>7 DEF Salted, SaltUsed, EncAssumption
  <2>6. KeyOK'
    BY <2>1, <2>4, <2>5 DEF KeyOK
  <2> QED
    BY <2>1, <2>2, <2>3, <2>6, BeforeKept, NotOpened DEF EncInv
<1> QED
  BY <1>4, <1>5, <1>6, <1>7

\* The matching options give the same key.
LEMMA MatchingKeys ==
  ASSUME NEW e, NEW d, Matches(e, d), NEW s
  PROVE  KeyOf(d, s) = KeyOf(e, s)
<1>1. d.mode = e.mode /\ (Raw(d) <=> Raw(e))
  BY DEF Matches
<1>2. CASE Raw(e)
  BY <1>1, <1>2 DEF Matches, KeyOf
<1>3. CASE ~Raw(e)
  BY <1>1, <1>3 DEF Matches, KeyOf
<1> QED
  BY <1>2, <1>3

\* With the matching options, the salt is read from the file where it has one.
LEMMA MatchingSalts ==
  ASSUME NEW e, NEW d, Matches(e, d)
  PROVE  /\ SaltFromStream(d) <=> Salted(e)
         /\ Salted(d) <=> Salted(e)
BY DEF Matches, SaltFromStream, Salted

\* A file without a header holds some units even where nothing was written.
LEMMA SourceWithoutHeader ==
  ASSUME EncAssumption, NEW e, ~Salted(e), NEW text \in Seq(TextUnits), NEW code, NEW file,
         ~e.base64 \/ file # Unreadable,
         NEW s, s # NULL <=> Salted(e), Encrypted(e, s, text, code, file)
  PROVE  \E m \in Nat : Source(e, s, m, text, code, file.units)
<1>1. CASE code # 0 /\ file = RawFile(<<>>)
  <2>1. file.units = Holding(e, s, text, 0)
    BY <1>1, HoldingStarts DEF Header, RawFile
  <2>2. 0 \in Nat /\ Reached(e, text, 0)
    <3>1. Len(text) \in Nat
      OBVIOUS
    <3>2. Pad(e, Len(text)) \in Nat
      BY <3>1, PadIsNat
    <3> QED
      BY <3>1, <3>2 DEF Reached
  <2> QED
    BY <1>1, <2>1, <2>2 DEF Source
<1>2. CASE \E m \in Nat : /\ Reached(e, text, m) /\ (code = 0 => Whole(e, text, m))
                          /\ file = FileOf(e, s, text, m)
  BY <1>2 DEF Source, FileOf
<1> QED
  BY <1>1, <1>2 DEF Encrypted

LEMMA NotBase64 ==
  ASSUME NEW e, ~e.base64, NEW s, NEW text, NEW code, NEW file, Encrypted(e, s, text, code, file)
  PROVE  ~file.base64
<1>1. CASE file = RawFile(<<>>)
  BY <1>1 DEF RawFile
<1>2. ASSUME NEW m, file = FileOf(e, s, text, m)
      PROVE  ~file.base64
  <2>1. PICK h : h = Holding(e, s, text, m)
    OBVIOUS
  <2>2. file = [base64 |-> e.base64 = TRUE, units |-> h]
    BY <1>2, <2>1 DEF FileOf
  <2> QED
    BY <2>2
<1> QED
  BY <1>1, <1>2 DEF Encrypted

LEMMA OpensStep ==
  ASSUME EncAssumption, EncInv, EncOpens
  PROVE  EncInv'
<1>1. /\ run.pc = "open" /\ DOMAIN run = Fields /\ ~run.opened /\ ~run.fault /\ run.pos = 0
      /\ salts' = salts /\ salts \in Nat
  BY DEF EncOpens, EncAt, EncInv, RunOK
<1>2. PICK opt : opt = run.opt
  OBVIOUS
<1>3. CASE (EncExit(1) \/ EncFault) /\ fs' = fs
  <2>1. /\ run'.pc = "exit" /\ run'.code = 1 /\ DOMAIN run' = Fields /\ ~run'.opened /\ run'.opt = run.opt
        /\ run'.before = run.before
    BY <1>1, <1>3 DEF EncExit, EncFault, Fields
  <2>2. StepKeeps
    BY <1>1, <1>3, <2>1 DEF StepKeeps
  <2>3. RunOK' /\ KeyOK'
    BY <1>1, <2>1 DEF RunOK, KeyOK
  <2> QED
    BY <2>1, <2>2, <2>3, BeforeKept, NotOpened DEF EncInv
<1>4. CASE /\ fs' = IF opt.printonly THEN fs
                    ELSE [p \in DOMAIN fs \union {opt.out} |-> IF p = opt.out THEN RawFile(<<>>) ELSE fs[p]]
           /\ run' = [run EXCEPT !.opened = TRUE,
                                 !.pc = IF opt.base64 THEN "buffered"
                                        ELSE IF SaltFromStream(opt) THEN "header" ELSE "setup"]
  <2>1. /\ run'.opened /\ DOMAIN run' = Fields /\ run'.opt = opt /\ run'.before = run.before
        /\ run'.salt = run.salt /\ run'.key = run.key /\ run'.pos = 0 /\ ~run'.fault
        /\ run'.pc = IF opt.base64 THEN "buffered" ELSE IF SaltFromStream(opt) THEN "header" ELSE "setup"
    BY <1>1, <1>2, <1>4 DEF Fields
  <2>2. ~opt.printonly => opt.out \in DOMAIN fs' /\ fs'[opt.out] = RawFile(<<>>)
    BY <1>4
  <2>3. fs' = fs \/ OnlyOutput
    BY <1>2, <1>4, <2>1 DEF OnlyOutput
  <2>4. StepKeeps
    BY <1>1, <1>2, <2>1, <2>3 DEF StepKeeps
  <2>5. RunOK'
    BY <1>1, <2>1, <2>2 DEF RunOK
  <2>6. /\ ~SaltFromStream(opt) => run.key = KeyOf(opt, run.salt)
        /\ ~Salted(opt) => run.salt = NULL
        /\ Salted(opt) /\ ~opt.decrypt => run.salt # NULL /\ run.salt = SaltUsed(opt)
    BY <1>1, <1>2 DEF EncInv, KeyOK
  <2>7. SaltUsed(opt)' = SaltUsed(opt)
    BY <1>1 DEF SaltUsed
  <2>8. KeyOK'
    BY <2>1, <2>6, <2>7 DEF KeyOK
  <2>9. BeforeOK'
    BY <2>4, BeforeKept DEF EncInv
  <2>10. EncryptOK'
    BY <2>1, <2>2, <2>6, <2>7 DEF EncryptOK, Encrypting
  <2>11. DecryptOK'
    <3>1. SUFFICES ASSUME Undoes'
                   PROVE  DecryptOK'
      BY DEF DecryptOK
    <3>2. PICK e, text : e = run.before.opt /\ text = fs'[e.in].units
      OBVIOUS
    <3>3. Matches(e, opt) /\ text \in Seq(TextUnits)
      BY <2>1, <3>1, <3>2 DEF Undoes, Plain
    <3>4. fs'[opt.out] = RawFile(<<>>)
      BY <2>2, <3>3 DEF Matches
    <3>5. ASSUME run'.pc = "setup"
          PROVE  /\ ~fs'[e.out].base64
                 /\ \E s : \E m \in Nat :
                      /\ Source(e, s, m, text, run.before.code, fs'[e.out].units)
                      /\ run'.pos = Len(Header(s)) /\ run'.key = KeyOf(e, s)
      <4>1. ~opt.base64 /\ ~SaltFromStream(opt)
        BY <2>1, <3>5
      <4>2. ~e.base64 /\ ~Salted(e) /\ ~Salted(opt)
        BY <3>3, <4>1, MatchingSalts DEF Matches
      <4>3. PICK s : /\ s # NULL <=> Salted(e)
                     /\ Encrypted(e, s, text, run.before.code, fs'[e.out])
        <5>1. /\ ~e.decrypt /\ ~e.printonly /\ e.in # e.out /\ opt.out # e.in /\ opt.out # e.out
          BY <3>3 DEF Matches
        <5>2. run.before.opened /\ ~run.before.fault /\ Plain(e.in)'
          BY <2>1, <3>1, <3>2 DEF Undoes, Plain
        <5> QED
          BY <2>1, <2>9, <3>2, <5>1, <5>2 DEF BeforeOK
      <4>4. s = NULL
        BY <4>2, <4>3
      <4>8. ~fs'[e.out].base64
        BY <4>2, <4>3, NotBase64
      <4>5. PICK m \in Nat : Source(e, s, m, text, run.before.code, fs'[e.out].units)
        BY <3>3, <4>2, <4>3, SourceWithoutHeader
      <4>6. run'.pos = Len(Header(s))
        BY <2>1, <4>4 DEF Header
      <4>7. run'.key = KeyOf(e, s)
        BY <2>1, <2>6, <3>3, <4>1, <4>2, <4>4, MatchingKeys
      <4> QED
        BY <4>5, <4>6, <4>7, <4>8
    <3> QED
      BY <2>1, <3>2, <3>4, <3>5 DEF DecryptOK
  <2> QED
    BY <2>5, <2>8, <2>9, <2>10, <2>11 DEF EncInv
<1> QED
  BY <1>1, <1>2, <1>3, <1>4 DEF EncOpens, EOpt

LEMMA ReadsHeaderStep ==
  ASSUME EncAssumption, EncInv, EncReadsHeader
  PROVE  EncInv'
<1>1. /\ run.pc = "header" /\ DOMAIN run = Fields /\ run.opened /\ ~run.fault /\ run.pos = 0
      /\ fs' = fs /\ salts' = salts /\ salts \in Nat
  BY DEF EncReadsHeader, EncAt, EncInv, RunOK
<1>2. PICK opt, in : opt = run.opt /\ in = Bytes(fs[opt.in])
  OBVIOUS
<1>3. SaltFromStream(opt) /\ opt.decrypt /\ ~opt.base64 /\ Salted(opt)
  BY <1>1, <1>2 DEF EncInv, KeyOK, SaltFromStream, Salted
<1>4. ~opt.printonly => opt.out \in DOMAIN fs
  BY <1>1, <1>2 DEF EncInv, RunOK
\* What a decryption with the matching options finds.
<1>5. ASSUME Undoes
      PROVE  LET e == run.before.opt
                 text == fs[e.in].units
             IN \/ run.before.code # 0 /\ ~HasHeader(in)
                \/ \E s : \E m \in Nat :
                     /\ Source(e, s, m, text, run.before.code, fs[e.out].units) /\ ~fs[e.out].base64
                     /\ s # NULL /\ HasHeader(in) /\ in[2].key = s
  <2>1. PICK e, text : e = run.before.opt /\ text = fs[e.in].units
    OBVIOUS
  <2>2. Matches(e, opt) /\ opt.in = e.out /\ ~e.base64 /\ Salted(e)
    BY <1>2, <1>3, <1>5, <2>1, MatchingSalts DEF Undoes, Matches
  <2>3. PICK s : /\ s # NULL <=> Salted(e)
                 /\ Encrypted(e, s, text, run.before.code, fs[e.out])
    BY <1>5, <2>1, HasSource DEF EncInv
  <2>4. CASE run.before.code # 0 /\ fs[e.out] = RawFile(<<>>)
    <3>1. in = <<>>
      BY <1>2, <2>2, <2>4 DEF Bytes, RawFile
    <3>2. ~HasHeader(in)
      BY <3>1 DEF HasHeader, HeaderLen
    <3> QED
      BY <2>4, <3>2
  <2>5. ASSUME NEW m \in Nat, Reached(e, text, m), run.before.code = 0 => Whole(e, text, m),
               fs[e.out] = FileOf(e, s, text, m)
        PROVE  /\ Source(e, s, m, text, run.before.code, fs[e.out].units) /\ ~fs[e.out].base64
               /\ s # NULL /\ HasHeader(in) /\ in[2].key = s
    <3>1. in = Holding(e, s, text, m) /\ fs[e.out].units = in /\ ~fs[e.out].base64
      <4>1. PICK f, h : f = FileOf(e, s, text, m) /\ h = Holding(e, s, text, m)
        OBVIOUS
      <4>2. ~f.base64 /\ f.units = h
        BY <2>2, <4>1 DEF FileOf
      <4>3. Bytes(f) = h
        BY <4>2 DEF Bytes
      <4> QED
        BY <1>2, <2>2, <2>5, <4>1, <4>2, <4>3
    <3>2. s # NULL
      BY <2>2, <2>3
    <3>3. HasHeader(in) /\ in[2].key = s
      BY <3>1, <3>2, HoldingIs
    <3> QED
      BY <2>3, <2>5, <3>1, <3>2, <3>3 DEF Source
  <2> QED
    BY <2>1, <2>2, <2>3, <2>4, <2>5 DEF Encrypted
<1>6. CASE ~HasHeader(in) /\ EncExit(1)
  <2>1. /\ run'.pc = "exit" /\ run'.code = 1 /\ DOMAIN run' = Fields /\ run'.opened /\ run'.opt = run.opt
        /\ run'.before = run.before /\ run'.fault = run.fault
    BY <1>1, <1>6 DEF EncExit, Fields
  <2>2. StepKeeps
    BY <1>1, <2>1 DEF StepKeeps
  <2>3. RunOK' /\ KeyOK'
    BY <1>1, <2>1 DEF RunOK, KeyOK
  <2>4. Undoes => run.before.code # 0
    BY <1>5, <1>6
  <2> QED
    BY <1>1, <2>1, <2>2, <2>3, <2>4, BeforeKept, EncryptStops, DecryptStops DEF EncInv
<1>7. CASE EncFault
  <2>1. /\ run'.pc = "exit" /\ run'.code = 1 /\ DOMAIN run' = Fields /\ run'.opened /\ run'.opt = run.opt
        /\ run'.before = run.before /\ run'.fault
    BY <1>1, <1>7 DEF EncFault, Fields
  <2>2. StepKeeps
    BY <1>1, <2>1 DEF StepKeeps
  <2>3. RunOK' /\ KeyOK'
    BY <1>1, <2>1 DEF RunOK, KeyOK
  <2>4. EncryptOK' /\ DecryptOK'
    BY <2>1 DEF EncryptOK, Encrypting, DecryptOK, Undoes
  <2> QED
    BY <2>2, <2>3, <2>4, BeforeKept DEF EncInv
<1>8. CASE /\ HasHeader(in)
           /\ run' = [run EXCEPT !.pc = "setup", !.salt = in[2].key, !.key = KeyOf(opt, in[2].key),
                                 !.pos = AfterHeader(0)]
  <2>1. /\ run'.pc = "setup" /\ DOMAIN run' = Fields /\ run'.opened /\ run'.opt = opt /\ run'.before = run.before
        /\ run'.fault = run.fault /\ run'.salt = in[2].key /\ run'.key = KeyOf(opt, in[2].key)
        /\ run'.pos = AfterHeader(0)
    BY <1>1, <1>2, <1>8 DEF Fields
  <2>2. StepKeeps
    BY <1>1, <1>2, <2>1 DEF StepKeeps
  <2>3. RunOK'
    BY <1>1, <1>4, <2>1 DEF RunOK
  <2>4. KeyOK'
    BY <1>3, <2>1 DEF KeyOK
  <2>5. EncryptOK'
    BY <1>3, <2>1 DEF EncryptOK, Encrypting
  <2>6. DecryptOK'
    <3>1. SUFFICES ASSUME Undoes'
                   PROVE  DecryptOK'
      BY DEF DecryptOK
    <3>2. Undoes
      BY <1>1, <2>2, <3>1, StillUndoes DEF EncInv
    <3>3. PICK e, text : e = run.before.opt /\ text = fs[e.in].units
      OBVIOUS
    <3>4. PICK s : \E m \in Nat :
                     /\ Source(e, s, m, text, run.before.code, fs[e.out].units) /\ ~fs[e.out].base64
                     /\ s # NULL /\ in[2].key = s
      BY <1>5, <1>8, <3>2, <3>3
    <3>5. PICK m \in Nat : /\ Source(e, s, m, text, run.before.code, fs[e.out].units) /\ ~fs[e.out].base64
                           /\ s # NULL /\ in[2].key = s
      BY <3>4
    <3>6. Matches(e, opt)
      BY <1>2, <3>2, <3>3 DEF Undoes
    <3>7. run'.key = KeyOf(e, s)
      BY <2>1, <3>5, <3>6, MatchingKeys
    <3>8. run'.pos = Len(Header(s))
      <4>1. Len(Header(s)) = IF s = NULL THEN 0 ELSE 2
        BY HeaderIs
      <4>2. AfterHeader(0) = 2
        BY DEF AfterHeader, HeaderLen
      <4> QED
        BY <2>1, <3>5, <4>1, <4>2
    <3>9. fs[opt.out] = RawFile(<<>>)
      BY <1>1, <1>2, <3>2 DEF EncInv, DecryptOK
    <3> QED
      BY <1>1, <2>1, <3>3, <3>5, <3>7, <3>8, <3>9 DEF DecryptOK
  <2> QED
    BY <2>2, <2>3, <2>4, <2>5, <2>6, BeforeKept DEF EncInv
<1> QED
  BY <1>2, <1>6, <1>7, <1>8 DEF EncReadsHeader, EOpt
----------------------------------------------------------------------------
(* Encrypting and decrypting, a piece at a time *)

LEMMA PadOfKey ==
  ASSUME EncAssumption, NEW opt, NEW salt, NEW text, Len(text) \in Nat
  PROVE  /\ IsPad(KeyOf(opt, salt), ~opt.nopad, Len(text), Pad(opt, Len(text)))
         /\ PadOK(KeyOf(opt, salt), ~opt.nopad, Len(text), Pad(opt, Len(text)))
         /\ KeyOf(opt, salt).mode = opt.mode
<1>1. KeyOf(opt, salt).mode = opt.mode
  BY DEF KeyOf
<1>2. PICK n, pad, key, padded : n = Len(text) /\ pad = Pad(opt, Len(text)) /\ key = KeyOf(opt, salt) /\ padded = ~opt.nopad
  OBVIOUS
<1>3. IsPad(key, padded, n, pad)
  BY <1>1, <1>2 DEF IsPad, Pad
<1>4. PadOK(key, padded, n, pad)
  BY <1>2, <1>3, PadIs
<1> QED
  BY <1>1, <1>2, <1>3, <1>4

LEMMA EncryptBegins ==
  ASSUME EncAssumption, NEW opt, NEW salt, NEW text \in Seq(TextUnits)
  PROVE  EncryptedSoFar(opt, salt, text, NewContext(KeyOf(opt, salt), opt.decrypt, ~opt.nopad), 0, FALSE,
                        Header(salt))
<1>1. PICK key, dec, padded : key = KeyOf(opt, salt) /\ dec = opt.decrypt /\ padded = ~opt.nopad
  OBVIOUS
<1>2. /\ NewContext(key, dec, padded) = Context(key, dec, padded, text, 0, 0)
      /\ Balanced(key, dec, padded, 0, 0)
  BY ContextStarts
<1>3. Header(salt) = Holding(opt, salt, text, 0)
  BY HoldingStarts
<1>4. 0 \in Nat /\ 0 <= Len(text)
  OBVIOUS
<1> QED
  BY <1>1, <1>2, <1>3, <1>4 DEF EncryptedSoFar

\* k units more are read.
LEMMA EncryptMore ==
  ASSUME EncAssumption, NEW opt, ~opt.decrypt, NEW salt, NEW text \in Seq(TextUnits), NEW ctx, NEW pos, NEW ended,
         NEW units, EncryptedSoFar(opt, salt, text, ctx, pos, ended, units),
         NEW k \in Nat, pos + k <= Len(text), NEW read, IsPiece(read, text, pos, pos + k),
         NEW ended2, ended2 => pos + k = Len(text), NEW up, up = Update(ctx, read)
  PROVE  EncryptedSoFar(opt, salt, text, up.ctx, pos + k, ended2, units \o up.out)
<1>1. PICK key, dec, padded : key = KeyOf(opt, salt) /\ dec = opt.decrypt /\ padded = ~opt.nopad
  OBVIOUS
<1>2. PICK at \in Nat : /\ pos \in Nat /\ pos <= Len(text)
                        /\ Balanced(key, dec, padded, at, pos)
                        /\ ctx = Context(key, dec, padded, text, at, pos)
                        /\ units = Holding(opt, salt, text, at)
  BY <1>1 DEF EncryptedSoFar
<1>4. PICK now \in Nat :
        /\ at <= now /\ now <= pos + k /\ Balanced(key, dec, padded, now, pos + k)
        /\ up = [ctx |-> Context(key, dec, padded, text, now, pos + k), out |-> Units(key, dec, text, at, now)]
  <2>1. pos \in Nat /\ pos + k <= Len(text) /\ Balanced(key, dec, padded, at, pos)
    BY <1>2
  <2>2. Updated(key, dec, padded, text, at, pos + k, up)
    BY <1>2, <2>1, UpdateIs
  <2> QED
    BY <2>2 DEF Updated
<1>5. now \in Nat /\ at <= now /\ now <= Len(text) /\ pos + k \in Nat
  BY <1>2, <1>4
<1>6. up.out = Body(opt, salt, text, at, now)
  <2>1. PICK pad : pad = Pad(opt, Len(text))
    OBVIOUS
  <2>2. Units(key, dec, text, at, now) = Ciphertext(key, text, pad, at, now)
    BY <1>1, <1>5, UnitsEncrypted
  <2> QED
    BY <1>1, <1>4, <2>1, <2>2 DEF Body
<1>7. units \o up.out = Holding(opt, salt, text, now)
  <2>1. Holding(opt, salt, text, at) \o Body(opt, salt, text, at, now) = Holding(opt, salt, text, now)
    BY <1>5, HoldingGrows
  <2> QED
    BY <1>2, <1>6, <2>1
<1>8. up.ctx = Context(key, dec, padded, text, now, pos + k)
  BY <1>4
<1> QED
  BY <1>1, <1>4, <1>5, <1>7, <1>8 DEF EncryptedSoFar

LEMMA EncryptEnds ==
  ASSUME EncAssumption, NEW opt, ~opt.decrypt, NEW salt, NEW text \in Seq(TextUnits), NEW ctx, NEW pos,
         NEW units, EncryptedSoFar(opt, salt, text, ctx, pos, TRUE, units),
         NEW last \in Finish(ctx), last # NULL, NEW file,
         file = [base64 |-> opt.base64 = TRUE, units |-> units \o last]
  PROVE  Encrypted(opt, salt, text, 0, file)
<1>1. PICK key, dec, padded, n, pad :
        /\ key = KeyOf(opt, salt) /\ dec = opt.decrypt /\ padded = ~opt.nopad
        /\ n = Len(text) /\ pad = Pad(opt, n)
  OBVIOUS
<1>2. PICK at \in Nat : /\ pos = Len(text) /\ Balanced(key, dec, padded, at, pos)
                        /\ ctx = Context(key, dec, padded, text, at, pos)
                        /\ units = Holding(opt, salt, text, at)
  BY <1>1 DEF EncryptedSoFar
<1>3. n \in Nat /\ at <= n
  BY <1>1, <1>2 DEF Balanced
<1>4. IsPad(key, padded, n, pad) /\ pad \in Nat /\ key.mode = opt.mode
  BY <1>1, <1>3, PadOfKey DEF PadOK
<1>5. last = Ciphertext(key, text, pad, at, n + pad) /\ (key.mode = "cbc" => AtBlock(n + pad))
  <2>1. Balanced(key, dec, padded, at, Len(text)) /\ IsPad(key, padded, Len(text), pad)
    BY <1>1, <1>2, <1>4
  <2>2. last \in Finish(Context(key, dec, padded, text, at, Len(text)))
    BY <1>2
  <2>3. ~dec
    BY <1>1
  <2>4. \/ last = NULL
        \/ /\ last = Ciphertext(key, text, pad, at, Len(text) + pad)
           /\ key.mode = "cbc" => AtBlock(Len(text) + pad)
    BY <2>1, <2>2, <2>3, FinishEncrypts
  <2> QED
    BY <1>1, <2>4
<1>6. last = Body(opt, salt, text, at, n + pad)
  BY <1>1, <1>5 DEF Body
<1>7. n + pad \in Nat /\ at <= n + pad
  BY <1>3, <1>4
<1>8. units \o last = Holding(opt, salt, text, n + pad)
  BY <1>2, <1>6, <1>7, HoldingGrows
<1>9. file = FileOf(opt, salt, text, n + pad)
  BY <1>8 DEF FileOf
<1>10. Reached(opt, text, n + pad) /\ Whole(opt, text, n + pad)
  BY <1>1, <1>3, <1>4, <1>5 DEF Reached, Whole
<1> QED
  BY <1>7, <1>9, <1>10 DEF Encrypted

LEMMA DecryptBegins ==
  ASSUME EncAssumption, NEW e, NEW s, NEW m \in Nat, NEW dec, NEW text \in Seq(TextUnits)
  PROVE  DecryptedSoFar(e, s, m, dec, text, NewContext(KeyOf(e, s), dec, ~e.nopad), Len(Header(s)), FALSE, <<>>)
<1>1. PICK key, padded, C, h, S : /\ key = KeyOf(e, s) /\ padded = ~e.nopad /\ C = Body(e, s, text, 0, m)
                                  /\ h = Len(Header(s)) /\ S = FileUnits(e, s, text)
  OBVIOUS
<1>2. C \in Seq(S)
  <2>1. 0 \in Nat /\ 0 <= m
    OBVIOUS
  <2> QED
    BY <1>1, <2>1, BodyIs
<1>3. /\ NewContext(key, dec, padded) = Context(key, dec, padded, C, 0, 0)
      /\ Balanced(key, dec, padded, 0, 0)
  BY <1>2, ContextStarts
<1>4. h \in Nat /\ h - h = 0
  BY <1>1, HoldingIs
<1>5. SubSeq(text, 1, 0) = <<>>
  BY SubSeqEmpty
<1>6. 0 \in Nat /\ 0 <= m /\ 0 <= Len(text)
  OBVIOUS
<1> QED
  BY <1>1, <1>3, <1>4, <1>5, <1>6 DEF DecryptedSoFar

\* k units more are read.
LEMMA DecryptMore ==
  ASSUME EncAssumption, NEW e, NEW s, NEW text \in Seq(TextUnits), NEW m \in Nat, Reached(e, text, m),
         NEW dec, Decrypts(dec), NEW ctx, NEW pos, NEW ended,
         NEW units, DecryptedSoFar(e, s, m, dec, text, ctx, pos, ended, units),
         NEW r, r = pos - Len(Header(s)), NEW k \in Nat, r + k <= m, NEW ended2, ended2 => r + k = m,
         NEW read, IsPiece(read, Body(e, s, text, 0, m), r, r + k), NEW up, up = Update(ctx, read)
  PROVE  /\ DecryptedSoFar(e, s, m, dec, text, up.ctx, pos + k, ended2, units \o up.out)
         /\ up.out \in Seq(TextUnits)
<1>1. PICK key, padded, C, h, n, pad :
        /\ key = KeyOf(e, s) /\ padded = ~e.nopad /\ C = Body(e, s, text, 0, m)
        /\ h = Len(Header(s)) /\ n = Len(text) /\ pad = Pad(e, n)
  OBVIOUS
<1>2. PICK at \in Nat : /\ pos \in Nat /\ r \in Nat /\ r <= m /\ at <= n
                        /\ Balanced(key, dec, padded, at, r)
                        /\ ctx = Context(key, dec, padded, C, at, r)
                        /\ units = SubSeq(text, 1, at)
  BY <1>1 DEF DecryptedSoFar
<1>3. n \in Nat /\ h \in Nat /\ PadOK(key, padded, n, pad)
  BY <1>1, HoldingIs, PadOfKey
<1>4. C = Ciphertext(key, text, pad, 0, m)
  BY <1>1 DEF Body
<1>5. PICK S : S = SealedUnits(key, text, pad)
  OBVIOUS
<1>6. C \in Seq(S) /\ Len(C) = m
  <2>1. 0 \in Nat /\ 0 <= m /\ m - 0 = m
    OBVIOUS
  <2>2. SealedFrom(key, text, pad, 0, m, C)
    BY <1>4, <2>1, CiphertextIs
  <2> QED
    BY <1>5, <2>1, <2>2 DEF SealedFrom
<1>7. PICK now \in Nat :
        /\ at <= now /\ now <= r + k /\ Balanced(key, dec, padded, now, r + k)
        /\ up = [ctx |-> Context(key, dec, padded, C, now, r + k), out |-> Units(key, dec, C, at, now)]
  <2>1. r \in Nat /\ r + k <= Len(C) /\ Balanced(key, dec, padded, at, r)
    BY <1>2, <1>6
  <2>2. ctx = Context(key, dec, padded, C, at, r) /\ IsPiece(read, C, r, r + k)
    BY <1>1, <1>2
  <2>3. Updated(key, dec, padded, C, at, r + k, up)
    BY <1>6, <2>1, <2>2, UpdateIs
  <2> QED
    BY <2>3 DEF Updated
<1>8. r + k \in Nat /\ m <= n + pad
  BY <1>1, <1>2, <1>3 DEF Reached
<1>9. now <= n
  BY <1>3, <1>7, <1>8, DecryptReaches DEF Decrypts
<1>10. up.out = SubSeq(text, at + 1, now)
  <2>1. now <= m /\ now <= Len(text) /\ at <= now
    BY <1>1, <1>2, <1>7, <1>8, <1>9
  <2>2. IsPiece(Units(key, dec, C, at, now), text, at, now)
    BY <1>4, <2>1, UnitsDecrypted
  <2>3. up.out = Units(key, dec, C, at, now)
    BY <1>7
  <2> QED
    BY <2>2, <2>3 DEF IsPiece
<1>11. up.out \in Seq(TextUnits)
  <2>1. now <= Len(text) /\ at <= now
    BY <1>1, <1>7, <1>9
  <2>2. SubSeq(text, at + 1, now) \in Seq(TextUnits)
    BY <2>1, Piece
  <2> QED
    BY <1>10, <2>2
<1>12. units \o up.out = SubSeq(text, 1, now)
  <2>1. 0 \in Nat /\ 0 <= at /\ 0 + 1 = 1 /\ at <= now /\ now <= Len(text)
    BY <1>1, <1>7, <1>9
  <2>2. SubSeq(text, 0 + 1, at) \o SubSeq(text, at + 1, now) = SubSeq(text, 0 + 1, now)
    BY <2>1, PiecesJoin
  <2> QED
    BY <1>2, <1>10, <2>1, <2>2
<1>13. pos + k \in Nat /\ (pos + k) - h = r + k
  BY <1>1, <1>2, <1>3
<1>14. up.ctx = Context(key, dec, padded, C, now, r + k)
  BY <1>7
<1>15. DecryptedSoFar(e, s, m, dec, text, up.ctx, pos + k, ended2, units \o up.out)
  BY <1>1, <1>7, <1>8, <1>9, <1>12, <1>13, <1>14 DEF DecryptedSoFar
<1> QED
  BY <1>11, <1>15

\* What comes last of a decryption: an error, where not all that was encrypted
\* is there, or what makes the output a beginning of the text.
Ends(e, text, m, units, last) ==
  \/ last = NULL /\ ~Whole(e, text, m)
  \/ /\ last # NULL /\ last \in Seq(TextUnits)
     /\ \E k \in Nat : /\ k <= Len(text) /\ units \o last = SubSeq(text, 1, k)
                       /\ Whole(e, text, m) => k = Len(text)

LEMMA DecryptEnds ==
  ASSUME EncAssumption, NEW e, NEW s, NEW text \in Seq(TextUnits), NEW m \in Nat, Reached(e, text, m),
         NEW dec, Decrypts(dec), NEW ctx, NEW pos,
         NEW units, DecryptedSoFar(e, s, m, dec, text, ctx, pos, TRUE, units),
         NEW last \in Finish(ctx)
  PROVE  Ends(e, text, m, units, last)
<1>1. PICK key, padded, C, h, n, pad :
        /\ key = KeyOf(e, s) /\ padded = ~e.nopad /\ C = Body(e, s, text, 0, m)
        /\ h = Len(Header(s)) /\ n = Len(text) /\ pad = Pad(e, n)
  OBVIOUS
<1>2. PICK at \in Nat : /\ at <= n /\ Balanced(key, dec, padded, at, m)
                        /\ ctx = Context(key, dec, padded, C, at, m)
                        /\ units = SubSeq(text, 1, at)
  BY <1>1 DEF DecryptedSoFar
<1>3. n \in Nat /\ PadOK(key, padded, n, pad) /\ key.mode = e.mode
  BY <1>1, PadOfKey
<1>4. C = Ciphertext(key, text, pad, 0, m)
  BY <1>1 DEF Body
<1>5. m <= n + pad
  BY <1>1, <1>3 DEF Reached
<1>6. \/ last = NULL /\ ~(m = n + pad /\ (key.mode = "cbc" => AtBlock(m)))
      \/ LastText(text, n, pad, m, at, last)
  <2>1. last \in Finish(Context(key, dec, padded, C, at, m))
    BY <1>2
  <2> QED
    BY <1>1, <1>2, <1>3, <1>4, <1>5, <2>1, FinishDecrypts
<1>7. CASE last = NULL /\ ~(m = n + pad /\ (key.mode = "cbc" => AtBlock(m)))
  BY <1>1, <1>3, <1>7 DEF Whole, Ends
<1>8. CASE LastText(text, n, pad, m, at, last)
  <2>1. PICK k \in Nat : /\ at <= k /\ k <= n /\ last = SubSeq(text, at + 1, k)
                         /\ m = n + pad => k = n
    BY <1>8 DEF LastText
  <2>2. k <= Len(text) /\ (Whole(e, text, m) => k = Len(text))
    BY <1>1, <2>1 DEF Whole
  <2>3. last \in Seq(TextUnits)
    <3>1. SubSeq(text, at + 1, k) \in Seq(TextUnits)
      BY <2>1, <2>2, Piece
    <3> QED
      BY <2>1, <3>1
  <2>4. last # NULL
    BY <2>3 DEF EncAssumption
  <2>5. units \o last = SubSeq(text, 1, k)
    <3>1. 0 \in Nat /\ 0 <= at /\ 0 + 1 = 1
      OBVIOUS
    <3>2. SubSeq(text, 0 + 1, at) \o SubSeq(text, at + 1, k) = SubSeq(text, 0 + 1, k)
      BY <2>1, <2>2, <3>1, PiecesJoin
    <3> QED
      BY <1>2, <2>1, <3>1, <3>2
  <2> QED
    BY <2>2, <2>3, <2>4, <2>5 DEF Ends
<1> QED
  BY <1>6, <1>7, <1>8
----------------------------------------------------------------------------
(* The steps that write *)

\* What is in the output after fwrite(): the units more, or nothing more and a fault.
LEMMA WroteIs ==
  ASSUME NEW units, NEW base64, NEW w \in Wrote(units, base64)
  PROVE  \/ w.ok /\ w.file = [base64 |-> base64, units |-> fs[run.opt.out].units \o units]
         \/ ~w.ok /\ w.file = fs[run.opt.out]
<1>1. PICK good, bad : /\ good = [ok |-> TRUE, file |-> [base64 |-> base64, units |-> fs[run.opt.out].units \o units]]
                       /\ bad = [ok |-> FALSE, file |-> fs[run.opt.out]]
  OBVIOUS
<1>2. w = good \/ w = bad
  BY <1>1 DEF Wrote, EOpt
<1>3. good.ok /\ good.file = [base64 |-> base64, units |-> fs[run.opt.out].units \o units]
  BY <1>1
<1>4. ~bad.ok /\ bad.file = fs[run.opt.out]
  BY <1>1
<1> QED
  BY <1>2, <1>3, <1>4

LEMMA SetsUpStep ==
  ASSUME EncAssumption, EncInv, EncSetsUp
  PROVE  EncInv'
<1>1. /\ run.pc = "setup" /\ DOMAIN run = Fields /\ run.opened /\ ~run.fault /\ salts' = salts /\ salts \in Nat
  BY DEF EncSetsUp, EncAt, EncInv, RunOK
<1>2. PICK opt : opt = run.opt
  OBVIOUS
<1>3. CASE opt.printonly /\ EncExit(0) /\ fs' = fs
  <2>1. /\ run'.pc = "exit" /\ DOMAIN run' = Fields /\ run'.opened /\ run'.opt = opt
        /\ run'.before = run.before /\ run'.fault = run.fault
    BY <1>1, <1>2, <1>3 DEF EncExit, Fields
  <2>2. StepKeeps
    BY <1>1, <1>2, <1>3, <2>1 DEF StepKeeps
  <2>3. RunOK' /\ KeyOK'
    BY <1>1, <2>1 DEF RunOK, KeyOK
  <2>4. ~Encrypting'
    BY <1>3, <2>1 DEF Encrypting
  <2>5. ~Undoes'
    <3>1. ASSUME NEW e, Matches(e, opt)
          PROVE  FALSE
      BY <1>3, <3>1 DEF Matches
    <3> QED
      BY <2>1, <3>1 DEF Undoes
  <2>6. EncryptOK' /\ DecryptOK'
    BY <2>4, <2>5 DEF EncryptOK, DecryptOK
  <2> QED
    BY <2>2, <2>3, <2>6, BeforeKept DEF EncInv
<1>4. CASE /\ ~opt.printonly
           /\ \E w \in IF opt.decrypt THEN {[ok |-> TRUE, file |-> fs[opt.out]]}
                       ELSE Wrote(Header(run.salt), FALSE) :
                /\ fs' = [fs EXCEPT ![opt.out] = w.file]
                /\ run' = [run EXCEPT !.pc = "stream", !.fault = run.fault \/ ~w.ok,
                                      !.ctx = NewContext(run.key, opt.decrypt, ~opt.nopad)]
  <2>1. PICK ok, file :
          /\ opt.decrypt => ok /\ file = fs[opt.out]
          /\ ~opt.decrypt /\ ok => file = [base64 |-> FALSE, units |-> fs[opt.out].units \o Header(run.salt)]
          /\ fs' = [fs EXCEPT ![opt.out] = file]
          /\ run' = [run EXCEPT !.pc = "stream", !.fault = run.fault \/ ~ok,
                                !.ctx = NewContext(run.key, opt.decrypt, ~opt.nopad)]
    <3>1. PICK w \in IF opt.decrypt THEN {[ok |-> TRUE, file |-> fs[opt.out]]}
                     ELSE Wrote(Header(run.salt), FALSE) :
            /\ fs' = [fs EXCEPT ![opt.out] = w.file]
            /\ run' = [run EXCEPT !.pc = "stream", !.fault = run.fault \/ ~w.ok,
                                  !.ctx = NewContext(run.key, opt.decrypt, ~opt.nopad)]
      BY <1>4
    <3>2. opt.decrypt => w.ok /\ w.file = fs[opt.out]
      BY <3>1
    <3>3. ~opt.decrypt /\ w.ok => w.file = [base64 |-> FALSE, units |-> fs[opt.out].units \o Header(run.salt)]
      <4>1. ~opt.decrypt => w \in Wrote(Header(run.salt), FALSE)
        BY <3>1
      <4> QED
        BY <1>2, <4>1, WroteIs
    <3> QED
      BY <3>1, <3>2, <3>3
  <2>2. /\ run'.pc = "stream" /\ DOMAIN run' = Fields /\ run'.opened /\ run'.opt = opt
        /\ run'.before = run.before /\ run'.salt = run.salt /\ run'.key = run.key /\ run'.pos = run.pos
        /\ run'.ctx = NewContext(run.key, opt.decrypt, ~opt.nopad) /\ (~run'.fault => ok)
    BY <1>1, <1>2, <2>1 DEF Fields
  <2>3. opt.out \in DOMAIN fs
    BY <1>1, <1>2, <1>4 DEF EncInv, RunOK
  <2>4. OnlyOutput /\ fs'[opt.out] = file /\ opt.out \in DOMAIN fs'
    BY <1>2, <2>1, <2>2, <2>3, OutputWritten
  <2>5. StepKeeps
    BY <1>1, <1>2, <2>2, <2>4 DEF StepKeeps
  <2>6. RunOK'
    BY <1>1, <1>4, <2>2, <2>4 DEF RunOK
  <2>7. SaltUsed(opt)' = SaltUsed(opt)
    BY <1>1 DEF SaltUsed
  <2>8. /\ ~opt.base64
        /\ ~SaltFromStream(opt) => run.pos = 0 /\ run.key = KeyOf(opt, run.salt)
        /\ ~Salted(opt) => run.salt = NULL
        /\ Salted(opt) /\ ~opt.decrypt => run.salt # NULL /\ run.salt = SaltUsed(opt)
    BY <1>1, <1>2 DEF EncInv, KeyOK
  <2>9. KeyOK'
    BY <2>2, <2>7, <2>8 DEF KeyOK
  <2>10. EncryptOK'
    <3>1. SUFFICES ASSUME Encrypting'
                   PROVE  EncryptOK'
      BY DEF EncryptOK
    <3>2. Encrypting /\ fs'[opt.in] = fs[opt.in] /\ ok
      BY <1>1, <1>2, <2>2, <2>5, <3>1, StillEncrypting DEF Encrypting
    <3>3. PICK text : text = fs[opt.in].units
      OBVIOUS
    <3>4. text \in Seq(TextUnits) /\ ~opt.decrypt
      BY <1>2, <3>2, <3>3 DEF Encrypting, Plain
    <3>5. fs[opt.out] = RawFile(<<>>)
      BY <1>1, <1>2, <3>2 DEF EncInv, EncryptOK
    <3>6. run.salt = SaltUsed(opt) /\ (Salted(opt) => run.salt # NULL)
      BY <2>8, <3>4 DEF SaltUsed
    <3>7. run.pos = 0 /\ run.key = KeyOf(opt, run.salt)
      BY <2>8, <3>4 DEF SaltFromStream
    <3>8. file = RawFile(Header(run.salt))
      <4>1. PICK h : h = Header(run.salt)
        OBVIOUS
      <4>2. h \in Seq({Magic, SaltOf(run.salt)})
        BY <4>1, HeaderIs
      <4>3. <<>> \o h = h
        BY <4>2, ConcatEmptySeq
      <4>4. fs[opt.out].units = <<>>
        BY <3>5 DEF RawFile
      <4> QED
        BY <2>1, <3>2, <3>4, <4>1, <4>3, <4>4 DEF RawFile
    <3>9. EncryptedSoFar(opt, run.salt, text, run'.ctx, run'.pos, FALSE, Header(run.salt))
      <4>1. PICK salt, ctx : salt = run.salt /\ ctx = NewContext(KeyOf(opt, salt), opt.decrypt, ~opt.nopad)
        OBVIOUS
      <4>2. EncryptedSoFar(opt, salt, text, ctx, 0, FALSE, Header(salt))
        BY <3>4, <4>1, EncryptBegins
      <4>3. run'.ctx = ctx /\ run'.pos = 0
        BY <2>2, <3>7, <4>1
      <4> QED
        BY <4>1, <4>2, <4>3
    <3>10. /\ fs'[opt.out] = RawFile(fs'[opt.out].units)
           /\ EncryptedSoFar(opt, run.salt, text, run'.ctx, run'.pos, run'.pc = "finish", fs'[opt.out].units)
      <4>1. (run'.pc = "finish") = FALSE
        BY <2>2
      <4>2. fs'[opt.out] = RawFile(Header(run.salt)) /\ fs'[opt.out].units = Header(run.salt)
        BY <2>4, <3>8 DEF RawFile
      <4> QED
        BY <3>9, <4>1, <4>2
    <3> QED
      BY <2>2, <2>4, <2>7, <3>2, <3>3, <3>6, <3>10 DEF EncryptOK
  <2>11. DecryptOK'
    <3>1. SUFFICES ASSUME Undoes'
                   PROVE  DecryptOK'
      BY DEF DecryptOK
    <3>2. Undoes
      BY <1>1, <2>5, <3>1, StillUndoes DEF EncInv
    <3>3. PICK e, text : e = run.before.opt /\ text = fs[e.in].units
      OBVIOUS
    <3>4. fs'[e.in] = fs[e.in] /\ fs'[e.out] = fs[e.out]
      BY <1>1, <2>5, <3>1, <3>3, StillUndoes DEF EncInv
    <3>5. text \in Seq(TextUnits) /\ Matches(e, opt)
      BY <1>2, <3>2, <3>3 DEF Undoes, Plain
    <3>6. opt.decrypt /\ opt.nopad = e.nopad
      BY <3>5 DEF Matches
    <3>7. fs[opt.out] = RawFile(<<>>)
      BY <1>1, <1>2, <3>2 DEF EncInv, DecryptOK
    <3>8. /\ ~fs[e.out].base64
          /\ \E s : \E m \in Nat :
               /\ Source(e, s, m, text, run.before.code, fs[e.out].units)
               /\ run.pos = Len(Header(s)) /\ run.key = KeyOf(e, s)
      BY <1>1, <3>2, <3>3 DEF EncInv, DecryptOK
    <3>9. PICK s : \E m \in Nat : /\ Source(e, s, m, text, run.before.code, fs[e.out].units)
                                  /\ run.pos = Len(Header(s)) /\ run.key = KeyOf(e, s)
      BY <3>8
    <3>10. PICK m \in Nat : /\ Source(e, s, m, text, run.before.code, fs[e.out].units)
                            /\ run.pos = Len(Header(s)) /\ run.key = KeyOf(e, s)
      BY <3>9
    <3>11. PICK dec : dec = opt.decrypt
      OBVIOUS
    <3>12. DecryptedSoFar(e, s, m, dec, text, NewContext(KeyOf(e, s), dec, ~e.nopad), Len(Header(s)), FALSE, <<>>)
      BY <3>5, DecryptBegins
    <3>13. DecryptedSoFar(e, s, m, opt.decrypt, text, run'.ctx, run'.pos, run'.pc = "finish", <<>>)
      <4>1. (run'.pc = "finish") = FALSE
        BY <2>2
      <4> QED
        BY <2>2, <3>6, <3>10, <3>11, <3>12, <4>1
    <3>14. fs'[opt.out] = RawFile(fs'[opt.out].units) /\ fs'[opt.out].units = <<>>
      BY <2>1, <2>4, <3>6, <3>7 DEF RawFile
    <3> QED
      BY <2>2, <3>3, <3>4, <3>8, <3>10, <3>13, <3>14 DEF DecryptOK
  <2> QED
    BY <2>5, <2>6, <2>9, <2>10, <2>11, BeforeKept DEF EncInv
<1> QED
  BY <1>1, <1>2, <1>3, <1>4 DEF EncSetsUp, EOpt

\* A text is read as it is.
LEMMA BytesIs ==
  ASSUME NEW file, ~file.base64
  PROVE  Bytes(file) = file.units
BY DEF Bytes

\* What was read is a piece of C, of m units, from r on, and it is empty only
\* at the end.
TakenFrom(read, C, r, m) ==
  \E k \in Nat : /\ r + k <= m /\ Len(read) = k /\ IsPiece(read, C, r, r + k)
                 /\ read = <<>> <=> r = m

\* What is read of the input of a decryption, after the header, is the next
\* piece of what was encrypted.
LEMMA ReadsBody ==
  ASSUME EncAssumption, NEW e, NEW s, NEW text, NEW m \in Nat,
         NEW in, in = Holding(e, s, text, m), NEW r \in Nat, r <= m,
         NEW pos, pos = Len(Header(s)) + r, NEW read, read = NextRead(in, pos)
  PROVE  TakenFrom(read, Body(e, s, text, 0, m), r, m)
<1>1. PICK H, C, h, S : /\ H = Header(s) /\ C = Body(e, s, text, 0, m) /\ h = Len(Header(s))
                        /\ S = FileUnits(e, s, text)
  OBVIOUS
<1>2. H \in Seq(S) /\ h \in Nat /\ in \in Seq(S) /\ Len(in) = h + m
  BY <1>1, HoldingIs
<1>3. C \in Seq(S) /\ Len(C) = m
  <2>1. 0 \in Nat /\ 0 <= m /\ m - 0 = m
    OBVIOUS
  <2>2. C \in Seq(S) /\ Len(C) = m - 0
    BY <1>1, <2>1, BodyIs
  <2> QED
    BY <2>1, <2>2
<1>4. in = H \o C
  BY <1>1 DEF Holding
<1>5. pos \in Nat /\ pos <= Len(in) /\ pos = h + r
  BY <1>1, <1>2
<1>6. PICK k \in Nat : ReadUpTo(in, pos, k, read)
  BY <1>2, <1>5, ReadIs
<1>7. /\ pos + k <= h + m /\ read = SubSeq(in, pos + 1, pos + k) /\ Len(read) = k
      /\ read = <<>> <=> pos = h + m
  BY <1>2, <1>6 DEF ReadUpTo
<1>8. PICK b : b = r + k
  OBVIOUS
<1>9. b \in Nat /\ r <= b /\ b <= Len(C) /\ pos + 1 = h + r + 1 /\ pos + k = h + b
  <2>1. pos + k <= h + m
    BY <1>7
  <2> QED
    BY <1>2, <1>3, <1>5, <1>8, <2>1
<1>10. SubSeq(H \o C, Len(H) + r + 1, Len(H) + b) = SubSeq(C, r + 1, b)
  BY <1>2, <1>3, <1>9, SkipHeader
<1>11. IsPiece(read, C, r, b)
  BY <1>1, <1>4, <1>7, <1>9, <1>10 DEF IsPiece
<1>12. b <= m
  BY <1>3, <1>9
<1>13. pos = h + m <=> r = m
  BY <1>2, <1>5
<1>14. \E n \in Nat :
         /\ r + n <= m /\ Len(read) = n /\ IsPiece(read, C, r, r + n)
         /\ read = <<>> <=> r = m
  BY <1>1, <1>7, <1>8, <1>11, <1>12, <1>13
<1>15. TakenFrom(read, C, r, m)
  BY <1>14 DEF TakenFrom
<1>16. C = Body(e, s, text, 0, m)
  BY <1>1
<1> QED
  BY <1>15, <1>16

LEMMA StreamsStep ==
  ASSUME EncAssumption, EncInv, EncStreams
  PROVE  EncInv'
<1>1. /\ run.pc = "stream" /\ DOMAIN run = Fields /\ run.opened /\ salts' = salts /\ salts \in Nat
      /\ ~run.opt.printonly
  BY DEF EncStreams, EncAt, EncInv, RunOK
<1>2. PICK opt, in, read, up : /\ opt = run.opt /\ in = Input
                               /\ read = NextRead(in, run.pos) /\ up = Update(run.ctx, read)
  OBVIOUS
<1>3. opt.out \in DOMAIN fs
  BY <1>1, <1>2 DEF EncInv, RunOK
<1>4. /\ ~opt.base64
      /\ ~SaltFromStream(opt) => run.key = KeyOf(opt, run.salt)
      /\ ~Salted(opt) => run.salt = NULL
      /\ Salted(opt) /\ ~opt.decrypt => run.salt # NULL /\ run.salt = SaltUsed(opt)
  BY <1>1, <1>2 DEF EncInv, KeyOK
<1>5. SaltUsed(opt)' = SaltUsed(opt)
  BY <1>1 DEF SaltUsed
<1>6. (run.pc = "finish") = FALSE
  BY <1>1
\* What an encryption has read.
<1>7. ASSUME Encrypting
      PROVE  LET text == fs[opt.in].units
                 salt == SaltUsed(opt)
             IN /\ text \in Seq(TextUnits) /\ ~opt.decrypt /\ (Salted(opt) => salt # NULL)
                /\ fs[opt.out] = RawFile(fs[opt.out].units)
                /\ EncryptedSoFar(opt, salt, text, run.ctx, run.pos, FALSE, fs[opt.out].units)
                /\ \E k \in Nat : /\ run.pos + k <= Len(text) /\ Len(read) = k
                                  /\ IsPiece(read, text, run.pos, run.pos + k)
                                  /\ read = <<>> <=> run.pos = Len(text)
  <2>1. PICK text, salt : text = fs[opt.in].units /\ salt = SaltUsed(opt)
    OBVIOUS
  <2>2. text \in Seq(TextUnits) /\ ~opt.decrypt /\ ~fs[opt.in].base64 /\ opt.in # opt.out
    BY <1>2, <1>7, <2>1 DEF Encrypting, Plain
  <2>3. /\ Salted(opt) => salt # NULL
        /\ fs[opt.out] = RawFile(fs[opt.out].units)
        /\ EncryptedSoFar(opt, salt, text, run.ctx, run.pos, FALSE, fs[opt.out].units)
    BY <1>1, <1>2, <1>6, <1>7, <2>1 DEF EncInv, EncryptOK
  <2>4. run.pos \in Nat /\ run.pos <= Len(text)
    BY <2>3 DEF EncryptedSoFar
  <2>5. read = NextRead(text, run.pos)
    BY <1>2, <2>1, <2>2, BytesIs DEF Input, EOpt
  <2>6. PICK k \in Nat : ReadUpTo(text, run.pos, k, read)
    BY <2>2, <2>4, <2>5, ReadIs
  <2>7. /\ run.pos + k <= Len(text) /\ Len(read) = k /\ IsPiece(read, text, run.pos, run.pos + k)
        /\ read = <<>> <=> run.pos = Len(text)
    BY <2>6 DEF ReadUpTo, IsPiece
  <2> QED
    BY <2>1, <2>2, <2>3, <2>7
\* What a decryption with the matching options has read.
<1>8. ASSUME Undoes
      PROVE  LET e == run.before.opt
                 text == fs[e.in].units
             IN /\ text \in Seq(TextUnits) /\ Decrypts(opt.decrypt) /\ ~fs[e.out].base64
                /\ fs[opt.out] = RawFile(fs[opt.out].units)
                /\ \E s : \E m \in Nat : \E k \in Nat : \E r \in Nat :
                     /\ Source(e, s, m, text, run.before.code, fs[e.out].units)
                     /\ DecryptedSoFar(e, s, m, opt.decrypt, text, run.ctx, run.pos, FALSE, fs[opt.out].units)
                     /\ r = run.pos - Len(Header(s)) /\ r + k <= m /\ Len(read) = k
                     /\ IsPiece(read, Body(e, s, text, 0, m), r, r + k)
                     /\ read = <<>> <=> r = m
  <2>1. PICK e, text : e = run.before.opt /\ text = fs[e.in].units
    OBVIOUS
  <2>2. text \in Seq(TextUnits) /\ Decrypts(opt.decrypt) /\ opt.in = e.out /\ opt.in # opt.out
    BY <1>2, <1>8, <2>1 DEF Undoes, Plain, Matches, Decrypts
  <2>3. /\ ~fs[e.out].base64
        /\ \E s : \E m \in Nat :
             /\ Source(e, s, m, text, run.before.code, fs[e.out].units)
             /\ fs[opt.out] = RawFile(fs[opt.out].units)
             /\ DecryptedSoFar(e, s, m, opt.decrypt, text, run.ctx, run.pos, FALSE, fs[opt.out].units)
    BY <1>1, <1>2, <1>6, <1>8, <2>1 DEF EncInv, DecryptOK
  <2>4. PICK s : \E m \in Nat :
             /\ Source(e, s, m, text, run.before.code, fs[e.out].units)
             /\ fs[opt.out] = RawFile(fs[opt.out].units)
             /\ DecryptedSoFar(e, s, m, opt.decrypt, text, run.ctx, run.pos, FALSE, fs[opt.out].units)
    BY <2>3
  <2>5. PICK m \in Nat :
             /\ Source(e, s, m, text, run.before.code, fs[e.out].units)
             /\ fs[opt.out] = RawFile(fs[opt.out].units)
             /\ DecryptedSoFar(e, s, m, opt.decrypt, text, run.ctx, run.pos, FALSE, fs[opt.out].units)
    BY <2>4
  <2>6. PICK r, h : r = run.pos - Len(Header(s)) /\ h = Len(Header(s))
    OBVIOUS
  <2>7. run.pos \in Nat /\ r \in Nat /\ r <= m
    BY <2>5, <2>6 DEF DecryptedSoFar
  <2>8. run.pos = h + r
    <3>1. h \in Nat
      BY <2>6, HoldingIs
    <3> QED
      BY <2>6, <2>7, <3>1
  <2>9. in = Holding(e, s, text, m)
    <3>1. fs[e.out].units = Holding(e, s, text, m)
      BY <2>5 DEF Source
    <3>2. in = Bytes(fs[opt.in])
      BY <1>2, <2>2 DEF Input, EOpt
    <3>3. Bytes(fs[e.out]) = fs[e.out].units
      BY <2>3, BytesIs
    <3> QED
      BY <2>2, <3>1, <3>2, <3>3
  <2>10. PICK k \in Nat : /\ r + k <= m /\ Len(read) = k /\ IsPiece(read, Body(e, s, text, 0, m), r, r + k)
                          /\ read = <<>> <=> r = m
    <3>1. PICK pos : pos = run.pos
      OBVIOUS
    <3>2. pos = Len(Header(s)) + r
      BY <2>6, <2>8, <3>1
    <3>3. read = NextRead(in, pos)
      BY <1>2, <3>1
    <3>4. r \in Nat /\ r <= m /\ m \in Nat
      BY <2>7
    <3>5. TakenFrom(read, Body(e, s, text, 0, m), r, m)
      BY <2>9, <3>2, <3>3, <3>4, ReadsBody
    <3> QED
      BY <3>5 DEF TakenFrom
  <2>11. \E k_ \in Nat : \E r_ \in Nat :
           /\ r_ = run.pos - Len(Header(s)) /\ r_ + k_ <= m /\ Len(read) = k_
           /\ IsPiece(read, Body(e, s, text, 0, m), r_, r_ + k_)
           /\ read = <<>> <=> r_ = m
    BY <2>6, <2>7, <2>10
  <2> QED
    BY <2>1, <2>2, <2>3, <2>5, <2>11
<1>9. CASE \E w \in Wrote(up.out, FALSE) :
             /\ fs' = [fs EXCEPT ![opt.out] = w.file]
             /\ run' = [run EXCEPT !.ctx = up.ctx, !.pos = run.pos + Len(read), !.fault = run.fault \/ ~w.ok]
  <2>1. PICK w \in Wrote(up.out, FALSE) :
             /\ fs' = [fs EXCEPT ![opt.out] = w.file]
             /\ run' = [run EXCEPT !.ctx = up.ctx, !.pos = run.pos + Len(read), !.fault = run.fault \/ ~w.ok]
    BY <1>9
  <2>2. /\ run'.pc = "stream" /\ DOMAIN run' = Fields /\ run'.opened /\ run'.opt = opt
        /\ run'.before = run.before /\ run'.salt = run.salt /\ run'.key = run.key
        /\ run'.pos = run.pos + Len(read) /\ run'.ctx = up.ctx /\ (~run'.fault => ~run.fault /\ w.ok)
    BY <1>1, <1>2, <2>1 DEF Fields
  <2>3. OnlyOutput /\ fs'[opt.out] = w.file /\ opt.out \in DOMAIN fs'
    BY <1>2, <1>3, <2>1, <2>2, OutputWritten
  <2>4. StepKeeps
    BY <1>1, <1>2, <2>2, <2>3 DEF StepKeeps
  <2>5. RunOK'
    BY <1>1, <1>2, <2>2, <2>3 DEF RunOK
  <2>6. KeyOK'
    BY <1>4, <1>5, <2>2 DEF KeyOK
  <2>7. w.ok => fs'[opt.out] = RawFile(fs[opt.out].units \o up.out)
    BY <1>2, <2>1, <2>3, WroteIs DEF RawFile
  <2>8. (run'.pc = "finish") = FALSE
    BY <2>2
  <2>9. EncryptOK'
    <3>1. SUFFICES ASSUME Encrypting'
                   PROVE  EncryptOK'
      BY DEF EncryptOK
    <3>2. Encrypting /\ fs'[opt.in] = fs[opt.in] /\ w.ok
      BY <1>1, <1>2, <2>2, <2>4, <3>1, StillEncrypting DEF Encrypting
    <3>3. PICK text, salt, units : text = fs[opt.in].units /\ salt = SaltUsed(opt) /\ units = fs[opt.out].units
      OBVIOUS
    <3>4. /\ text \in Seq(TextUnits) /\ ~opt.decrypt /\ (Salted(opt) => salt # NULL)
          /\ EncryptedSoFar(opt, salt, text, run.ctx, run.pos, FALSE, units)
          /\ \E k \in Nat : /\ run.pos + k <= Len(text) /\ Len(read) = k
                            /\ IsPiece(read, text, run.pos, run.pos + k)
      BY <1>7, <3>2, <3>3
    <3>5. PICK k \in Nat : /\ run.pos + k <= Len(text) /\ Len(read) = k
                           /\ IsPiece(read, text, run.pos, run.pos + k)
      BY <3>4
    <3>6. EncryptedSoFar(opt, salt, text, up.ctx, run.pos + k, FALSE, units \o up.out)
      BY <1>2, <3>4, <3>5, EncryptMore
    <3>7. fs'[opt.out] = RawFile(fs'[opt.out].units) /\ fs'[opt.out].units = units \o up.out
      <4>1. PICK all : all = units \o up.out
        OBVIOUS
      <4>2. fs'[opt.out] = RawFile(all)
        BY <2>7, <3>2, <3>3, <4>1
      <4> QED
        BY <4>1, <4>2 DEF RawFile
    <3>8. EncryptedSoFar(opt, salt, text, run'.ctx, run'.pos, run'.pc = "finish", fs'[opt.out].units)
      BY <2>2, <2>8, <3>5, <3>6, <3>7
    <3> QED
      BY <1>5, <2>2, <2>3, <3>2, <3>3, <3>4, <3>7, <3>8 DEF EncryptOK
  <2>10. DecryptOK'
    <3>1. SUFFICES ASSUME Undoes'
                   PROVE  DecryptOK'
      BY DEF DecryptOK
    <3>2. PICK e, text, units, dec : /\ e = run.before.opt /\ text = fs[e.in].units /\ units = fs[opt.out].units
                                     /\ dec = opt.decrypt
      OBVIOUS
    <3>3. /\ Undoes /\ w.ok
          /\ fs'[e.in] = fs[e.in] /\ fs'[e.out] = fs[e.out]
      BY <1>1, <2>2, <2>4, <3>1, <3>2, StillUndoes DEF EncInv, Undoes
    <3>4. /\ text \in Seq(TextUnits) /\ Decrypts(dec) /\ ~fs[e.out].base64
          /\ \E s : \E m \in Nat : \E k \in Nat : \E r \in Nat :
               /\ Source(e, s, m, text, run.before.code, fs[e.out].units)
               /\ DecryptedSoFar(e, s, m, dec, text, run.ctx, run.pos, FALSE, units)
               /\ r = run.pos - Len(Header(s)) /\ r + k <= m /\ Len(read) = k
               /\ IsPiece(read, Body(e, s, text, 0, m), r, r + k)
      BY <1>8, <3>2, <3>3
    <3>5. PICK s, m, k, r :
               /\ m \in Nat /\ k \in Nat /\ r \in Nat
               /\ Source(e, s, m, text, run.before.code, fs[e.out].units)
               /\ DecryptedSoFar(e, s, m, dec, text, run.ctx, run.pos, FALSE, units)
               /\ r = run.pos - Len(Header(s)) /\ r + k <= m /\ Len(read) = k
               /\ IsPiece(read, Body(e, s, text, 0, m), r, r + k)
      BY <3>4
    <3>6. Reached(e, text, m)
      BY <3>5 DEF Source
    <3>7. DecryptedSoFar(e, s, m, dec, text, up.ctx, run.pos + k, FALSE, units \o up.out)
      BY <1>2, <3>4, <3>5, <3>6, DecryptMore
    <3>8. fs'[opt.out] = RawFile(fs'[opt.out].units) /\ fs'[opt.out].units = units \o up.out
      <4>1. PICK all : all = units \o up.out
        OBVIOUS
      <4>2. fs'[opt.out] = RawFile(all)
        BY <2>7, <3>2, <3>3, <4>1
      <4> QED
        BY <4>1, <4>2 DEF RawFile
    <3>9. DecryptedSoFar(e, s, m, opt.decrypt, text, run'.ctx, run'.pos, run'.pc = "finish", fs'[opt.out].units)
      BY <2>2, <2>8, <3>2, <3>5, <3>7, <3>8
    <3> QED
      BY <2>2, <3>2, <3>3, <3>4, <3>5, <3>8, <3>9 DEF DecryptOK
  <2> QED
    BY <2>4, <2>5, <2>6, <2>9, <2>10, BeforeKept DEF EncInv
<1>10. CASE /\ run' = [run EXCEPT !.pc = "finish", !.fault = run.fault \/ read # <<>>]
            /\ fs' = fs
  <2>1. /\ run'.pc = "finish" /\ DOMAIN run' = Fields /\ run'.opened /\ run'.opt = opt
        /\ run'.before = run.before /\ run'.salt = run.salt /\ run'.key = run.key
        /\ run'.pos = run.pos /\ run'.ctx = run.ctx /\ (~run'.fault => ~run.fault /\ read = <<>>)
    BY <1>1, <1>2, <1>10 DEF Fields
  <2>2. StepKeeps
    BY <1>1, <1>2, <1>10, <2>1 DEF StepKeeps
  <2>3. RunOK'
    BY <1>1, <1>2, <1>3, <1>10, <2>1 DEF RunOK
  <2>4. KeyOK'
    BY <1>4, <1>5, <2>1 DEF KeyOK
  <2>5. (run'.pc = "finish") = TRUE
    BY <2>1
  <2>6. EncryptOK'
    <3>1. SUFFICES ASSUME Encrypting'
                   PROVE  EncryptOK'
      BY DEF EncryptOK
    <3>2. Encrypting /\ read = <<>>
      BY <1>1, <2>1, <2>2, <3>1, StillEncrypting DEF Encrypting
    <3>3. PICK text, salt, units : text = fs[opt.in].units /\ salt = SaltUsed(opt) /\ units = fs[opt.out].units
      OBVIOUS
    <3>4. /\ Salted(opt) => salt # NULL
          /\ fs[opt.out] = RawFile(units)
          /\ EncryptedSoFar(opt, salt, text, run.ctx, run.pos, FALSE, units)
          /\ run.pos = Len(text)
      BY <1>7, <3>2, <3>3
    <3>5. EncryptedSoFar(opt, salt, text, run.ctx, run.pos, TRUE, units)
      BY <3>4 DEF EncryptedSoFar
    <3>6. EncryptedSoFar(opt, salt, text, run'.ctx, run'.pos, run'.pc = "finish", units)
      BY <2>1, <2>5, <3>5
    <3> QED
      BY <1>3, <1>5, <1>10, <2>1, <3>3, <3>4, <3>6 DEF EncryptOK
  <2>7. DecryptOK'
    <3>1. SUFFICES ASSUME Undoes'
                   PROVE  DecryptOK'
      BY DEF DecryptOK
    <3>2. PICK e, text, units : e = run.before.opt /\ text = fs[e.in].units /\ units = fs[opt.out].units
      OBVIOUS
    <3>3. Undoes /\ read = <<>>
      BY <1>1, <2>1, <2>2, <3>1, StillUndoes DEF EncInv, Undoes
    <3>4. /\ ~fs[e.out].base64 /\ fs[opt.out] = RawFile(units)
          /\ \E s : \E m \in Nat :
               /\ Source(e, s, m, text, run.before.code, fs[e.out].units)
               /\ DecryptedSoFar(e, s, m, opt.decrypt, text, run.ctx, run.pos, FALSE, units)
               /\ run.pos - Len(Header(s)) = m
      BY <1>8, <3>2, <3>3
    <3>5. PICK s, m : /\ m \in Nat
                      /\ Source(e, s, m, text, run.before.code, fs[e.out].units)
                      /\ DecryptedSoFar(e, s, m, opt.decrypt, text, run.ctx, run.pos, FALSE, units)
                      /\ run.pos - Len(Header(s)) = m
      BY <3>4
    <3>6. DecryptedSoFar(e, s, m, opt.decrypt, text, run.ctx, run.pos, TRUE, units)
      BY <3>5 DEF DecryptedSoFar
    <3>7. DecryptedSoFar(e, s, m, opt.decrypt, text, run'.ctx, run'.pos, run'.pc = "finish", units)
      BY <2>1, <2>5, <3>6
    <3> QED
      BY <1>10, <2>1, <3>2, <3>4, <3>5, <3>7 DEF DecryptOK
  <2> QED
    BY <2>2, <2>3, <2>4, <2>6, <2>7, BeforeKept DEF EncInv
<1> QED
  BY <1>1, <1>2, <1>9, <1>10 DEF EncStreams, EOpt, NextRead

LEMMA FinishesStep ==
  ASSUME EncAssumption, EncInv, EncFinishes
  PROVE  EncInv'
<1>1. /\ run.pc = "finish" /\ DOMAIN run = Fields /\ run.opened /\ salts' = salts /\ salts \in Nat
  BY DEF EncFinishes, EncAt, EncInv, RunOK
<1>2. PICK opt : opt = run.opt
  OBVIOUS
<1>3. opt.out \in DOMAIN fs /\ ~opt.base64 /\ ~opt.printonly
  BY <1>1, <1>2 DEF EncInv, RunOK, KeyOK
<1>4. SaltUsed(opt)' = SaltUsed(opt)
  BY <1>1 DEF SaltUsed
<1>5. (run.pc = "finish") = TRUE
  BY <1>1
<1>6. PICK last \in Finish(run.ctx) :
        \/ last = NULL /\ EncExit(1) /\ fs' = fs
        \/ /\ last # NULL
           /\ \E w \in Wrote(last, FALSE) :
                /\ fs' = [fs EXCEPT ![opt.out] = w.file]
                /\ run' = [run EXCEPT !.pc = "closing", !.code = 0, !.fault = run.fault \/ ~w.ok]
  BY <1>2 DEF EncFinishes, EOpt
\* What a decryption with the matching options gives at its end.
<1>7. ASSUME Undoes
      PROVE  LET e == run.before.opt
                 text == fs[e.in].units
             IN /\ fs[opt.out] = RawFile(fs[opt.out].units)
                /\ \/ last = NULL /\ run.before.code # 0
                   \/ /\ last # NULL
                      /\ \E k \in Nat : /\ k <= Len(text) /\ fs[opt.out].units \o last = SubSeq(text, 1, k)
                                        /\ run.before.code = 0 => k = Len(text)
  <2>1. PICK e, text, dec : e = run.before.opt /\ text = fs[e.in].units /\ dec = opt.decrypt
    OBVIOUS
  <2>2. text \in Seq(TextUnits) /\ Decrypts(dec)
    BY <1>2, <1>7, <2>1 DEF Undoes, Plain, Matches, Decrypts
  <2>3. \E s : \E m \in Nat :
             /\ Source(e, s, m, text, run.before.code, fs[e.out].units)
             /\ fs[opt.out] = RawFile(fs[opt.out].units)
             /\ DecryptedSoFar(e, s, m, dec, text, run.ctx, run.pos, TRUE, fs[opt.out].units)
    BY <1>1, <1>2, <1>5, <1>7, <2>1 DEF EncInv, DecryptOK
  <2>4. PICK s, m : /\ m \in Nat
             /\ Source(e, s, m, text, run.before.code, fs[e.out].units)
             /\ fs[opt.out] = RawFile(fs[opt.out].units)
             /\ DecryptedSoFar(e, s, m, dec, text, run.ctx, run.pos, TRUE, fs[opt.out].units)
    BY <2>3
  <2>5. PICK units : units = fs[opt.out].units
    OBVIOUS
  <2>6. Reached(e, text, m) /\ (run.before.code = 0 => Whole(e, text, m))
    BY <2>4 DEF Source
  <2>7. Ends(e, text, m, units, last)
    BY <2>2, <2>4, <2>5, <2>6, DecryptEnds
  <2> QED
    BY <2>1, <2>4, <2>5, <2>6, <2>7 DEF Ends
<1>8. CASE last = NULL /\ EncExit(1) /\ fs' = fs
  <2>1. /\ run'.pc = "exit" /\ run'.code = 1 /\ DOMAIN run' = Fields /\ run'.opened /\ run'.opt = opt
        /\ run'.before = run.before /\ run'.fault = run.fault
    BY <1>1, <1>2, <1>8 DEF EncExit, Fields
  <2>2. StepKeeps
    BY <1>1, <1>2, <1>8, <2>1 DEF StepKeeps
  <2>3. RunOK' /\ KeyOK'
    BY <1>1, <2>1 DEF RunOK, KeyOK
  <2>4. Undoes => run.before.code # 0
    BY <1>7, <1>8
  <2> QED
    BY <1>1, <1>8, <2>1, <2>2, <2>3, <2>4, BeforeKept, EncryptStops, DecryptStops DEF EncInv
<1>9. CASE /\ last # NULL
           /\ \E w \in Wrote(last, FALSE) :
                /\ fs' = [fs EXCEPT ![opt.out] = w.file]
                /\ run' = [run EXCEPT !.pc = "closing", !.code = 0, !.fault = run.fault \/ ~w.ok]
  <2>1. PICK w \in Wrote(last, FALSE) :
                /\ fs' = [fs EXCEPT ![opt.out] = w.file]
                /\ run' = [run EXCEPT !.pc = "closing", !.code = 0, !.fault = run.fault \/ ~w.ok]
    BY <1>9
  <2>2. /\ run'.pc = "closing" /\ run'.code = 0 /\ DOMAIN run' = Fields /\ run'.opened /\ run'.opt = opt
        /\ run'.before = run.before /\ (~run'.fault => ~run.fault /\ w.ok)
    BY <1>1, <1>2, <2>1 DEF Fields
  <2>3. OnlyOutput /\ fs'[opt.out] = w.file /\ opt.out \in DOMAIN fs'
    BY <1>2, <1>3, <2>1, <2>2, OutputWritten
  <2>4. StepKeeps
    BY <1>1, <1>2, <2>2, <2>3 DEF StepKeeps
  <2>5. RunOK' /\ KeyOK'
    BY <1>1, <1>2, <1>3, <2>2, <2>3 DEF RunOK, KeyOK
  <2>6. w.ok => fs'[opt.out] = [base64 |-> FALSE, units |-> fs[opt.out].units \o last]
    BY <1>2, <2>1, <2>3, WroteIs
  <2>7. EncryptOK'
    <3>1. SUFFICES ASSUME Encrypting'
                   PROVE  EncryptOK'
      BY DEF EncryptOK
    <3>2. Encrypting /\ fs'[opt.in] = fs[opt.in] /\ w.ok
      BY <1>1, <1>2, <2>2, <2>4, <3>1, StillEncrypting DEF Encrypting
    <3>3. PICK text, salt, units : text = fs[opt.in].units /\ salt = SaltUsed(opt) /\ units = fs[opt.out].units
      OBVIOUS
    <3>4. text \in Seq(TextUnits) /\ ~opt.decrypt
      BY <1>2, <3>2, <3>3 DEF Encrypting, Plain
    <3>5. /\ Salted(opt) => salt # NULL
          /\ EncryptedSoFar(opt, salt, text, run.ctx, run.pos, TRUE, units)
      BY <1>1, <1>2, <1>5, <3>2, <3>3 DEF EncInv, EncryptOK
    <3>6. PICK file : file = fs'[opt.out]
      OBVIOUS
    <3>7. (opt.base64 = TRUE) = FALSE
      BY <1>3
    <3>8. file = [base64 |-> opt.base64 = TRUE, units |-> units \o last]
      BY <2>6, <3>2, <3>3, <3>6, <3>7
    <3>9. Encrypted(opt, salt, text, 0, file)
      BY <1>6, <1>9, <3>4, <3>5, <3>8, EncryptEnds
    <3> QED
      BY <1>4, <2>2, <2>3, <3>2, <3>3, <3>5, <3>6, <3>9 DEF EncryptOK
  <2>8. DecryptOK'
    <3>1. SUFFICES ASSUME Undoes'
                   PROVE  DecryptOK'
      BY DEF DecryptOK
    <3>2. PICK e, text, units : e = run.before.opt /\ text = fs[e.in].units /\ units = fs[opt.out].units
      OBVIOUS
    <3>3. Undoes /\ w.ok /\ fs'[e.in] = fs[e.in]
      BY <1>1, <2>2, <2>4, <3>1, <3>2, StillUndoes DEF EncInv, Undoes
    <3>4. PICK k \in Nat : /\ k <= Len(text) /\ units \o last = SubSeq(text, 1, k)
                           /\ run.before.code = 0 => k = Len(text)
      BY <1>7, <1>9, <3>2, <3>3
    <3>5. PICK all : all = SubSeq(text, 1, k)
      OBVIOUS
    <3>6. fs'[opt.out] = RawFile(all)
      BY <2>6, <3>2, <3>3, <3>4, <3>5 DEF RawFile
    <3>7. Decrypted(text, run.before.code, run'.code, fs'[opt.out])
      BY <2>2, <3>4, <3>5, <3>6 DEF Decrypted
    <3> QED
      BY <2>2, <3>2, <3>3, <3>7 DEF DecryptOK
  <2> QED
    BY <2>4, <2>5, <2>7, <2>8, BeforeKept DEF EncInv
<1> QED
  BY <1>6, <1>8, <1>9

----------------------------------------------------------------------------
(* A file processed at once *)

LEMMA AllOfIt ==
  ASSUME NEW S, NEW C \in Seq(S)
  PROVE  IsPiece(C, C, 0, 0 + Len(C)) /\ SubSeq(C, 0 + 1, Len(C)) = C
<1>1. 0 + 1 = 1 /\ 0 + Len(C) = Len(C)
  OBVIOUS
<1> QED
  BY <1>1, SubSeqFull DEF IsPiece

Written(salt, out, last) == (Header(salt) \o out) \o last

LEMMA EncryptWhole ==
  ASSUME EncAssumption, NEW opt, ~opt.decrypt, NEW salt, NEW text \in Seq(TextUnits),
         NEW ctx, ctx = NewContext(KeyOf(opt, salt), opt.decrypt, ~opt.nopad), NEW up, up = Update(ctx, text),
         NEW last \in Finish(up.ctx), last # NULL, NEW units, units = Written(salt, up.out, last),
         NEW file, file = [base64 |-> opt.base64 = TRUE, units |-> units]
  PROVE  Encrypted(opt, salt, text, 0, file)
<1>1. PICK n, written : n = Len(text) /\ written = Header(salt) \o up.out
  OBVIOUS
<1>2. n \in Nat /\ 0 + n = n /\ 0 + n <= Len(text) /\ 0 + n = Len(text)
  BY <1>1
<1>3. EncryptedSoFar(opt, salt, text, ctx, 0, FALSE, Header(salt))
  BY EncryptBegins
<1>4. IsPiece(text, text, 0, 0 + n)
  BY <1>1, AllOfIt
<1>5. EncryptedSoFar(opt, salt, text, up.ctx, 0 + n, TRUE, written)
  BY <1>1, <1>2, <1>3, <1>4, EncryptMore
<1>6. file = [base64 |-> opt.base64 = TRUE, units |-> written \o last]
  BY <1>1 DEF Written
<1> QED
  BY <1>5, <1>6, EncryptEnds

LEMMA EncryptedIs ==
  ASSUME NEW opt, NEW salt, NEW text, NEW file, Encrypted(opt, salt, text, 0, file)
  PROVE  <<>> \o file.units = file.units
<1>1. PICK m \in Nat : file = FileOf(opt, salt, text, m)
  BY DEF Encrypted
<1>2. PICK h : h = Holding(opt, salt, text, m)
  OBVIOUS
<1>3. h \in Seq(FileUnits(opt, salt, text))
  BY <1>2, HoldingIs
<1>4. file.units = h
  BY <1>1, <1>2 DEF FileOf
<1>5. <<>> \o h = h
  BY <1>3, ConcatEmptySeq
<1> QED
  BY <1>4, <1>5

LEMMA DecryptWhole ==
  ASSUME EncAssumption, NEW e, NEW s, NEW text \in Seq(TextUnits), NEW m \in Nat, Reached(e, text, m),
         NEW dec, Decrypts(dec), NEW ctx, ctx = NewContext(KeyOf(e, s), dec, ~e.nopad),
         NEW data, data = Body(e, s, text, 0, m), NEW up, up = Update(ctx, data), NEW last \in Finish(up.ctx)
  PROVE  Ends(e, text, m, up.out, last)
<1>1. PICK h, S, out : h = Len(Header(s)) /\ S = FileUnits(e, s, text) /\ out = up.out
  OBVIOUS
<1>2. DecryptedSoFar(e, s, m, dec, text, ctx, h, FALSE, <<>>)
  BY <1>1, DecryptBegins
<1>3. h \in Nat /\ 0 \in Nat /\ h - h = 0 /\ 0 + m <= m /\ 0 + m = m
  BY <1>1, HoldingIs
<1>4. IsPiece(data, data, 0, 0 + m)
  <2>1. 0 \in Nat /\ 0 <= m /\ m - 0 = m
    OBVIOUS
  <2>2. data \in Seq(S) /\ Len(data) = m - 0
    BY <1>1, <2>1, BodyIs
  <2>3. data \in Seq(S) /\ Len(data) = m
    BY <2>1, <2>2
  <2>4. IsPiece(data, data, 0, 0 + Len(data))
    BY <2>3, AllOfIt
  <2> QED
    BY <2>3, <2>4
<1>5. DecryptedSoFar(e, s, m, dec, text, up.ctx, h + m, TRUE, <<>> \o out) /\ out \in Seq(TextUnits)
  <2>1. PICK r, none : r = 0 /\ none = <<>>
    OBVIOUS
  <2>2. DecryptedSoFar(e, s, m, dec, text, ctx, h, FALSE, none)
    BY <1>2, <2>1
  <2>3. r = h - Len(Header(s)) /\ r + m <= m /\ r + m = m
    BY <1>1, <1>3, <2>1
  <2>4. IsPiece(data, Body(e, s, text, 0, m), r, r + m)
    BY <1>4, <2>1
  <2>5. DecryptedSoFar(e, s, m, dec, text, up.ctx, h + m, TRUE, none \o up.out) /\ up.out \in Seq(TextUnits)
    BY <2>2, <2>3, <2>4, DecryptMore
  <2> QED
    BY <1>1, <2>1, <2>5
<1>6. <<>> \o out = out
  BY <1>5, ConcatEmptySeq
<1>7. DecryptedSoFar(e, s, m, dec, text, up.ctx, h + m, TRUE, out)
  BY <1>5, <1>6
<1>8. Ends(e, text, m, out, last)
  BY <1>7, DecryptEnds
<1> QED
  BY <1>1, <1>8

LEMMA EndsIs ==
  ASSUME NEW e, NEW text \in Seq(TextUnits), NEW m, NEW units, NEW last, Ends(e, text, m, units, last), last # NULL
  PROVE  <<>> \o (units \o last) = units \o last
<1>1. PICK k \in Nat : k <= Len(text) /\ units \o last = SubSeq(text, 1, k)
  BY DEF Ends
<1>2. 0 \in Nat /\ 0 <= k /\ 0 + 1 = 1
  OBVIOUS
<1>3. PICK p : p = SubSeq(text, 0 + 1, k)
  OBVIOUS
<1>4. p \in Seq(TextUnits)
  BY <1>1, <1>2, <1>3, Piece
<1>5. <<>> \o p = p
  BY <1>4, ConcatEmptySeq
<1> QED
  BY <1>1, <1>2, <1>3, <1>5

\* The data after the header, and all of it where there is none.
LEMMA DataIs ==
  ASSUME NEW e, NEW s, NEW m \in Nat, NEW text, NEW units, units = Holding(e, s, text, m)
  PROVE  /\ s = NULL => units = Body(e, s, text, 0, m)
         /\ s # NULL => /\ SubSeq(units, HeaderLen + 1, Len(units)) = Body(e, s, text, 0, m)
                        /\ HasHeader(units) /\ units[2].key = s
<1>1. PICK H, C, S : H = Header(s) /\ C = Body(e, s, text, 0, m) /\ S = FileUnits(e, s, text)
  OBVIOUS
<1>2. C \in Seq(S) /\ Len(C) = m
  <2>1. 0 \in Nat /\ 0 <= m /\ m - 0 = m
    OBVIOUS
  <2>2. C \in Seq(S) /\ Len(C) = m - 0
    BY <1>1, <2>1, BodyIs
  <2> QED
    BY <2>1, <2>2
<1>3. H \in Seq(S) /\ Len(units) = Len(H) + m /\ (s # NULL => HasHeader(units) /\ units[2].key = s)
  BY <1>1, HoldingIs
<1>4. units = H \o C
  BY <1>1 DEF Holding
<1>5. CASE s = NULL
  <2>1. H = <<>>
    BY <1>1, <1>5 DEF Header
  <2>2. <<>> \o C = C
    BY <1>2, ConcatEmptySeq
  <2> QED
    BY <1>1, <1>4, <1>5, <2>1, <2>2
<1>6. CASE s # NULL
  <2>1. Len(H) = 2
    BY <1>1, <1>6, HeaderIs
  <2>2. 0 \in Nat /\ 0 <= m /\ m <= Len(C)
    BY <1>2
  <2>3. SubSeq(H \o C, Len(H) + 0 + 1, Len(H) + m) = SubSeq(C, 0 + 1, m)
    BY <1>2, <1>3, <2>2, SkipHeader
  <2>4. SubSeq(C, 0 + 1, m) = C
    BY <1>2, AllOfIt
  <2>5. SubSeq(units, HeaderLen + 1, Len(units)) = C
    BY <1>3, <1>4, <2>1, <2>3, <2>4 DEF HeaderLen
  <2> QED
    BY <1>1, <1>3, <1>6, <2>5
<1> QED
  BY <1>5, <1>6

\* What EncBuffered makes of a file.
Fails(opt, file) ==
  \/ opt.decrypt /\ ~file.base64 /\ file.units # <<>>
  \/ SaltFromStream(opt) /\ ~HasHeader(file.units)
DataOf(opt, file) ==
  IF SaltFromStream(opt) THEN SubSeq(file.units, HeaderLen + 1, Len(file.units))
  ELSE IF opt.decrypt THEN file.units ELSE Bytes(file)
SaltIn(opt, file) == IF SaltFromStream(opt) THEN file.units[2].key ELSE run.salt

\* A decryption with the matching options finds what was encrypted, or that
\* the encryption has failed.
LEMMA BufferedSource ==
  ASSUME EncAssumption, EncInv, run.pc = "buffered", Undoes,
         NEW e, e = run.before.opt, NEW opt, opt = run.opt, NEW text, text = fs[e.in].units,
         NEW file, file = fs[opt.in]
  PROVE  \/ run.before.code # 0 /\ Fails(opt, file)
         \/ /\ ~Fails(opt, file)
            /\ \E s : \E m \in Nat : /\ Source(e, s, m, text, run.before.code, file.units)
                                     /\ DataOf(opt, file) = Body(e, s, text, 0, m)
                                     /\ KeyOf(opt, SaltIn(opt, file)) = KeyOf(e, s)
<1>1. /\ Matches(e, opt) /\ opt.in = e.out /\ opt.base64 /\ (opt.base64 <=> e.base64) /\ opt.decrypt
      /\ text \in Seq(TextUnits)
  BY DEF Undoes, Matches, Plain, EncInv, KeyOK
<1>2. PICK s : /\ s # NULL <=> Salted(e)
               /\ Encrypted(e, s, text, run.before.code, file)
  BY <1>1, HasSource DEF EncInv
<1>3. /\ SaltFromStream(opt) <=> Salted(e)
      /\ Salted(opt) <=> Salted(e)
  BY <1>1, MatchingSalts
<1>4. CASE file = RawFile(<<>>) /\ run.before.code # 0 /\ SaltFromStream(opt)
  <2>1. ~HasHeader(file.units)
    BY <1>4 DEF RawFile, HasHeader, HeaderLen
  <2> QED
    BY <1>4, <2>1 DEF Fails
<1>5. ASSUME NEW m \in Nat, Source(e, s, m, text, run.before.code, file.units), file.base64 \/ file = RawFile(<<>>),
             SaltFromStream(opt) => file # RawFile(<<>>)
      PROVE  /\ ~Fails(opt, file)
             /\ DataOf(opt, file) = Body(e, s, text, 0, m)
             /\ KeyOf(opt, SaltIn(opt, file)) = KeyOf(e, s)
  <2>1. file.units = Holding(e, s, text, m)
    BY <1>5 DEF Source
  <2>2. CASE SaltFromStream(opt)
    <3>1. s # NULL
      BY <1>2, <1>3, <2>2
    <3>2. /\ SubSeq(file.units, HeaderLen + 1, Len(file.units)) = Body(e, s, text, 0, m)
          /\ HasHeader(file.units) /\ file.units[2].key = s
      BY <2>1, <3>1, DataIs
    <3>3. DataOf(opt, file) = Body(e, s, text, 0, m) /\ SaltIn(opt, file) = s
      BY <2>2, <3>2 DEF DataOf, SaltIn
    <3>4. ~Fails(opt, file)
      BY <1>5, <2>2, <3>2 DEF Fails
    <3> QED
      BY <1>1, <3>3, <3>4, MatchingKeys
  <2>3. CASE ~SaltFromStream(opt)
    <3>1. s = NULL
      BY <1>2, <1>3, <2>3
    <3>2. run.salt = NULL
      BY <1>3, <2>3 DEF EncInv, KeyOK
    <3>3. DataOf(opt, file) = Body(e, s, text, 0, m) /\ SaltIn(opt, file) = s
      BY <1>1, <2>1, <2>3, <3>1, <3>2, DataIs DEF DataOf, SaltIn
    <3>4. file = RawFile(<<>>) => file.units = <<>>
      BY DEF RawFile
    <3>5. ~Fails(opt, file)
      BY <1>5, <2>3, <3>4 DEF Fails
    <3> QED
      BY <1>1, <3>3, <3>5, MatchingKeys
  <2> QED
    BY <2>2, <2>3
<1>6. CASE file = RawFile(<<>>) /\ run.before.code # 0 /\ ~SaltFromStream(opt)
  <2>1. PICK m \in Nat : Source(e, s, m, text, run.before.code, file.units)
    <3>1. file # Unreadable
      <4>1. RawFile(<<>>).units = <<>> /\ Unreadable.units = <<Noise>> /\ <<>> # <<Noise>>
        BY DEF RawFile, Unreadable
      <4> QED
        BY <1>6, <4>1
    <3> QED
      BY <1>1, <1>2, <1>3, <1>6, <3>1, SourceWithoutHeader
  <2> QED
    BY <1>5, <1>6, <2>1
<1>7. ASSUME NEW m \in Nat, Reached(e, text, m), run.before.code = 0 => Whole(e, text, m), file = FileOf(e, s, text, m)
      PROVE  /\ Source(e, s, m, text, run.before.code, file.units) /\ file.base64 /\ file # RawFile(<<>>)
  <2>1. PICK f, h : f = FileOf(e, s, text, m) /\ h = Holding(e, s, text, m)
    OBVIOUS
  <2>2. f.units = h /\ f.base64
    BY <1>1, <2>1 DEF FileOf
  <2>3. ~RawFile(<<>>).base64
    BY DEF RawFile
  <2>4. Source(e, s, m, text, run.before.code, file.units)
    BY <1>2, <1>7, <2>1, <2>2 DEF Source
  <2>5. file.base64 /\ file # RawFile(<<>>)
    BY <1>7, <2>1, <2>2, <2>3
  <2> QED
    BY <2>4, <2>5
<1>8. CASE \E m \in Nat : /\ Reached(e, text, m) /\ (run.before.code = 0 => Whole(e, text, m))
                          /\ file = FileOf(e, s, text, m)
  BY <1>5, <1>7, <1>8
<1>9. CASE run.before.code # 0 /\ file = Unreadable
  <2>1. PICK units : units = <<Noise>>
    OBVIOUS
  <2>2. file = RawFile(units)
    BY <1>9, <2>1 DEF Unreadable
  <2>3. ~file.base64 /\ file.units = units
    BY <2>2 DEF RawFile
  <2>4. units # <<>>
    BY <2>1
  <2> QED
    BY <1>1, <1>9, <2>3, <2>4 DEF Fails
<1> QED
  BY <1>2, <1>4, <1>6, <1>8, <1>9 DEF Encrypted

\* How EncBuffered ends, by what it has read and processed.
BufferedEnds(opt, whole, file, up) ==
  IF Fails(opt, file) \/ opt.printonly
  THEN /\ run' = [run EXCEPT !.pc = "exit", !.code = IF Fails(opt, file) THEN 1 ELSE 0, !.fault = ~TRUE \/ ~whole]
       /\ UNCHANGED fs
  ELSE \E last \in Finish(up.ctx) :
         IF last = NULL
         THEN /\ run' = [run EXCEPT !.pc = "exit", !.code = 1, !.fault = ~TRUE \/ ~whole]
              /\ UNCHANGED fs
         ELSE \E w \in IF opt.decrypt THEN Wrote(up.out \o last, FALSE)
                       ELSE Wrote(Header(run.salt) \o up.out \o last, TRUE) :
                /\ fs' = [fs EXCEPT ![opt.out] = w.file]
                /\ run' = [run EXCEPT !.pc = "closing", !.code = 0, !.fault = ~w.ok \/ ~whole]

FileRead(whole) == IF whole THEN fs[EOpt.in] ELSE RawFile(<<>>)
UpOf(file) == Update(NewContext(KeyOf(EOpt, SaltIn(EOpt, file)), EOpt.decrypt, ~EOpt.nopad), DataOf(EOpt, file))

LEMMA BufferedIs ==
  ASSUME EncBuffered
  PROVE  \E whole \in {TRUE} \union {FALSE : f \in EncFaults \intersect {"fread"}} :
           BufferedEnds(EOpt, whole, FileRead(whole), UpOf(FileRead(whole)))
BY DEF EncBuffered, BufferedEnds, FileRead, UpOf, Fails, DataOf, SaltIn

LEMMA BufferedStep ==
  ASSUME EncAssumption, EncInv, EncBuffered
  PROVE  EncInv'
<1>1. /\ run.pc = "buffered" /\ DOMAIN run = Fields /\ run.opened /\ ~run.fault /\ salts' = salts /\ salts \in Nat
  BY DEF EncBuffered, EncAt, EncInv, RunOK
<1>2. PICK opt : opt = run.opt
  OBVIOUS
<1>3. /\ opt.base64
      /\ ~Salted(opt) => run.salt = NULL
      /\ Salted(opt) /\ ~opt.decrypt => run.salt # NULL /\ run.salt = SaltUsed(opt)
  BY <1>1, <1>2 DEF EncInv, KeyOK
<1>4. ~opt.printonly => opt.out \in DOMAIN fs
  BY <1>1, <1>2 DEF EncInv, RunOK
<1>5. SaltUsed(opt)' = SaltUsed(opt)
  BY <1>1 DEF SaltUsed
<1>6. PICK whole : BufferedEnds(opt, whole, FileRead(whole), UpOf(FileRead(whole)))
  BY <1>2, BufferedIs DEF EOpt
<1>7. PICK file, up : /\ BufferedEnds(opt, whole, file, up)
                      /\ file = IF whole THEN fs[opt.in] ELSE RawFile(<<>>)
                      /\ up = Update(NewContext(KeyOf(opt, SaltIn(opt, file)), opt.decrypt, ~opt.nopad), DataOf(opt, file))
  <2>1. FileRead(whole) = IF whole THEN fs[opt.in] ELSE RawFile(<<>>)
    BY <1>2 DEF FileRead, EOpt
  <2>2. PICK file : file = FileRead(whole)
    OBVIOUS
  <2>3. UpOf(file) = Update(NewContext(KeyOf(opt, SaltIn(opt, file)), opt.decrypt, ~opt.nopad), DataOf(opt, file))
    BY <1>2 DEF UpOf, EOpt
  <2> QED
    BY <1>6, <2>1, <2>2, <2>3
\* A command that only encrypts or decrypts cannot fail before the end, but for
\* a decryption of what has failed.
<1>8. Encrypting => /\ ~Fails(opt, file) /\ ~opt.printonly /\ ~opt.decrypt
                    /\ SaltIn(opt, file) = run.salt /\ DataOf(opt, file) = file.units
                    /\ run.salt = SaltUsed(opt)
  <2>1. RawFile(<<>>).base64 = FALSE
    BY DEF RawFile
  <2>2. Encrypting => ~file.base64
    BY <1>2, <1>7, <2>1 DEF Encrypting, Plain
  <2>3. Encrypting => Bytes(file) = file.units
    BY <2>2, BytesIs
  <2> QED
    BY <1>2, <1>3, <2>3 DEF Encrypting, Fails, SaltIn, DataOf, SaltFromStream, SaltUsed
<1>9. Undoes => ~opt.printonly /\ opt.decrypt
  BY <1>2 DEF Undoes, Matches
<1>10. ASSUME Undoes, whole
       PROVE  LET e == run.before.opt
                  text == fs[e.in].units
              IN \/ run.before.code # 0 /\ Fails(opt, file)
                 \/ /\ ~Fails(opt, file)
                    /\ \E s : \E m \in Nat : /\ Source(e, s, m, text, run.before.code, file.units)
                                             /\ DataOf(opt, file) = Body(e, s, text, 0, m)
                                             /\ KeyOf(opt, SaltIn(opt, file)) = KeyOf(e, s)
  <2>1. PICK e, text : e = run.before.opt /\ text = fs[e.in].units
    OBVIOUS
  <2>2. file = fs[opt.in]
    BY <1>7, <1>10
  <2> QED
    BY <1>1, <1>2, <1>10, <2>1, <2>2, BufferedSource
<1>11. ASSUME Undoes, whole, ~Fails(opt, file), NEW last \in Finish(up.ctx)
       PROVE  LET e == run.before.opt
                  text == fs[e.in].units
              IN \/ last = NULL /\ run.before.code # 0
                 \/ /\ last # NULL /\ <<>> \o (up.out \o last) = up.out \o last
                    /\ \E k \in Nat : /\ k <= Len(text) /\ up.out \o last = SubSeq(text, 1, k)
                                      /\ run.before.code = 0 => k = Len(text)
  <2>1. PICK e, text, dec, data : /\ e = run.before.opt /\ text = fs[e.in].units /\ dec = opt.decrypt
                                  /\ data = DataOf(opt, file)
    OBVIOUS
  <2>2. text \in Seq(TextUnits) /\ Decrypts(dec) /\ opt.nopad = e.nopad
    BY <1>2, <1>11, <2>1 DEF Undoes, Plain, Matches, Decrypts
  <2>3. PICK s, m : /\ m \in Nat
                    /\ Source(e, s, m, text, run.before.code, file.units)
                    /\ data = Body(e, s, text, 0, m)
                    /\ KeyOf(opt, SaltIn(opt, file)) = KeyOf(e, s)
    BY <1>10, <1>11, <2>1
  <2>4. Reached(e, text, m) /\ (run.before.code = 0 => Whole(e, text, m))
    BY <2>3 DEF Source
  <2>5. PICK ctx : ctx = NewContext(KeyOf(e, s), dec, ~e.nopad)
    OBVIOUS
  <2>6. up = Update(ctx, data)
    BY <1>7, <2>1, <2>2, <2>3, <2>5
  <2>7. Ends(e, text, m, up.out, last)
    BY <1>11, <2>2, <2>3, <2>4, <2>5, <2>6, DecryptWhole
  <2>8. last # NULL => <<>> \o (up.out \o last) = up.out \o last
    BY <2>2, <2>7, EndsIs
  <2> QED
    BY <2>1, <2>4, <2>7, <2>8 DEF Ends
<1>12. CASE /\ Fails(opt, file) \/ opt.printonly
            /\ run' = [run EXCEPT !.pc = "exit", !.code = IF Fails(opt, file) THEN 1 ELSE 0, !.fault = ~TRUE \/ ~whole]
            /\ fs' = fs
  <2>1. /\ run'.pc = "exit" /\ DOMAIN run' = Fields /\ run'.opened /\ run'.opt = opt
        /\ run'.before = run.before /\ (~run'.fault => whole)
    BY <1>1, <1>2, <1>12 DEF Fields
  <2>2. StepKeeps
    BY <1>1, <1>2, <1>12, <2>1 DEF StepKeeps
  <2>3. RunOK' /\ KeyOK'
    BY <1>1, <2>1 DEF RunOK, KeyOK
  <2>4. EncryptOK'
    <3>1. ASSUME Encrypting'
          PROVE  FALSE
      BY <1>1, <1>8, <1>12, <2>2, <3>1, StillEncrypting
    <3> QED
      BY <3>1 DEF EncryptOK
  <2>5. DecryptOK'
    <3>1. SUFFICES ASSUME Undoes'
                   PROVE  DecryptOK'
      BY DEF DecryptOK
    <3>2. Undoes /\ whole
      BY <1>1, <2>1, <2>2, <3>1, StillUndoes DEF EncInv, Undoes
    <3>3. run.before.code # 0
      BY <1>9, <1>10, <1>12, <3>2
    <3> QED
      BY <1>1, <1>12, <2>1, <2>2, <3>3, DecryptStops DEF EncInv
  <2> QED
    BY <2>2, <2>3, <2>4, <2>5, BeforeKept DEF EncInv
<1>13. ASSUME ~Fails(opt, file), ~opt.printonly, NEW last \in Finish(up.ctx), last = NULL, fs' = fs,
              run' = [run EXCEPT !.pc = "exit", !.code = 1, !.fault = ~TRUE \/ ~whole]
       PROVE  EncInv'
  <2>1. /\ run'.pc = "exit" /\ run'.code = 1 /\ DOMAIN run' = Fields /\ run'.opened /\ run'.opt = opt
        /\ run'.before = run.before /\ (~run'.fault => whole)
    BY <1>1, <1>2, <1>13 DEF Fields
  <2>2. StepKeeps
    BY <1>1, <1>2, <1>13, <2>1 DEF StepKeeps
  <2>3. RunOK' /\ KeyOK'
    BY <1>1, <2>1 DEF RunOK, KeyOK
  <2>4. EncryptOK'
    BY <1>1, <1>13, <2>1, <2>2, EncryptStops DEF EncInv
  <2>5. DecryptOK'
    <3>1. SUFFICES ASSUME Undoes'
                   PROVE  DecryptOK'
      BY DEF DecryptOK
    <3>2. Undoes /\ whole
      BY <1>1, <2>1, <2>2, <3>1, StillUndoes DEF EncInv, Undoes
    <3>3. run.before.code # 0
      BY <1>11, <1>13, <3>2
    <3> QED
      BY <1>1, <1>13, <2>1, <2>2, <3>3, DecryptStops DEF EncInv
  <2> QED
    BY <2>2, <2>3, <2>4, <2>5, BeforeKept DEF EncInv
<1>14. ASSUME ~Fails(opt, file), ~opt.printonly, NEW last \in Finish(up.ctx), last # NULL,
              NEW w \in IF opt.decrypt THEN Wrote(up.out \o last, FALSE)
                        ELSE Wrote(Header(run.salt) \o up.out \o last, TRUE),
              fs' = [fs EXCEPT ![opt.out] = w.file],
              run' = [run EXCEPT !.pc = "closing", !.code = 0, !.fault = ~w.ok \/ ~whole]
       PROVE  EncInv'
  <2>1. /\ run'.pc = "closing" /\ run'.code = 0 /\ DOMAIN run' = Fields /\ run'.opened /\ run'.opt = opt
        /\ run'.before = run.before /\ (~run'.fault => whole /\ w.ok)
    BY <1>1, <1>2, <1>14 DEF Fields
  <2>2. OnlyOutput /\ fs'[opt.out] = w.file /\ opt.out \in DOMAIN fs'
    BY <1>2, <1>4, <1>14, <2>1, OutputWritten
  <2>3. StepKeeps
    BY <1>1, <1>2, <2>1, <2>2 DEF StepKeeps
  <2>4. RunOK' /\ KeyOK'
    BY <1>1, <1>2, <1>14, <2>1, <2>2 DEF RunOK, KeyOK
  <2>5. EncryptOK'
    <3>1. SUFFICES ASSUME Encrypting'
                   PROVE  EncryptOK'
      BY DEF EncryptOK
    <3>2. Encrypting /\ fs'[opt.in] = fs[opt.in] /\ w.ok /\ whole
      BY <1>1, <1>2, <2>1, <2>3, <3>1, StillEncrypting DEF Encrypting
    <3>3. PICK text, salt, units : /\ text = fs[opt.in].units /\ salt = SaltUsed(opt)
                                   /\ units = Written(salt, up.out, last)
      OBVIOUS
    <3>4. text \in Seq(TextUnits) /\ ~opt.decrypt
      BY <1>2, <3>2, <3>3 DEF Encrypting, Plain
    <3>5. run.salt = salt /\ (Salted(opt) => salt # NULL)
      BY <1>3, <1>8, <3>2, <3>3, <3>4
    <3>6. fs[opt.out].units = <<>>
      <4>1. fs[opt.out] = RawFile(<<>>)
        BY <1>1, <1>2, <3>2 DEF EncInv, EncryptOK
      <4> QED
        BY <4>1 DEF RawFile
    <3>7. PICK ctx : ctx = NewContext(KeyOf(opt, salt), opt.decrypt, ~opt.nopad)
      OBVIOUS
    <3>8. up = Update(ctx, text)
      BY <1>7, <1>8, <3>2, <3>3, <3>5, <3>7
    <3>9. PICK new : new = [base64 |-> opt.base64 = TRUE, units |-> units]
      OBVIOUS
    <3>10. Encrypted(opt, salt, text, 0, new)
      BY <1>14, <3>3, <3>4, <3>7, <3>8, <3>9, EncryptWhole
    <3>11. w.file = new
      <4>1. w \in Wrote(units, TRUE)
        BY <1>14, <3>3, <3>4, <3>5 DEF Written
      <4>2. w.file = [base64 |-> TRUE, units |-> fs[opt.out].units \o units]
        BY <1>2, <3>2, <4>1, WroteIs
      <4>3. (opt.base64 = TRUE) = TRUE
        BY <1>3
      <4>4. <<>> \o units = units
        <5>1. new.units = units
          BY <3>9
        <5> QED
          BY <3>10, <5>1, EncryptedIs
      <4> QED
        BY <3>6, <3>9, <4>2, <4>3, <4>4
    <3> QED
      BY <1>5, <2>1, <2>2, <3>2, <3>3, <3>5, <3>10, <3>11 DEF EncryptOK
  <2>6. DecryptOK'
    <3>1. SUFFICES ASSUME Undoes'
                   PROVE  DecryptOK'
      BY DEF DecryptOK
    <3>2. PICK e, text, units : e = run.before.opt /\ text = fs[e.in].units /\ units = up.out \o last
      OBVIOUS
    <3>3. Undoes /\ w.ok /\ whole /\ fs'[e.in] = fs[e.in]
      BY <1>1, <2>1, <2>3, <3>1, <3>2, StillUndoes DEF EncInv, Undoes
    <3>4. /\ <<>> \o units = units
          /\ \E k \in Nat : /\ k <= Len(text) /\ units = SubSeq(text, 1, k)
                            /\ run.before.code = 0 => k = Len(text)
      BY <1>11, <1>14, <3>2, <3>3
    <3>5. PICK k \in Nat : /\ k <= Len(text) /\ units = SubSeq(text, 1, k)
                           /\ run.before.code = 0 => k = Len(text)
      BY <3>4
    <3>6. fs[opt.out].units = <<>>
      <4>1. fs[opt.out] = RawFile(<<>>)
        BY <1>1, <1>2, <3>3 DEF EncInv, DecryptOK
      <4> QED
        BY <4>1 DEF RawFile
    <3>7. w.file = RawFile(units)
      <4>1. w \in Wrote(units, FALSE)
        BY <1>9, <1>14, <3>2, <3>3
      <4>2. w.file = [base64 |-> FALSE, units |-> fs[opt.out].units \o units]
        BY <1>2, <3>3, <4>1, WroteIs
      <4> QED
        BY <3>4, <3>6, <4>2 DEF RawFile
    <3>8. Decrypted(text, run.before.code, run'.code, fs'[opt.out])
      BY <2>1, <2>2, <3>5, <3>7 DEF Decrypted
    <3> QED
      BY <2>1, <3>2, <3>3, <3>8 DEF DecryptOK
  <2> QED
    BY <2>3, <2>4, <2>5, <2>6, BeforeKept DEF EncInv
<1>15. CASE Fails(opt, file) \/ opt.printonly
  BY <1>7, <1>12, <1>15 DEF BufferedEnds
<1>16. CASE ~Fails(opt, file) /\ ~opt.printonly
  <2>1. PICK last \in Finish(up.ctx) :
          IF last = NULL
          THEN /\ run' = [run EXCEPT !.pc = "exit", !.code = 1, !.fault = ~TRUE \/ ~whole]
               /\ fs' = fs
          ELSE \E w \in IF opt.decrypt THEN Wrote(up.out \o last, FALSE)
                        ELSE Wrote(Header(run.salt) \o up.out \o last, TRUE) :
                 /\ fs' = [fs EXCEPT ![opt.out] = w.file]
                 /\ run' = [run EXCEPT !.pc = "closing", !.code = 0, !.fault = ~w.ok \/ ~whole]
    BY <1>7, <1>16 DEF BufferedEnds
  <2>2. CASE last = NULL
    BY <1>13, <1>16, <2>1, <2>2
  <2>3. CASE last # NULL
    <3>1. PICK w \in IF opt.decrypt THEN Wrote(up.out \o last, FALSE)
                     ELSE Wrote(Header(run.salt) \o up.out \o last, TRUE) :
                 /\ fs' = [fs EXCEPT ![opt.out] = w.file]
                 /\ run' = [run EXCEPT !.pc = "closing", !.code = 0, !.fault = ~w.ok \/ ~whole]
      BY <2>1, <2>3
    <3> QED
      BY <1>14, <1>16, <2>3, <3>1
  <2> QED
    BY <2>2, <2>3
<1> QED
  BY <1>15, <1>16

LEMMA ClosesStep ==
  ASSUME EncAssumption, EncInv, EncCloses
  PROVE  EncInv'
<1>1. run.pc = "closing" /\ DOMAIN run = Fields /\ run.opened /\ fs' = fs /\ salts' = salts
  BY DEF EncCloses, EncAt, EncInv, RunOK
<1>2. /\ run'.pc = "exit" /\ DOMAIN run' = Fields /\ run'.opened /\ run'.opt = run.opt /\ run'.code = run.code
      /\ run'.before = run.before /\ run'.fault = run.fault
  BY <1>1 DEF EncCloses, Fields
<1>3. StepKeeps
  BY <1>1, <1>2 DEF StepKeeps
<1>4. RunOK' /\ KeyOK'
  BY <1>1, <1>2 DEF EncInv, RunOK, KeyOK
<1>5. \A p : Plain(p)' <=> Plain(p)
  BY <1>1 DEF Plain
<1>6. EncryptOK'
  BY <1>1, <1>2, <1>5 DEF EncInv, EncryptOK, Encrypting, SaltUsed
<1>7. DecryptOK'
  BY <1>1, <1>2, <1>5 DEF EncInv, DecryptOK, Undoes
<1> QED
  BY <1>3, <1>4, <1>6, <1>7, BeforeKept DEF EncInv

----------------------------------------------------------------------------
(* The invariant *)

LEMMA Stutters ==
  ASSUME EncInv, UNCHANGED evars
  PROVE  EncInv'
<1>1. fs' = fs /\ run' = run /\ salts' = salts
  BY DEF evars
<1>2. RunOK' /\ KeyOK'
  BY <1>1 DEF EncInv, RunOK, KeyOK, SaltUsed
<1>3. \A p : Plain(p)' <=> Plain(p)
  BY <1>1 DEF Plain
<1>4. EncryptOK'
  BY <1>1, <1>3 DEF EncInv, EncryptOK, Encrypting, SaltUsed
<1>5. BeforeOK'
  BY <1>1, <1>3 DEF EncInv, BeforeOK
<1>6. DecryptOK'
  BY <1>1, <1>3 DEF EncInv, DecryptOK, Undoes
<1> QED
  BY <1>2, <1>4, <1>5, <1>6 DEF EncInv

LEMMA InitHolds ==
  ASSUME EncInit
  PROVE  EncInv
<1>1. run.pc = "exit" /\ ~run.opened /\ ~run.fault /\ run.opt.mode = NULL /\ salts \in Nat
  BY DEF EncInit, EncIdle, EncDefaults
<1>2. RunOK /\ KeyOK
  BY <1>1 DEF RunOK, KeyOK
<1>3. EncryptOK /\ BeforeOK /\ DecryptOK
  BY <1>1 DEF EncryptOK, BeforeOK, DecryptOK, Encrypting, Undoes
<1> QED
  BY <1>2, <1>3 DEF EncInv

LEMMA StepHolds ==
  ASSUME EncAssumption, EncInv, [EncSteps]_evars
  PROVE  EncInv'
<1>1. CASE EncNext
  BY <1>1, StartsStep, OpensStep, ReadsHeaderStep, SetsUpStep, StreamsStep, FinishesStep, BufferedStep, ClosesStep
     DEF EncNext
<1>2. CASE EncKilled
  BY <1>2, KilledStep
<1>3. CASE \E args : EncRun(args)
  BY <1>3, RunStep
<1>4. CASE UNCHANGED evars
  BY <1>4, Stutters
<1> QED
  BY <1>1, <1>2, <1>3, <1>4 DEF EncSteps

LEMMA EncInvAlways ==
  ASSUME EncAssumption
  PROVE  EncSpec => []EncInv
<1>1. EncInit => EncInv
  BY InitHolds
<1>2. EncInv /\ [EncSteps]_evars => EncInv'
  BY StepHolds
<1> QED
  BY <1>1, <1>2, PTL DEF EncSpec

----------------------------------------------------------------------------
(* What the invariant promises *)

LEMMA BeginningIsPrefix ==
  ASSUME NEW S, NEW text \in Seq(S), NEW k \in Nat, k <= Len(text)
  PROVE  IsPrefix(SubSeq(text, 1, k), text)
<1>1. PICK p : p = SubSeq(text, 1, k)
  OBVIOUS
<1>2. p \in Seq(S) /\ Len(p) = k
  BY <1>1, SubSeqProperties
<1>3. SubSeq(p, 1, Len(p)) = p
  BY <1>2, SubSeqFull
<1> QED
  BY <1>1, <1>2, <1>3 DEF IsPrefix

LEMMA InvRoundTrip ==
  ASSUME EncInv
  PROVE  RoundTrip
<1>1. SUFFICES ASSUME Undoes, run.pc = "exit", run.code # 9, run.before.code = 0
               PROVE  run.code = 0 /\ fs[run.opt.out] = RawFile(fs[run.before.opt.in].units)
  BY DEF RoundTrip
<1>2. PICK text, file : text = fs[run.before.opt.in].units /\ file = fs[run.opt.out]
  OBVIOUS
<1>3. text \in Seq(TextUnits)
  BY <1>1, <1>2 DEF Undoes, Plain
<1>4. Decrypted(text, run.before.code, run.code, file)
  BY <1>1, <1>2 DEF EncInv, DecryptOK
<1>5. run.code = 0 /\ file = RawFile(SubSeq(text, 1, Len(text)))
  BY <1>1, <1>4 DEF Decrypted
<1>6. SubSeq(text, 1, Len(text)) = text
  BY <1>3, SubSeqFull
<1> QED
  BY <1>2, <1>5, <1>6

LEMMA InvPrefixOnly ==
  ASSUME EncInv
  PROVE  PrefixOnly
<1>1. SUFFICES ASSUME Undoes
               PROVE  IsPrefix(fs[run.opt.out].units, fs[run.before.opt.in].units)
  BY DEF PrefixOnly
<1>2. PICK text, units : text = fs[run.before.opt.in].units /\ units = fs[run.opt.out].units
  OBVIOUS
<1>3. text \in Seq(TextUnits)
  BY <1>1, <1>2 DEF Undoes, Plain
<1>4. SUFFICES \E k \in Nat : k <= Len(text) /\ units = SubSeq(text, 1, k)
  BY <1>2, <1>3, BeginningIsPrefix
<1>5. run.pc \in {"buffered", "header", "setup", "stream", "finish", "closing", "exit"}
  BY <1>1 DEF EncInv, RunOK, Undoes
<1>6. CASE run.pc \in {"buffered", "header", "setup"}
  <2>1. fs[run.opt.out] = RawFile(<<>>)
    BY <1>1, <1>6 DEF EncInv, DecryptOK
  <2>2. PICK k \in Nat : k <= Len(text) /\ RawFile(<<>>) = RawFile(SubSeq(text, 1, k))
    BY <1>3, EmptyBeginning
  <2> QED
    BY <1>2, <2>1, <2>2 DEF RawFile
<1>7. CASE run.pc \in {"stream", "finish"}
  <2>1. \E s : \E m \in Nat :
          DecryptedSoFar(run.before.opt, s, m, run.opt.decrypt, text, run.ctx, run.pos,
                         run.pc = "finish", units)
    BY <1>1, <1>2, <1>7 DEF EncInv, DecryptOK
  <2> QED
    BY <2>1 DEF DecryptedSoFar
<1>8. CASE run.pc \in {"closing", "exit"}
  <2>1. Decrypted(text, run.before.code, run.code, fs[run.opt.out])
    BY <1>1, <1>2, <1>8 DEF EncInv, DecryptOK
  <2> QED
    BY <1>2, <2>1 DEF Decrypted, RawFile
<1> QED
  BY <1>5, <1>6, <1>7, <1>8

LEMMA InvCipherFormat ==
  ASSUME EncAssumption, EncInv
  PROVE  CipherFormat
<1> DEFINE opt    == run.opt
           text   == fs[opt.in].units
           n      == Len(text)
           pad    == IF opt.mode = "cbc" /\ ~opt.nopad THEN Block - (n % Block) ELSE 0
           salted == ~Raw(opt) /\ ~opt.nosalt
           salt   == IF opt.S = NULL THEN salts ELSE opt.S
           used   == IF salted THEN salt ELSE NULL
           head   == IF salted THEN <<Magic, SaltOf(salt)>> ELSE <<>>
           body   == [i \in 1 .. n + pad |-> [kind |-> "cipher", key |-> KeyOf(opt, used), at |-> i,
                                              val |-> IF i <= n THEN text[i].val ELSE pad]]
           file   == fs[opt.out]
<1>1. SUFFICES ASSUME run.pc = "exit", run.code = 0, ~run.fault, Plain(run.opt.in),
                      ~run.opt.decrypt, ~run.opt.printonly, run.opt.mode # NULL, run.opt.in # run.opt.out
               PROVE  (file.base64 <=> opt.base64) /\ file.units = head \o body
  BY DEF CipherFormat
<1>2. run.opened
  BY <1>1 DEF EncInv, RunOK
<1>3. Encrypting
  BY <1>1, <1>2 DEF Encrypting
<1>4. used = SaltUsed(opt) /\ salted = Salted(opt) /\ pad = Pad(opt, n)
  BY DEF SaltUsed, Salted, Pad
<1> HIDE DEF used, pad, text, n, file
<1>5. Encrypted(opt, used, text, 0, file) /\ (Salted(opt) => used # NULL)
  BY <1>1, <1>3, <1>4 DEF EncInv, EncryptOK, text, file
<1>6. file = FileOf(opt, used, text, n + pad)
  BY <1>4, <1>5 DEF Encrypted, Whole, n
<1>7. file.base64 <=> opt.base64
  <2>1. file.base64 = (opt.base64 = TRUE)
    BY <1>6 DEF FileOf
  <2> QED
    BY <2>1
<1>8. Header(used) = head
  <2>1. CASE salted
    BY <1>4, <1>5, <2>1 DEF Header, used
  <2>2. CASE ~salted
    BY <2>2 DEF Header, used
  <2> QED
    BY <2>1, <2>2
<1>9. n \in Nat /\ pad \in Nat
  <2>1. n \in Nat
    BY <1>1 DEF Plain, text, n
  <2>2. n % Block \in 0 .. Block - 1
    BY <2>1, ModIs
  <2> QED
    BY <2>1, <2>2 DEF EncAssumption, pad
<1>10. Body(opt, used, text, 0, n + pad) = body
  <2>1. PICK key, m : key = KeyOf(opt, used) /\ m = n + pad
    OBVIOUS
  <2>2. m - 0 = m /\ \A i \in 1 .. m : 0 + i = i
    BY <1>9, <2>1
  <2>3. Ciphertext(key, text, pad, 0, m) = [i \in 1 .. m |-> Sealed(key, text, pad, i)]
    BY <2>2 DEF Ciphertext
  <2>4. Body(opt, used, text, 0, m) = Ciphertext(key, text, pad, 0, m)
    BY <1>4, <2>1 DEF Body, n
  <2> QED
    BY <2>1, <2>3, <2>4 DEF Sealed, n
<1>11. file.units = Header(used) \o Body(opt, used, text, 0, n + pad)
  BY <1>6 DEF FileOf, Holding
<1> QED
  BY <1>7, <1>8, <1>10, <1>11

----------------------------------------------------------------------------
(* The theorems *)

\* What main() of "enc" encrypts, the matching decryption gives back: for
\* every length, every size of block and chunk, whatever ran before.
THEOREM RoundTripAlways ==
  ASSUME EncAssumption
  PROVE  EncSpec => []RoundTrip
<1>1. EncInv => RoundTrip
  BY InvRoundTrip
<1> QED
  BY <1>1, EncInvAlways, PTL

\* A decryption that is killed, or of what is not all there, has written a
\* beginning of the text or nothing.
THEOREM PrefixOnlyAlways ==
  ASSUME EncAssumption
  PROVE  EncSpec => []PrefixOnly
<1>1. EncInv => PrefixOnly
  BY InvPrefixOnly
<1> QED
  BY <1>1, EncInvAlways, PTL

\* What an encryption writes, in one go or in pieces, is in the one format.
THEOREM CipherFormatAlways ==
  ASSUME EncAssumption
  PROVE  EncSpec => []CipherFormat
<1>1. EncInv => CipherFormat
  BY InvCipherFormat
<1> QED
  BY <1>1, EncInvAlways, PTL
=============================================================================
