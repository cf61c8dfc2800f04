------------------------------- MODULE Cipher -------------------------------
(***************************************************************************)
(* The ciphers of Mbed TLS as "enc" uses them, idealised, on files whose   *)
(* unit is 8 bytes: a block has two units, the magic and the salt have one *)
(* each.                                                                   *)
(*                                                                         *)
(* An encrypted unit remembers the key and the place it was encrypted at:  *)
(* decrypted with the same key at the same place it is the text again, and *)
(* anything else decrypts to what cannot be foreseen.                      *)
(***************************************************************************)
EXTENDS Pointers, Naturals, Sequences

CONSTANTS
  Block     \* units in a cipher block

Text(v)    == [kind |-> "text", val |-> v, key |-> NULL, at |-> 0]
TextUnits  == [kind : {"text"}, val : Nat, key : {NULL}, at : {0}]
Magic      == [kind |-> "magic", val |-> 0, key |-> NULL, at |-> 0]
SaltOf(s)  == [kind |-> "salt", val |-> 0, key |-> s, at |-> 0]
Noise      == [kind |-> "noise", val |-> 0, key |-> NULL, at |-> 0]

\* A context after mbedtls_cipher_setkey(), _set_padding_mode() and _reset():
\* "rest" is the data that is held back, "at" the number of units processed.
NewContext(key, decrypt, padded) ==
  [key |-> key, decrypt |-> decrypt, padded |-> padded, rest |-> <<>>, at |-> 0]

CBC(ctx) == ctx.key.mode = "cbc"

Processed(ctx, units) ==
  [i \in DOMAIN units |->
     LET u == units[i]
         at == ctx.at + i
     IN IF ~ctx.decrypt THEN [kind |-> "cipher", val |-> u.val, key |-> ctx.key, at |-> at]
        ELSE IF u.kind = "cipher" /\ u.key = ctx.key /\ u.at = at THEN Text(u.val) ELSE Noise]

\* mbedtls_cipher_update(): CBC holds back an incomplete block, and a complete
\* one that may hold the padding.
Update(ctx, units) ==
  LET all  == ctx.rest \o units
      over == Len(all) % Block
      kept == IF ~CBC(ctx) THEN 0
              ELSE IF over = 0 /\ all # <<>> /\ ctx.decrypt /\ ctx.padded THEN Block ELSE over
      now  == SubSeq(all, 1, Len(all) - kept)
  IN [ctx |-> [ctx EXCEPT !.rest = SubSeq(all, Len(all) - kept + 1, Len(all)),
                          !.at = ctx.at + Len(now)],
      out |-> Processed(ctx, now)]

\* The ways to take PKCS #7 padding off a block; NULL where it is bad.
Unpadded(block) ==
  LET last == block[Block].val
  IN IF \E i \in 1 .. Block : block[i].kind = "noise"
     THEN {NULL} \union {SubSeq(block, 1, n) : n \in 0 .. Block - 1}
     ELSE IF last \in 1 .. Block /\ \A i \in Block - last + 1 .. Block : block[i].val = last
     THEN {SubSeq(block, 1, Block - last)} ELSE {NULL}

\* mbedtls_cipher_finish(): the outputs it can have, NULL for an error.
Finish(ctx) ==
  LET n == Len(ctx.rest)
      padding == [i \in 1 .. Block - n |-> Text(Block - n)]
  IN IF ~CBC(ctx) THEN {<<>>}
     ELSE IF ~ctx.padded THEN IF n = 0 THEN {<<>>} ELSE {NULL}
     ELSE IF ~ctx.decrypt THEN {Processed(ctx, ctx.rest \o padding)}
     ELSE IF n # Block THEN {NULL}
     ELSE Unpadded(Processed(ctx, ctx.rest))
=============================================================================
