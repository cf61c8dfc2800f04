------------------------------- MODULE MCEnc -------------------------------
(***************************************************************************)
(* Instances of "enc" for TLC: a file is encrypted with every combination  *)
(* of the options, then decrypted with options of which at most one        *)
(* differs from the matching ones.                                         *)
(***************************************************************************)
EXTENDS Enc

CONSTANTS
  Lengths,    \* of the file that is encrypted, in units
  Values      \* of its last units: those that look like padding and one more

VARIABLES turn    \* commands given so far

encvars == <<fs, run, salts, turn>>

PlainTexts == UNION {{[i \in 1 .. n |-> Text(IF i = n THEN v ELSE IF i = n - 1 THEN w ELSE 3)] :
                   v \in Values, w \in Values} : n \in Lengths}

\* A choice of options, and the arguments for it.
Styles == [mode : {"-aes-256-cbc", "-aes-256-ctr"}, a : BOOLEAN, nopad : BOOLEAN,
           key : {"header", "salt", "nosalt", "raw", "iter"}]

Flag(yes, name) == IF yes THEN <<<<name, NULL>>>> ELSE <<>>

KeyArgs(key) ==
  CASE key = "header" -> << <<"-k", 1>> >>
    [] key = "salt"   -> << <<"-k", 1>>, <<"-S", 100>> >>
    [] key = "nosalt" -> << <<"-k", 1>>, <<"-salt", NULL>>, <<"-nosalt", NULL>> >>
    [] key = "raw"    -> << <<"-K", 5>>, <<"-iv", 7>> >>
    [] key = "iter"   -> << <<"-kfile", 1>>, <<"-iter", 1>> >>

ArgsOf(s) == Flag(s.a, "-a") \o Flag(s.nopad, "-nopad") \o <<<<s.mode, NULL>>>> \o KeyArgs(s.key)

EncryptArgs(s) == << <<"-in", "plain">>, <<"-out", "cipher">> >> \o ArgsOf(s)
DecryptArgs(s) == << <<"-d", NULL>>, <<"-in", "cipher">>, <<"-out", "back">> >> \o ArgsOf(s)

\* How the decryption of a whole file may differ: one more argument, or another style.
Extra == { <<"-e", NULL>>, <<"-P", NULL>>, <<"-p", NULL>>, <<"-A", NULL>>, <<"-a", NULL>>,
           <<"-nosalt", NULL>>, <<"-nopad", NULL>>, <<"-pbkdf2", NULL>>, <<"-k", 2>>, <<"-base64", NULL>>,
           <<"-iter", 1>>, <<"-iter", 2>>, <<"-iter", 0>>, <<"-md", 256>>, <<"-md", 1>>, <<"-md", Malformed>>,
           <<"-kfile", NULL>>, <<"-kfile", Malformed>>, <<"-pass", 1>>, <<"-pass", Malformed>>,
           <<"-S", 100>>, <<"-S", Malformed>>, <<"-K", Malformed>>, <<"-iv", 8>>,
           <<"-in", "missing">>, <<"-help", NULL>>, <<"-x", NULL>>, <<"-aes-256-ctr", NULL>> }

InHeader(s) == [s EXCEPT !.key = IF s.key = "salt" THEN "header" ELSE s.key]

NoEnc == fs = <<>> /\ EncInit /\ turn = 0

EncStart ==
  /\ \E t \in PlainTexts : fs = [p \in {"plain"} |-> RawFile(t)]
  /\ EncInit /\ turn = 0

Encrypts == /\ turn = 0 /\ turn' = 1
            /\ \/ \E s \in Styles : EncRun(EncryptArgs(s))
               \/ \E s \in [mode : {"-aes-256-cbc"}, a : BOOLEAN, nopad : {FALSE}, key : {"header", "raw", "iter"}], x \in Extra :
                    EncRun(Append(EncryptArgs(s), x))

Style == CHOOSE s \in Styles : EncryptArgs(s) = run.args

DecryptsAgain ==
  /\ turn = 1 /\ turn' = 2
  /\ run.pc = "exit" /\ ~run.fault /\ \E s \in Styles : EncryptArgs(s) = run.args
  /\ \/ EncRun(DecryptArgs(InHeader(Style)))
     \/ run.code = 0 /\ \E x \in Extra : EncRun(Append(DecryptArgs(InHeader(Style)), x))

EncProceeds == (EncNext \/ EncKilled) /\ UNCHANGED turn
=============================================================================
