-------------------------------- MODULE Enc --------------------------------
(***************************************************************************)
(* "enc": a file encrypted or decrypted with a key or a passphrase.        *)
(*                                                                         *)
(* A file is its units and whether they are written in base64.  A command  *)
(* is a record: its options, then what it has found out, and "pc".  Keys,  *)
(* passphrases, salts and IVs are numbers.                                 *)
(***************************************************************************)
EXTENDS Cipher, SequencesExt

CONSTANTS
  Chunk,     \* units read at a time
  EncFaults  \* what may go wrong: "entropy", "fopen", "fread", "fwrite"

ASSUME EncAssumption ==
  /\ Block \in Nat \ {0} /\ Chunk \in Nat \ {0}
  /\ NULL \notin Nat /\ NULL \notin Seq(TextUnits)

VARIABLES
  fs,        \* path -> file
  run,       \* the command that runs, or ran last
  salts      \* number of salts drawn so far

evars == <<fs, run, salts>>

\* A key, salt or IV that is not hexadecimal or not of the right length, an
\* unknown digest, and the passphrase of a file that cannot be opened.
Malformed == 0

RawFile(units) == [base64 |-> FALSE, units |-> units]

HeaderLen == 2

----------------------------------------------------------------------------
(* Options. *)

EncDefaults ==
  [bad |-> NULL, decrypt |-> FALSE, printonly |-> FALSE, base64 |-> FALSE,
   nosalt |-> FALSE, nopad |-> FALSE, pass |-> NULL, K |-> NULL, S |-> NULL, iv |-> NULL,
   pbkdf2 |-> FALSE, iter |-> 10000, md |-> 256, mode |-> NULL, in |-> "stdin", out |-> "stdout"]

\* One argument of enc_main(); "bad" keeps the first reason to stop.  (-A only
\* matters for how base64 is broken into lines, -p for what is printed.)  The
\* value of -kfile or -pass is the passphrase it leads to, NULL for a file
\* without a line, Malformed for a file that cannot be opened or a -pass that
\* is neither pass: nor file:.
EncArgument(opt, arg) ==
  LET flag  == arg[1]
      value == arg[2]
  IN IF opt.bad # NULL THEN opt ELSE
     CASE flag = "-help"   -> [opt EXCEPT !.bad = "help"]
       [] flag = "-e"      -> [opt EXCEPT !.decrypt = FALSE]
       [] flag = "-d"      -> [opt EXCEPT !.decrypt = TRUE]
       [] flag \in {"-p", "-A"} -> opt
       [] flag = "-P"      -> [opt EXCEPT !.printonly = TRUE]
       [] flag \in {"-a", "-base64"} -> [opt EXCEPT !.base64 = TRUE]
       [] flag = "-salt"   -> [opt EXCEPT !.nosalt = FALSE]
       [] flag = "-nosalt" -> [opt EXCEPT !.nosalt = TRUE]
       [] flag = "-nopad"  -> [opt EXCEPT !.nopad = TRUE]
       [] flag = "-pbkdf2" -> [opt EXCEPT !.pbkdf2 = TRUE]
       [] flag = "-iter" /\ value > 0 -> [opt EXCEPT !.pbkdf2 = TRUE, !.iter = value]
       [] flag = "-md"     -> [opt EXCEPT !.md = value]
       [] flag = "-k"      -> [opt EXCEPT !.pass = value]
       [] flag \in {"-kfile", "-pass"} /\ value # Malformed ->
            [opt EXCEPT !.pass = IF value = NULL THEN @ ELSE value]
       [] flag = "-K"      -> [opt EXCEPT !.K = value]
       [] flag = "-S"      -> [opt EXCEPT !.S = value]
       [] flag = "-iv"     -> [opt EXCEPT !.iv = value]
       [] flag = "-in"     -> [opt EXCEPT !.in = value]
       [] flag = "-out"    -> [opt EXCEPT !.out = value]
       [] flag \in {"-aes-256-cbc", "-aes-256-ctr"} ->
            [opt EXCEPT !.mode = IF flag = "-aes-256-cbc" THEN "cbc" ELSE "ctr"]
       [] OTHER -> [opt EXCEPT !.bad = "usage"]

EncOptions(args) == FoldLeft(EncArgument, EncDefaults, args)

\* A cipher is needed, and a key or a passphrase.
Incomplete(opt) == opt.mode = NULL \/ (opt.K = NULL /\ opt.pass = NULL)

Raw(opt) == opt.K # NULL

\* Mutant: a raw key does not matter.
SaltFromStreamAlways(opt) == opt.decrypt /\ ~opt.nosalt /\ opt.S = NULL

\* The salt is only known once the header has been read.
SaltFromStream(opt) == ~Raw(opt) /\ opt.decrypt /\ ~opt.nosalt /\ opt.S = NULL

\* What makes a key of the passphrase: only PBKDF2 counts iterations.
Kdf(opt) == IF opt.pbkdf2 THEN <<"pbkdf2", opt.md, opt.iter>> ELSE <<"evp", opt.md>>

KeyOf(opt, salt) ==
  IF Raw(opt) THEN [mode |-> opt.mode, secret |-> opt.K, salt |-> opt.iv, kdf |-> <<"raw">>]
  ELSE [mode |-> opt.mode, secret |-> opt.pass, salt |-> salt, kdf |-> Kdf(opt)]

----------------------------------------------------------------------------
(* The steps of enc_main(). *)

EncAt(pc) == run.pc = pc
EncExit(code) == run' = [run EXCEPT !.pc = "exit", !.code = code]
EncFault == run' = [run EXCEPT !.pc = "exit", !.code = 1, !.fault = TRUE]
EOpt == run.opt

\* Options, and the key unless its salt comes with the data.
EncStarts ==
  /\ EncAt("start")
  /\ LET opt == EncOptions(run.args)
         Ready(salt) == run' = [run EXCEPT !.pc = "open", !.opt = opt, !.salt = salt,
                                           !.key = IF SaltFromStream(opt) THEN NULL ELSE KeyOf(opt, salt)]
         draws == ~Raw(opt) /\ ~opt.nosalt /\ opt.S = NULL /\ ~opt.decrypt
     IN IF opt.bad = "help" THEN EncExit(0) /\ UNCHANGED salts
        ELSE IF opt.bad # NULL \/ Incomplete(opt) THEN EncExit(1) /\ UNCHANGED salts
        ELSE IF \/ opt.md = Malformed
                \/ Raw(opt) /\ (opt.K = Malformed \/ opt.iv \in {NULL, Malformed})
                \/ ~Raw(opt) /\ ~opt.nosalt /\ opt.S = Malformed
        THEN EncExit(1) /\ UNCHANGED salts
        ELSE IF ~draws THEN Ready(IF Raw(opt) \/ opt.nosalt THEN NULL ELSE opt.S) /\ UNCHANGED salts
        ELSE \/ "entropy" \in EncFaults /\ EncFault /\ UNCHANGED salts
             \/ Ready(salts + 1) /\ salts' = salts + 1
  /\ UNCHANGED fs

\* The output is emptied before anything is known of the input.
EncOpens ==
  /\ EncAt("open")
  /\ \/ EOpt.in \notin DOMAIN fs /\ EncExit(1) /\ UNCHANGED fs
     \/ "fopen" \in EncFaults /\ EncFault /\ UNCHANGED fs
     \/ /\ EOpt.in \in DOMAIN fs
        /\ fs' = IF EOpt.printonly THEN fs
                 ELSE [p \in DOMAIN fs \union {EOpt.out} |-> IF p = EOpt.out THEN RawFile(<<>>) ELSE fs[p]]
        /\ run' = [run EXCEPT !.opened = TRUE,
                              !.pc = IF EOpt.base64 THEN "buffered"
                                     ELSE IF SaltFromStream(EOpt) THEN "header" ELSE "setup"]
  /\ UNCHANGED salts

\* fwrite() to the output, whose result is not looked at.
Wrote(units, base64) ==
  {[ok |-> TRUE, file |-> [base64 |-> base64, units |-> fs[EOpt.out].units \o units]]}
  \union {[ok |-> FALSE, file |-> fs[EOpt.out]] : f \in EncFaults \intersect {"fwrite"}}

\* What the input is when read as bytes: base64 text is not what was encoded.
Bytes(file) == IF file.base64 THEN [i \in DOMAIN file.units |-> Noise] ELSE file.units

\* What is left of a file when its writer is killed: stdio hands it over in
\* whole buffers, none of which ends in the header, and base64 that ends
\* anywhere may not be base64 any more.
CutShort(file) ==
  {RawFile(<<>>), file}
  \union {[file EXCEPT !.units = SubSeq(@, 1, n)] : n \in HeaderLen .. Len(file.units)}
  \union (IF file.base64 THEN {RawFile(<<Noise>>)} ELSE {})

HasHeader(units) == Len(units) >= HeaderLen /\ units[1] = Magic

\* Mutant: the header is always written, with a salt of zeros if there is none.
HeaderAlways(salt) == <<Magic, SaltOf(salt)>>

\* The header in front of what is encrypted: only with a salt.
Header(salt) == IF salt = NULL THEN <<>> ELSE <<Magic, SaltOf(salt)>>

\* Mutant: after the header has been looked at, reading starts over.
Rewound(pos) == 0

\* Where reading goes on after the header.
AfterHeader(pos) == pos + HeaderLen

\* Without base64, the header alone is read first.
EncReadsHeader ==
  /\ EncAt("header")
  /\ LET in == Bytes(fs[EOpt.in])
     IN \/ ~HasHeader(in) /\ EncExit(1)
        \/ "fread" \in EncFaults /\ EncFault
        \/ /\ HasHeader(in)
           /\ run' = [run EXCEPT !.pc = "setup", !.salt = in[2].key, !.key = KeyOf(EOpt, in[2].key),
                                 !.pos = AfterHeader(0)]
  /\ UNCHANGED <<fs, salts>>

\* The cipher is set up and, encrypting, the header written.
EncSetsUp ==
  /\ EncAt("setup")
  /\ IF EOpt.printonly THEN EncExit(0) /\ UNCHANGED fs
     ELSE \E w \in IF EOpt.decrypt THEN {[ok |-> TRUE, file |-> fs[EOpt.out]]}
                   ELSE Wrote(Header(run.salt), FALSE) :
            /\ fs' = [fs EXCEPT ![EOpt.out] = w.file]
            /\ run' = [run EXCEPT !.pc = "stream", !.fault = run.fault \/ ~w.ok,
                                  !.ctx = NewContext(run.key, EOpt.decrypt, ~EOpt.nopad)]
  /\ UNCHANGED salts

\* What there is to read in pieces: a file that is its own output was emptied
\* before the first read.
Input == IF EOpt.in = EOpt.out THEN <<>> ELSE Bytes(fs[EOpt.in])

\* One turn of the loop that reads a chunk; what it could not read is the end.
EncStreams ==
  /\ EncAt("stream")
  /\ LET in   == Input
         left == SubSeq(in, run.pos + 1, Len(in))
         read == SubSeq(left, 1, IF Len(left) < Chunk THEN Len(left) ELSE Chunk)
         up   == Update(run.ctx, read)
     IN \/ /\ read # <<>>
           /\ \E w \in Wrote(up.out, FALSE) :
                /\ fs' = [fs EXCEPT ![EOpt.out] = w.file]
                /\ run' = [run EXCEPT !.ctx = up.ctx, !.pos = run.pos + Len(read),
                                      !.fault = run.fault \/ ~w.ok]
        \/ /\ read = <<>> \/ "fread" \in EncFaults
           /\ run' = [run EXCEPT !.pc = "finish", !.fault = run.fault \/ read # <<>>]
           /\ UNCHANGED fs
  /\ UNCHANGED salts

EncFinishes ==
  /\ EncAt("finish")
  /\ \E last \in Finish(run.ctx) :
       IF last = NULL THEN EncExit(1) /\ UNCHANGED fs
       ELSE \E w \in Wrote(last, FALSE) :
              /\ fs' = [fs EXCEPT ![EOpt.out] = w.file]
              /\ run' = [run EXCEPT !.pc = "closing", !.code = 0, !.fault = run.fault \/ ~w.ok]
  /\ UNCHANGED salts

\* With -a, everything is read, processed and written at once: what is
\* decrypted must be base64, what is encrypted becomes base64.
\* A failing read is the end of the input.
EncBuffered ==
  /\ EncAt("buffered")
  /\ \E whole \in {TRUE} \union {FALSE : f \in EncFaults \intersect {"fread"}} :
       LET file   == IF whole THEN fs[EOpt.in] ELSE RawFile(<<>>)
           stream == SaltFromStream(EOpt)
           data   == IF stream THEN SubSeq(file.units, HeaderLen + 1, Len(file.units))
                     ELSE IF EOpt.decrypt THEN file.units ELSE Bytes(file)
           salt   == IF stream THEN file.units[2].key ELSE run.salt
           up     == Update(NewContext(KeyOf(EOpt, salt), EOpt.decrypt, ~EOpt.nopad), data)
           fails  == \/ EOpt.decrypt /\ ~file.base64 /\ file.units # <<>>
                     \/ stream /\ ~HasHeader(file.units)
           Ends(pc, code, ok) == run' = [run EXCEPT !.pc = pc, !.code = code, !.fault = ~ok \/ ~whole]
       IN IF fails \/ EOpt.printonly THEN Ends("exit", IF fails THEN 1 ELSE 0, TRUE) /\ UNCHANGED fs
          ELSE \E last \in Finish(up.ctx) :
                 IF last = NULL THEN Ends("exit", 1, TRUE) /\ UNCHANGED fs
                 ELSE \E w \in IF EOpt.decrypt THEN Wrote(up.out \o last, FALSE)
                               ELSE Wrote(Header(run.salt) \o up.out \o last, TRUE) :
                        /\ fs' = [fs EXCEPT ![EOpt.out] = w.file]
                        /\ Ends("closing", 0, w.ok)
  /\ UNCHANGED salts

\* The last of the output is handed over, and the process ends.
EncCloses == EncAt("closing") /\ run' = [run EXCEPT !.pc = "exit"] /\ UNCHANGED <<fs, salts>>

EncNext == EncStarts \/ EncOpens \/ EncReadsHeader \/ EncSetsUp \/ EncStreams \/ EncFinishes
           \/ EncBuffered \/ EncCloses

\* A command begins; it keeps what is needed of the one before.
EncBegin(args) ==
  [args |-> args, pc |-> "start", code |-> NULL, fault |-> FALSE, opened |-> FALSE,
   opt |-> EncDefaults, salt |-> NULL, key |-> NULL, pos |-> 0, ctx |-> NULL,
   before |-> [opt |-> run.opt, code |-> run.code, fault |-> run.fault, opened |-> run.opened]]

EncIdle == [pc |-> "exit", code |-> NULL, fault |-> FALSE, opened |-> FALSE, opt |-> EncDefaults]

EncRun(args) == run.pc = "exit" /\ run' = EncBegin(args) /\ UNCHANGED <<fs, salts>>

\* A command is killed; of what it wrote some is left.
EncKilled ==
  /\ run.pc # "exit" /\ run' = [run EXCEPT !.pc = "exit", !.code = 9]
  /\ IF run.opened /\ ~EOpt.printonly
     THEN \E file \in CutShort(fs[EOpt.out]) : fs' = [fs EXCEPT ![EOpt.out] = file]
     ELSE UNCHANGED fs
  /\ UNCHANGED salts

\* Any commands, with any arguments, on any files.
EncInit == run = EncIdle /\ salts = 0
EncSteps == EncNext \/ EncKilled \/ \E args : EncRun(args)
EncSpec == EncInit /\ [][EncSteps]_evars

----------------------------------------------------------------------------

\* The options to decrypt with what others encrypted: the same ones, with the
\* number of iterations and the digest as far as the key depends on them, but
\* for the salt, which is in the file (given again with -S, the header would
\* be taken for data).
Matches(e, d) ==
  /\ ~e.decrypt /\ d.decrypt /\ ~e.printonly /\ ~d.printonly
  /\ d.in = e.out /\ e.in \notin {e.out, d.out} /\ d.in # d.out
  /\ d.mode = e.mode /\ d.base64 = e.base64 /\ d.nopad = e.nopad
  /\ Raw(d) = Raw(e)
  /\ IF Raw(e) THEN d.K = e.K /\ d.iv = e.iv
     ELSE /\ d.pass = e.pass /\ Kdf(d) = Kdf(e) /\ d.nosalt = e.nosalt
          /\ d.S = NULL \/ d.nosalt

\* A file of text, not in base64; the ciphers here give nothing else back.
Plain(path) == path \in DOMAIN fs /\ ~fs[path].base64 /\ fs[path].units \in Seq(TextUnits)

\* This command decrypts what the one before it encrypted.
Undoes ==
  /\ run.opened /\ ~run.fault /\ run.before.opened /\ ~run.before.fault
  /\ Matches(run.before.opt, run.opt) /\ Plain(run.before.opt.in)

\* What was encrypted without an error is decrypted without an error, by the
\* matching options, to what it was: for every length around the block and
\* the chunk, with and without base64, padding, salt and key derivation.
RoundTrip ==
  (Undoes /\ run.pc = "exit" /\ run.code # 9 /\ run.before.code = 0)
    => run.code = 0 /\ fs[run.opt.out] = RawFile(fs[run.before.opt.in].units)

\* With the matching options nothing but the beginning of the original is
\* ever in the output, also when the encryption or this command was killed,
\* with what it wrote cut anywhere, and when either ends in an error.
PrefixOnly == Undoes => IsPrefix(fs[run.opt.out].units, fs[run.before.opt.in].units)

\* An encryption that ends well has written the format of "openssl enc",
\* whether streamed in chunks or buffered: the magic and the salt if there is
\* one, then the whole text, padded in CBC to a multiple of the block (always
\* by at least one byte), under the key of that salt.
CipherFormat ==
  (/\ run.pc = "exit" /\ run.code = 0 /\ ~run.fault /\ Plain(run.opt.in)
   /\ ~run.opt.decrypt /\ ~run.opt.printonly /\ run.opt.mode # NULL /\ run.opt.in # run.opt.out)
    => LET opt   == run.opt
           text  == fs[opt.in].units
           n     == Len(text)
           pad   == IF opt.mode = "cbc" /\ ~opt.nopad THEN Block - (n % Block) ELSE 0
           salted == ~Raw(opt) /\ ~opt.nosalt
           salt  == IF opt.S = NULL THEN salts ELSE opt.S
           key   == KeyOf(opt, IF salted THEN salt ELSE NULL)
       IN /\ fs[opt.out].base64 <=> opt.base64
          /\ fs[opt.out].units =
               (IF salted THEN <<Magic, SaltOf(salt)>> ELSE <<>>)
               \o [i \in 1 .. n + pad |-> [kind |-> "cipher", key |-> key, at |-> i,
                                          val |-> IF i <= n THEN text[i].val ELSE pad]]
=============================================================================
