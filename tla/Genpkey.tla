------------------------------ MODULE Genpkey ------------------------------
(***************************************************************************)
(* The file system the one-shot commands work on, and "genpkey".           *)
(*                                                                         *)
(* An argument is a pair of a flag and its value, NULL if it takes none; a *)
(* path or a digest is a text as it can also stand in a configuration.     *)
(***************************************************************************)
EXTENDS Pointers, Integers, Sequences, SequencesExt

CONSTANTS
  Faults,    \* what may go wrong: "entropy", "fopen", "fwrite", "fclose", "undefined"
  MaxBits    \* MBEDTLS_MPI_MAX_BITS

\* The default size of a key is allowed; no pointer is a number or a reason to stop.
ASSUME ToolsAssumption ==
  /\ MaxBits \in Nat /\ MaxBits >= 2048
  /\ NULL \notin Int /\ NULL \notin {"help", "usage"}

VARIABLES
  files,     \* path -> content, of the files that exist
  cmd,       \* the command that runs, or ran last
  made       \* number of keys generated so far: the next key's identity

gvars == <<files, cmd, made>>

Cut == [what |-> "cut"]

Stored(path, content) == [p \in DOMAIN files \union {path} |-> IF p = path THEN content ELSE files[p]]

\* Mutant: a short write is not noticed.
SavedUnchecked(path, content) ==
  {[files |-> Stored(path, content), ok |-> TRUE, lost |-> FALSE]}
  \union {[files |-> files, ok |-> FALSE, lost |-> FALSE] : f \in Faults \intersect {"fopen"}}
  \union {[files |-> Stored(path, Cut), ok |-> TRUE, lost |-> FALSE] : f \in Faults \intersect {"fwrite"}}
  \union {[files |-> Stored(path, Cut), ok |-> TRUE, lost |-> TRUE] : f \in Faults \intersect {"fclose"}}

\* fopen(), fwrite() and fclose() as every write function here calls them: a
\* file that is opened loses what it held, and what fclose() says is ignored.
Saved(path, content) ==
  {[files |-> Stored(path, content), ok |-> TRUE, lost |-> FALSE]}
  \union {[files |-> files, ok |-> FALSE, lost |-> FALSE] : f \in Faults \intersect {"fopen"}}
  \union {[files |-> Stored(path, Cut), ok |-> FALSE, lost |-> FALSE] : f \in Faults \intersect {"fwrite"}}
  \union {[files |-> Stored(path, Cut), ok |-> TRUE, lost |-> TRUE] : f \in Faults \intersect {"fclose"}}

----------------------------------------------------------------------------

\* Mutant: the bounds of the key size are not checked.
BitsUnchecked(bits) == TRUE

BitsAllowed(bits) == 1024 <= bits /\ bits <= MaxBits

\* Names mbedtls_ecp_curve_info_from_name() knows, as many as the model uses.
Curves == {"secp256r1", "secp384r1"}

GenpkeyDefaults == [bad |-> NULL, algorithm |-> "rsa", bits |-> 2048, curve |-> NULL,
                    out |-> NULL, form |-> "PEM"]

\* One argument of genpkey_main(); "bad" keeps the first reason to stop.
GenpkeyArgument(opt, arg) ==
  LET flag  == arg[1]
      value == arg[2]
      Usage == [opt EXCEPT !.bad = "usage"]
  IN IF opt.bad # NULL THEN opt ELSE
     CASE flag = "-help" -> [opt EXCEPT !.bad = "help"]
       [] flag = "-algorithm" /\ value \in {"rsa", "ec"} -> [opt EXCEPT !.algorithm = value]
       [] flag = "-pkeyopt" /\ value[1] = "rsa_keygen_bits" ->
            IF BitsAllowed(value[2]) THEN [opt EXCEPT !.bits = value[2]] ELSE Usage
       [] flag = "-pkeyopt" /\ value[1] = "ec_paramgen_curve" /\ value[2] \in Curves ->
            [opt EXCEPT !.curve = value[2]]
       [] flag = "-pkeyopt" /\ value[1] = "ec_param_enc" /\ value[2] \in {"named_curve", "explicit"} -> opt
       [] flag = "-out" -> [opt EXCEPT !.out = value]
       [] flag = "-outform" /\ value \in {"PEM", "DER"} -> [opt EXCEPT !.form = value]
       [] flag \in {"-text", "-usedevrandom"} -> opt
       [] OTHER -> Usage

GenpkeyOptions(args) ==
  LET upto[i \in 0 .. Len(args)] ==
        IF i = 0 THEN GenpkeyDefaults ELSE GenpkeyArgument(upto[i - 1], args[i])
  IN upto[Len(args)]

NewKey(opt) == [what |-> "key", id |-> made + 1, algorithm |-> opt.algorithm,
                size |-> IF opt.algorithm = "rsa" THEN opt.bits ELSE opt.curve, form |-> opt.form]

\* What the library refuses to generate: an RSA key with an odd number of bits,
\* an EC key without a curve, which has no default.
Refused(opt) == IF opt.algorithm = "rsa" THEN opt.bits % 2 = 1 ELSE opt.curve = NULL

\* Everything genpkey_main() can do with its arguments.
Genpkey(args) ==
  LET opt  == GenpkeyOptions(args)
      Stop(code) == [files |-> files, code |-> code, made |-> made, lost |-> FALSE]
  IN IF opt.bad = "help" THEN {Stop(0)}
     ELSE IF opt.bad = "usage" \/ opt.out = NULL THEN {Stop(1)}
     ELSE {Stop(1) : f \in Faults \intersect {"entropy"}}
          \union (IF Refused(opt) THEN {Stop(1)}
                  ELSE {[files |-> s.files, code |-> IF s.ok THEN 0 ELSE 1,
                         made |-> made + 1, lost |-> s.lost] : s \in Saved(opt.out, NewKey(opt))})

EndsWith(e) ==
  /\ files' = e.files /\ made' = e.made
  /\ cmd' = [cmd EXCEPT !.pc = "exit", !.code = e.code, !.lost = e.lost]

GenpkeyRuns ==
  /\ cmd.tool = "genpkey" /\ cmd.pc = "start"
  /\ \E g \in Genpkey(cmd.args) : EndsWith(g)

----------------------------------------------------------------------------

\* The value of the last argument with a flag, read from the right.
Given(args, flag, default) ==
  LET at == {i \in DOMAIN args : args[i][1] = flag}
  IN IF at = {} THEN default ELSE args[CHOOSE i \in at : \A j \in at : j <= i][2]

GivenOption(args, name, default) ==
  LET at == {i \in DOMAIN args : args[i][1] = "-pkeyopt" /\ args[i][2][1] = name}
  IN IF at = {} THEN default ELSE args[CHOOSE i \in at : \A j \in at : j <= i][2][2]

\* A genpkey that succeeds leaves a whole new key of the algorithm, size and
\* form asked for, however the arguments were ordered and whatever the file
\* held before; only a lost close can make it report a key it did not write.
GeneratedAsAsked ==
  (cmd.tool = "genpkey" /\ cmd.pc = "exit" /\ cmd.code = 0) =>
    LET args == cmd.args
        key == files[Given(args, "-out", NULL)]
    IN \/ \E i \in DOMAIN args : args[i][1] = "-help"
       \/ cmd.lost
       \/ /\ key.what = "key" /\ key.id = made /\ made = cmd.made + 1
          /\ key.algorithm = Given(args, "-algorithm", "rsa")
          /\ key.form = Given(args, "-outform", "PEM")
          /\ IF key.algorithm = "rsa"
             THEN key.size = GivenOption(args, "rsa_keygen_bits", 2048) /\ key.size \in 1024 .. MaxBits
             ELSE key.size = GivenOption(args, "ec_paramgen_curve", NULL) /\ key.size # NULL
=============================================================================
