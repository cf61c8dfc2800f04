------------------------------- MODULE Tools -------------------------------
(***************************************************************************)
(* "dhparam" and "crl", over the file system of Genpkey: each reads or     *)
(* makes one thing and may write it to a file; and all the one-shot        *)
(* commands, one after the other.                                          *)
(***************************************************************************)
EXTENDS Req

----------------------------------------------------------------------------
(* "dhparam": parameters have an identity, a size and a generator, and suit *)
(* each other when P is odd and G between 1 and P.                          *)

DhparamDefaults == [bad |-> NULL, noout |-> FALSE, check |-> FALSE, in |-> NULL, out |-> NULL,
                    form |-> "PEM", g |-> 2, bits |-> NULL]

\* One argument of dhparam_main().  The last one is the number of bits if it is
\* nothing else, also when it is -noout or -text, and also if it is no number
\* (atoi() makes 0 of it); any other argument that is not known is skipped.
DhparamArgument(opt, arg, last) ==
  LET flag  == arg[1]
      value == arg[2]
      bits  == IF flag = "bits" THEN value ELSE 0
  IN IF opt.bad # NULL THEN opt ELSE
     CASE flag = "-help" -> [opt EXCEPT !.bad = "help"]
       [] flag = "-noout" /\ ~last -> [opt EXCEPT !.noout = TRUE]
       [] flag = "-text" /\ ~last -> opt
       [] flag = "-out" -> [opt EXCEPT !.out = value]
       [] flag = "-outform" -> IF value \in {"PEM", "DER"} THEN [opt EXCEPT !.form = value]
                                                           ELSE [opt EXCEPT !.bad = "usage"]
       [] flag = "-g" -> [opt EXCEPT !.g = value]    \* -2, -3, -5
       [] flag = "-in" -> [opt EXCEPT !.in = value]
       [] flag = "-check" -> [opt EXCEPT !.check = TRUE]
       [] OTHER -> IF ~last THEN opt
                   ELSE IF bits \in 0 .. MaxBits THEN [opt EXCEPT !.bits = bits]
                   ELSE [opt EXCEPT !.bad = "usage"]

DhparamOptions(args) ==
  LET upto[i \in 0 .. Len(args)] ==
        IF i = 0 THEN DhparamDefaults ELSE DhparamArgument(upto[i - 1], args[i], i = Len(args))
  IN upto[Len(args)]

\* Mutant: a number of bits does not make -in ignored.
ReadsAlways(opt) == opt.in # NULL

\* The parameters of a file are used, unless a number of bits is given.
Reads(opt) == opt.in # NULL /\ opt.bits = NULL

Ended(now, code, n, lost) == [files |-> now, code |-> code, made |-> n, lost |-> lost]

\* What -check accepts.
Checks(params) == 512 <= params.bits /\ params.bits <= 10000 /\ params.suit

\* The check, and the write.
DhparamEnds(opt, params, n) ==
  IF opt.check /\ ~Checks(params) THEN {Ended(files, 1, n, FALSE)}
  ELSE IF opt.noout \/ opt.out = NULL THEN {Ended(files, 0, n, FALSE)}
  ELSE {Ended(s.files, IF s.ok THEN 0 ELSE 1, n, s.lost) : s \in Saved(opt.out, [params EXCEPT !.form = opt.form])}

NewParams(opt) == [what |-> "dh", id |-> made + 1, bits |-> IF opt.bits = NULL THEN 2048 ELSE opt.bits,
                   g |-> opt.g, suit |-> TRUE, form |-> opt.form]

\* A prime has at least three bits.
TooShort(params) == params.bits < 3

\* Everything dhparam_main() can do.
Dhparam(args) ==
  LET opt  == DhparamOptions(args)
      Stop(code) == Ended(files, code, made, FALSE)
  IN IF opt.bad = "help" THEN {Stop(0)}
     ELSE IF opt.bad = "usage" \/ (opt.out = NULL /\ ~opt.noout /\ ~opt.check) THEN {Stop(1)}
     ELSE IF Reads(opt)
     THEN IF opt.in \in DOMAIN files /\ files[opt.in].what = "dh"
          THEN DhparamEnds(opt, files[opt.in], made) ELSE {Stop(1)}
     ELSE {Stop(1) : f \in Faults \intersect {"entropy"}}
          \union (IF TooShort(NewParams(opt)) THEN {Stop(1)} ELSE DhparamEnds(opt, NewParams(opt), made + 1))

----------------------------------------------------------------------------
(* "crl": a list is its issuer and the key that signed it; a file holds one *)
(* or more of them.  A file of certificates holds subjects with their keys, *)
(* and NULL for one that cannot be parsed.                                  *)

CrlDefaults == [bad |-> NULL, noout |-> FALSE, verify |-> FALSE, in |-> NULL, out |-> NULL,
                form |-> "PEM", CAfile |-> NULL]

\* One argument of crl_main().
CrlArgument(opt, arg) ==
  LET flag  == arg[1]
      value == arg[2]
  IN IF opt.bad # NULL THEN opt ELSE
     CASE flag = "-help" -> [opt EXCEPT !.bad = "help"]
       [] flag \in {"-text", "-issuer", "-lastupdate", "-nextupdate"} -> opt
       [] flag = "-noout" -> [opt EXCEPT !.noout = TRUE]
       [] flag = "-verify" -> [opt EXCEPT !.verify = TRUE]
       [] flag = "-in" -> [opt EXCEPT !.in = value]
       [] flag = "-out" -> [opt EXCEPT !.out = value]
       [] flag = "-outform" /\ value \in {"PEM", "DER"} -> [opt EXCEPT !.form = value]
       [] flag = "-CAfile" -> [opt EXCEPT !.CAfile = value]
       [] OTHER -> [opt EXCEPT !.bad = "usage"]

CrlOptions(args) ==
  LET upto[i \in 0 .. Len(args)] ==
        IF i = 0 THEN CrlDefaults ELSE CrlArgument(upto[i - 1], args[i])
      opt == upto[Len(args)]
  IN IF opt.bad = NULL /\ (opt.in = NULL \/ (opt.verify /\ opt.CAfile = NULL))
     THEN [opt EXCEPT !.bad = "usage"] ELSE opt

Holds(path, what) == path \in DOMAIN files /\ files[path].what = what

\* The certificates with the issuer's name, and the first of them.
Named(crl, certs) == {i \in DOMAIN certs : certs[i].subject = crl.issuer}
First(crl, certs) == certs[CHOOSE i \in Named(crl, certs) : \A j \in Named(crl, certs) : i <= j]

\* Mutant: that no certificate has the issuer's name is only said.
VerifiesUnnamed(crl, certs) == Named(crl, certs) = {} \/ First(crl, certs).key = crl.key

\* Only the first certificate with the issuer's name is tried.
Verifies(crl, certs) == Named(crl, certs) # {} /\ First(crl, certs).key = crl.key

\* No certificate may be unreadable; of several lists the first is verified.
Readable(certs) == \A i \in DOMAIN certs : certs[i] # NULL

Verified(opt) ==
  /\ Holds(opt.CAfile, "certs") /\ Readable(files[opt.CAfile].certs)
  /\ Verifies(files[opt.in].crls[1], files[opt.CAfile].certs)

FirstList(opt) == [what |-> "crl", crls |-> <<files[opt.in].crls[1]>>, form |-> opt.form]

\* Everything crl_main() can do: of several lists the first is written.
Crl(args) ==
  LET opt == CrlOptions(args)
      Stop(code) == Ended(files, code, made, FALSE)
  IN IF opt.bad = "help" THEN {Stop(0)}
     ELSE IF opt.bad = "usage" \/ ~Holds(opt.in, "crl") THEN {Stop(1)}
     ELSE IF opt.verify /\ ~Verified(opt) THEN {Stop(1)}
     ELSE IF opt.noout \/ opt.out = NULL THEN {Stop(0)}
     ELSE {Ended(s.files, IF s.ok THEN 0 ELSE 1, made, s.lost) :
             s \in Saved(opt.out, FirstList(opt))}

ToolRuns ==
  /\ cmd.pc = "start" /\ cmd.tool \in {"dhparam", "crl"}
  /\ \E e \in IF cmd.tool = "crl" THEN Crl(cmd.args) ELSE Dhparam(cmd.args) : EndsWith(e)

----------------------------------------------------------------------------
(* The commands, one after the other, on files others may have made. *)

\* What getopt and atoi() let through: a number is one, and no file name is missing.
SizeIsNumber(arg) == arg[1] = "-pkeyopt" /\ arg[2][1] = "rsa_keygen_bits" => arg[2][2] \in Int
BitsIsNumber(arg) == arg[1] = "bits" => arg[2] \in Int

CommandLine(args) ==
  /\ Len(args) \in Nat /\ DOMAIN args = 1 .. Len(args)
  /\ \A i \in DOMAIN args : /\ SizeIsNumber(args[i]) /\ BitsIsNumber(args[i])
                            /\ args[i][1] = "-in" => args[i][2] # NULL

\* Parameters have a size and a form, and certificates stand one after the other.
Parsable(content) ==
  /\ content.what = "dh" => {"what", "bits", "suit", "form"} \subseteq DOMAIN content
  /\ content.what = "certs" => /\ Len(content.certs) \in Nat
                               /\ DOMAIN content.certs = 1 .. Len(content.certs)

FilesParsable == \A p \in DOMAIN files : Parsable(files[p])

ToolsStart == FilesParsable /\ cmd = Idle /\ made = 0

ToolSteps == GenpkeyRuns \/ ReqNext \/ ToolRuns \/ Killed

ToolsNext ==
  \/ \E tool \in {"genpkey", "req", "dhparam", "crl"} :
       \E args, env : CommandLine(args) /\ Run(tool, args, env)
  \/ ToolSteps

ToolsSpec == ToolsStart /\ [][ToolsNext]_gvars

----------------------------------------------------------------------------

Asks(flag) == \E i \in DOMAIN cmd.args : cmd.args[i][1] = flag
Finished(tool) == cmd.tool = tool /\ cmd.pc = "exit" /\ ~Asks("-help")
Target == Given(cmd.args, "-out", NULL)
Kept == cmd.before

\* What was there before, but for an output that was cut.
OnlyCut == \A p \in DOMAIN Kept \union DOMAIN files :
             \/ p \in DOMAIN Kept /\ p \in DOMAIN files /\ files[p] = Kept[p]
             \/ p = Target /\ p \in DOMAIN files /\ files[p] = Cut

\* A dhparam that succeeds has left whole parameters in the form asked for:
\* those of the input file, or, without one or with a number of bits as the
\* last argument, new ones of the size and generator asked for; of at least 512
\* bits, and suiting each other, with -check; and no file is touched without -out, with -noout or when
\* it fails (but for the output a failing write cuts).
DhparamDone ==
  Finished("dhparam") =>
    LET n == Len(cmd.args)
        fresh == ~Asks("-in") \/ cmd.args[n][1] = "bits"
        from  == Given(cmd.args, "-in", NULL)
        out   == files[Target]
        bits  == IF cmd.args[n][1] = "bits" THEN cmd.args[n][2] ELSE 2048
    IN IF cmd.code = 0 /\ Target # NULL /\ ~Asks("-noout")
       THEN cmd.lost \/ /\ out.what = "dh" /\ out.form = Given(cmd.args, "-outform", "PEM")
                        /\ IF fresh THEN /\ out.id > cmd.made /\ out.bits = bits
                                         /\ out.g = Given(cmd.args, "-g", 2)
                           ELSE out = [Kept[from] EXCEPT !.form = out.form]
                        /\ Asks("-check") => out.bits >= 512 /\ out.suit
       ELSE OnlyCut

\* With -verify, a list is accepted, and written, only if it was signed by the
\* key of a certificate with the issuer's name, the first such in a file of
\* certificates all of which can be read; a crl that succeeds with -out has
\* written the first list of its input, and nothing else changes a file (but for the output a failing write cuts).
CrlDone ==
  Finished("crl") =>
    LET in    == Kept[Given(cmd.args, "-in", NULL)]
        certs == Kept[Given(cmd.args, "-CAfile", NULL)].certs
        Issues(i) == certs[i].subject = in.crls[1].issuer
        signed == /\ \A i \in DOMAIN certs : certs[i] # NULL
                  /\ \E i \in DOMAIN certs : /\ Issues(i) /\ certs[i].key = in.crls[1].key
                                             /\ \A j \in 1 .. i - 1 : ~Issues(j)
    IN /\ (cmd.code = 0 /\ Asks("-verify")) => signed
       /\ cmd.code = 1 => OnlyCut
       /\ (cmd.code = 0 /\ (Target = NULL \/ Asks("-noout"))) => files = Kept
       /\ (cmd.code = 0 /\ Target # NULL /\ ~Asks("-noout") /\ ~cmd.lost) =>
            files[Target] = [what |-> "crl", crls |-> <<in.crls[1]>>, form |-> Given(cmd.args, "-outform", "PEM")]
=============================================================================
