---------------------------- MODULE ConfigCalls ----------------------------
(***************************************************************************)
(* What the fields hold after a configuration file has been parsed.        *)
(***************************************************************************)
EXTENDS Config

CONSTANTS
  RequestFiles,   \* files given to "req", each a sequence of lines
  CAFiles         \* files given to "ca", each with an -extfile

\* A file has lines and the lines have tokens; the null pointer is neither a
\* value nor where a section is.
ASSUME ConfigAssumption ==
  LET File == Seq(Seq(STRING) \ {<<>>})
  IN /\ RequestFiles \subseteq File /\ CAFiles \subseteq File \X File
     /\ NULL \notin Seq(STRING) /\ NULL \notin [start : Nat, end : Nat]

VARIABLES
  conf,      \* the files of the call
  fields     \* the parameters it filled

cvars == <<conf, fields>>

ConfigInit ==
  /\ fields = <<>>
  /\ \/ \E file \in RequestFiles : conf = [use |-> "req", lines |-> file, ext |-> <<>>]
     \/ \E pair \in CAFiles : conf = [use |-> "ca", lines |-> pair[1], ext |-> pair[2]]

\* parse_config_file() as req_main() calls it.
ReqReads == conf.use = "req" /\ fields = <<>> /\ fields' = ParseCSR(conf.lines)

\* The two calls of ca_main(): the extension file goes on where the
\* configuration ended.
CAReads ==
  /\ conf.use = "ca" /\ fields = <<>>
  /\ fields' = ParseExtFile(conf.ext, ParseCRT(conf.lines))

ConfigNext == (ReqReads \/ CAReads) /\ UNCHANGED conf

ConfigSpec == ConfigInit /\ [][ConfigNext]_cvars

----------------------------------------------------------------------------
(* The format docs/config-files.md promises: a file in the style of        *)
(* openssl.cnf, without "$dir" and with the quotes around a value taken    *)
(* off.                                                                    *)

Greatest(set) == CHOOSE i \in set : \A j \in set : j <= i
Least(set)    == CHOOSE i \in set : \A j \in set : i <= j

Places(text, c) == {i \in DOMAIN text : text[i] = c}
Until(text, c) ==
  IF Places(text, c) = {} THEN text ELSE SubSeq(text, 1, Least(Places(text, c)) - 1)
After(text, c) == SubSeq(text, Least(Places(text, c)) + 1, Len(text))

\* A value without the quotes around it.
Quoted(value) == Len(value) >= 2 /\ value[1] = "\"" /\ value[Len(value)] = "\""
Bare(value)   == IF Quoted(value) THEN SubSeq(value, 2, Len(value) - 1) ELSE value

\* "tag = value # comment": the value is all that follows the first "=".
Says(line, field) ==
  LET text == Until(line, "#")
  IN IF Places(text, "=") = {} \/ Trim(Until(text, "=")) # <<field>> THEN NULL
     ELSE Bare(Trim(After(text, "=")))

Headers(lines) == {i \in DOMAIN lines : IsTag(lines[i])}
Title(line)    == Trim(SubSeq(Until(line, "]"), 2, Len(Until(line, "]"))))

\* The lines whose nearest header above bears the name.
Section(lines, tag) ==
  {i \in DOMAIN lines \ Headers(lines) :
     LET above == {h \in Headers(lines) : h <= i}
     IN above # {} /\ Title(lines[Greatest(above)]) = tag}

LastIn(lines, where, field, otherwise) ==
  LET sets == {i \in where : Says(lines[i], field) # NULL}
  IN IF sets = {} THEN otherwise ELSE Says(lines[Greatest(sets)], field)

Value(lines, tag, field) == LastIn(lines, Section(lines, tag), field, NULL)

\* The value of every field: the last one its section gives it.  The extensions of
\* certificates are those of the section "x509_extensions" names, and then those of the
\* extension file.
Documented(call) ==
  LET L   == call.lines
      req == [f \in ReqFields |-> Value(L, <<"req">>, f)]
      ca  == [f \in CAFields |-> Value(L, Value(L, <<"ca">>, "default_ca"), f)]
  IN IF call.use = "req"
     THEN [f \in ReqFields \union NameFields \union ExtensionFields |->
             IF f \in ReqFields THEN req[f]
             ELSE IF f \in NameFields THEN Value(L, req["distinguished_name"], f)
             ELSE Value(L, req["x509_extensions"], f)]
     ELSE [f \in CAFields \union ExtensionFields |->
             IF f \in CAFields THEN ca[f]
             ELSE LastIn(call.ext, DOMAIN call.ext, f, Value(L, ca["x509_extensions"], f))]

----------------------------------------------------------------------------

\* Lines on which the parser keeps to the format: a header with a name, a line or a comment
\* without "=", and an assignment with one "=" in front of the comment, a value, and quotes
\* only around it.
PlainHeader(line) ==
  /\ IsTag(line) /\ Places(Until(line, "#"), "=") = {}
  /\ \E k \in 3 .. Len(line) : line[k] = "]" /\ \A j \in 2 .. k - 1 : line[j] \notin {"[", "]", "#"}

PlainRemark(line) == \A i \in DOMAIN line : line[i] \in {"=", "[", "#"} => i = 1 /\ line[1] = "#"

PlainAssignment(line) ==
  LET text == Until(line, "#")
  IN /\ ~IsTag(line)
     /\ \E e \in 2 .. Len(text) - 1 : Places(text, "=") = {e}
     /\ Places(Bare(Trim(After(text, "="))), "\"") = {}

\* A plain file names each of its sections once.
PlainFile(lines) ==
  /\ \A i \in DOMAIN lines :
       PlainHeader(lines[i]) \/ PlainRemark(lines[i]) \/ PlainAssignment(lines[i])
  /\ \A h, k \in Headers(lines) : Title(lines[h]) = Title(lines[k]) => h = k

\* Fields of certificates that the section of the CRL extensions sets too.
SetForCrls(call) ==
  {f \in ExtensionFields :
     Value(call.lines, Documented(call)["crl_extensions"], f) # NULL}

\* In a plain file every field holds the value the file gives it, for every placement of the
\* sections: cut off by the next header or by the end of the file, the last line included,
\* named before or after they occur, or missing; an extension file is read to its end and
\* overrides the configuration (parse_config_file(), locate_tag() and locate_value(), as
\* req_main() and ca_main() call them).  Where the parser leaves the documented format,
\* ConfigAsDocumented is what it breaks.
ConfigCorrect ==
  fields # <<>> /\ PlainFile(conf.lines) /\ PlainFile(conf.ext) =>
    \A f \in DOMAIN Documented(conf) :
      conf.use = "req" \/ f \notin SetForCrls(conf) => fields[f] = Documented(conf)[f]

\* Every file is read as docs/config-files.md says: a file in the style of openssl.cnf (line 3),
\* values verbatim but for the quotes around them (lines 19 and 22), and the section
\* "x509_extensions" names for the certificates that are signed.
ConfigAsDocumented ==
  fields # <<>> => \A f \in DOMAIN Documented(conf) : fields[f] = Documented(conf)[f]
=============================================================================
