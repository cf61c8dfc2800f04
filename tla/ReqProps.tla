------------------------------ MODULE ReqProps ------------------------------
(***************************************************************************)
(* What a "req" that ended promises, said from its arguments, its          *)
(* configuration file and the files before and after it.                   *)
(***************************************************************************)
EXTENDS Req, SubjectCalls

Has(flag) == \E i \in DOMAIN cmd.args : cmd.args[i][1] = flag

\* A command that had something to write and says it did.
ReqSucceeded ==
  /\ cmd.tool = "req" /\ cmd.pc = "exit" /\ cmd.code = 0
  /\ ~Has("-help") /\ ~Has("-in") /\ ~Has("-noout")

SelfSigned == Has("-x509") \/ Has("-x509v1")

Out == Given(cmd.args, "-out", NULL)

\* The key file of a command, as the command line or else the file names it.
KeyFile == IF Has("-newkey") THEN Given(cmd.args, "-keyout", NULL)
           ELSE Given(cmd.args, "-key", cmd.params["default_keyfile"])

AttributeOf(field) ==
  CASE field = "countryName_default" -> "C"
    [] field = "stateOrProvinceName_default" -> "ST"
    [] field = "localityName_default" -> "L"
    [] field = "0.organizationName_default" -> "O"
    [] field = "organizationalUnitName_default" -> "OU"
    [] field = "commonName_default" -> "CN"
    [] field = "emailAddress_default" -> "emailAddress"

\* The fields that make a subject.  serialNumber_default is not one: the
\* documentation lists it (docs/config-files.md:53), the code reads it and
\* builds the subject without it, so nothing is claimed of it here.
SubjectFields == NameFields \ {"serialNumber_default"}

\* The values the parser of subjects takes as they are: the defaults of a
\* configuration file are not escaped for it.
PlainText(value) == value[1] # "#" /\ \A i \in DOMAIN value : value[i] \notin {",", "\\"}

\* The fields the subject should have.
Wanted ==
  IF Has("-subj")
  THEN LET s == Given(cmd.args, "-subj", NULL)
           Field(t) == CHOOSE r \in Spans(s) : FieldType(s, r) = t
       IN IF s[1] = "/" THEN [t \in {FieldType(s, r) : r \in Spans(s)} |-> FieldValue(s, Field(t))]
          ELSE StringToNames(s)
  ELSE LET set == {f \in SubjectFields : cmd.params[f] # NULL}
       IN [t \in {AttributeOf(f) : f \in set} |->
             cmd.params[CHOOSE f \in set : AttributeOf(f) = t]]

SubjectIsPlain ==
  IF Has("-subj") THEN Given(cmd.args, "-subj", NULL)[1] = "/" => Proper(Given(cmd.args, "-subj", NULL))
  ELSE \A f \in SubjectFields : cmd.params[f] # NULL => PlainText(cmd.params[f])

\* A "req" that succeeds has left, whole, what it was asked for: a request, or
\* a certificate if -x509 was given, with the subject asked for (a certificate
\* gets it by way of the request, printed and parsed again; Proper and SubjectFields
\* name the subjects and fields this is not said of), the digest of the
\* command line or else of the file, and the public half of the key the key
\* file holds now (unless -out overwrote that file).  Only a lost close can
\* break it.
RequestDone ==
  (ReqSucceeded /\ ~cmd.lost) =>
    LET out == files[Out]
    IN /\ out.what = (IF SelfSigned THEN "crt" ELSE "csr")
       /\ SubjectIsPlain => out.names = Wanted
       /\ out.digest = LET names == {i \in DOMAIN cmd.args : cmd.args[i][1] = "-digest"}
                       IN IF names = {} THEN cmd.params["default_md"]
                          ELSE cmd.args[CHOOSE i \in names : TRUE][2]
       /\ KeyFile # Out => files[KeyFile].what = "key" /\ files[KeyFile].id = out.key
       /\ (KeyFile = Out /\ ~Has("-newkey")) => cmd.before[KeyFile].id = out.key

----------------------------------------------------------------------------

\* The comma separated items of a value, blanks trimmed, as spans of it.
ItemSpans(value) == {r \in Runs(value, {","}) : \E i \in r[1] .. r[2] : value[i] # " "}
Item(value, r) ==
  LET text == SubSeq(value, r[1], r[2])
      low  == {i \in DOMAIN text : text[i] # " "}
      from == CHOOSE i \in low : \A j \in low : i <= j
      to   == CHOOSE i \in low : \A j \in low : j <= i
  IN [i \in 1 .. to - from + 1 |-> Lower(text[from + i - 1])]

\* The last item that is one of "texts" decides; NULL if there is none.
Decides(value, Wanting(_)) ==
  LET these == {r \in ItemSpans(value) : Wanting(Item(value, r))}
  IN IF these = {} THEN NULL ELSE Item(value, CHOOSE r \in these : \A q \in these : q[1] <= r[1])

\* A self-signed certificate carries the extensions its configuration section
\* asks for except extendedKeyUsage, which is read and never applied
\* (docs/req.md:135), each with the meaning of its last deciding item, and no
\* others.  A section that asks for any extension, be it extendedKeyUsage alone,
\* makes the certificate version 3 whatever was asked for (see CommandLineWins);
\* one that asks for none leaves the version of the command line.
CertificateExtensions ==
  (ReqSucceeded /\ SelfSigned /\ ~cmd.lost) =>
    LET out == files[Out]
        V(f) == cmd.params[f]
        Set(f) == V(f) # NULL
        ext == out.extensions
        skid == Decides(V("subjectKeyIdentifier"), LAMBDA t : t \in {<<"hash">>, <<"none">>})
        akid == Decides(V("authorityKeyIdentifier"),
                        LAMBDA t : \E k \in {"keyid", "issuer", "none"} : Contains(t, k))
        ca   == Decides(V("basicConstraints"), LAMBDA t : Contains(t, "CA:"))
        path == Decides(V("basicConstraints"),
                        LAMBDA t : Contains(t, "pathlen:") /\ ~Contains(t, "CA:"))
    IN /\ out.version = IF Has("-x509v1") /\ (\A f \in ExtensionFields : ~Set(f)) THEN 1 ELSE 3
       /\ "basicConstraints" \in DOMAIN ext <=> Set("basicConstraints")
       /\ Set("basicConstraints") =>
            /\ ext["basicConstraints"].ca <=> (ca = NULL \/ ca = <<"CA:", "true">>)
            /\ path = NULL => ext["basicConstraints"].pathlen = NULL
            /\ path # NULL => path = <<"pathlen:">> \o ext["basicConstraints"].pathlen
       /\ "extendedKeyUsage" \notin DOMAIN ext
       /\ "subjectKeyIdentifier" \in DOMAIN ext <=> Set("subjectKeyIdentifier") /\ skid # <<"none">>
       /\ "authorityKeyIdentifier" \in DOMAIN ext <=>
            Set("authorityKeyIdentifier") /\ akid # NULL
              /\ \E k \in {"keyid", "issuer"} : Contains(akid, k)
       /\ \A f \in {"keyUsage", "nsCertType"} :
            /\ f \in DOMAIN ext <=> Set(f)
            /\ Set(f) => \A u \in KeyUsages \union NsCertTypes :
                 u \in ext[f] <=>
                   /\ u \in IF f = "keyUsage" THEN KeyUsages ELSE NsCertTypes
                   /\ \E r \in ItemSpans(V(f)) : Item(V(f), r) = <<u>>

----------------------------------------------------------------------------
(* What the documentation says, and the code does not do. *)

\* With -newkey, the request is for a key this command generated.
NewKeyIsFresh ==
  (ReqSucceeded /\ ~cmd.lost /\ Has("-newkey") /\ KeyFile # Out) => files[Out].key > cmd.made

\* The command line decides: the file that -config names is the one that is read, whatever
\* the environment names (docs/config-files.md:28-29), and -x509v1 gives version 1, whatever
\* that file holds (docs/req.md:18,22, tests/cases/req/04_x509v1_version_field.sh:9).
CommandLineWins ==
  (ReqSucceeded /\ ~cmd.lost) =>
    /\ Has("-config") => LET path == Given(cmd.args, "-config", NULL)
                         IN path \in DOMAIN ConfFiles /\ cmd.params = Parsed[path]
    /\ Has("-x509v1") => files[Out].version = 1
=============================================================================
