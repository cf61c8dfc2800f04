----------------------------- MODULE MCUtilities -----------------------------
(***************************************************************************)
(* Instances of the utilities other than "ca" for TLC: of the              *)
(* configuration parser, of the conversion of subjects, of the commands on *)
(* a file system and of "enc".  "kind" says which of them a behaviour is   *)
(* about; "tools" is genpkey with req.                                     *)
(***************************************************************************)
EXTENDS ReqProps, ConfigCalls, Tools, MCEnc

CONSTANTS
  MaxCommands,    \* commands in a behaviour of the tools
  Kinds           \* of "config", "subject", "tools", "override", "dhparam", "crl", "enc", those checked

VARIABLES kind, count

vars == <<kind, count, conf, fields, subj, native, files, cmd, made, fs, run, salts, turn>>

----------------------------------------------------------------------------
(* Sequences that differ from given ones in one place. *)

Without(s) == {RemoveAt(s, i) : i \in DOMAIN s}
With(s, pool) == {InsertAt(s, i, x) : i \in 1 .. Len(s) + 1, x \in pool}
Swapped(s) == {[s EXCEPT ![i] = s[i + 1], ![i + 1] = s[i]] : i \in 1 .. Len(s) - 1}

----------------------------------------------------------------------------
(* Configuration files. *)

Tag(name) == <<"[", " ", name, " ", "]">>
Line(field, value) == <<field, " ", "=", " ">> \o value

RequestBase ==
  << Tag("req"), Line("default_md", <<"m">>), Line("distinguished_name", <<"dn">>),
     Line("x509_extensions", <<"ext">>),
     Tag("dn"), Line("commonName_default", <<"a">>),
     Tag("ext"), Line("keyUsage", <<"k">>), Line("basicConstraints", <<"CA:", "TRUE">>) >>

CABase ==
  << Tag("ca"), Line("default_ca", <<"def">>),
     Tag("def"), Line("database", <<"d">>), Line("x509_extensions", <<"ext">>),
     Line("crl_extensions", <<"crl">>),
     Tag("ext"), Line("keyUsage", <<"k">>), Line("subjectKeyIdentifier", <<"hash">>),
     Tag("crl"), Line("keyUsage", <<"c">>) >>

Pool ==
  { Tag("req"), Tag("ext"), Tag("dn"), Tag("x"), <<"[", "]">>, <<"[", "ext">>,
    <<"[", "ext", "]", " ", "#", "n">>, <<"[", "dn", "]", "x">>,
    Line("keyUsage", <<"z">>), Line("default_md", <<"z">>), Line("x509_extensions", <<"dn">>),
    <<"#", " ">> \o Line("keyUsage", <<"y">>), Line("commonName_default", <<"\"", "b", " ", "c", "\"">>),
    Line("keyUsage", <<"y", " ", "#", "n">>), Line("default_md", <<"y", "=", "n">>),
    Line("default_md", <<"y", "#", "keyUsage", "=", "n">>), <<"#", " ", "n">>,
    Line("database", <<"z">>), Line("crl_extensions", <<"ext">>), Line("default_ca", <<"ext">>),
    <<"keyUsage", "=">>, <<"keyUsage">>, <<"=", " ", "z">>, <<"#">>, <<" ">>,
    <<" ", "basicConstraints", "=", "\"", "\"">> }

Edited(s) == {s} \union Without(s) \union With(s, Pool) \union Swapped(s)
MCRequestFiles == Edited(RequestBase)
                  \union UNION {With(f, Pool) : f \in Without(RequestBase)}
ExtFiles == {<<>>} \union Edited(<<Line("nsCertType", <<"n">>), Line("keyUsage", <<"e">>)>>)
MCCAFiles == ((Edited(CABase) \union {<<>>}) \X {<<>>, <<Tag("x"), Line("keyUsage", <<"e">>)>>})
             \union ({CABase} \X ExtFiles)

----------------------------------------------------------------------------
(* Subjects. *)

Strs(alphabet, n) == UNION {[1 .. k -> alphabet] : k \in 0 .. n}
Segments(n) == {<<"/", t, "=">> \o v : t \in {"O", "L"}, v \in Strs({"x", "\\", ",", "/", " ", "=", "#"}, n)}
MCSubjects ==
  Segments(3) \union {a \o b : a \in Segments(2), b \in {s \in Segments(1) : TRUE}}
  \union {a \o b : a \in Segments(1), b \in Segments(2)}
  \union {<<"/">> \o v : v \in Strs({"/", "=", "O", "\\"}, 4)}

----------------------------------------------------------------------------
(* Commands. *)

MCConfFiles ==
  [ c1 |-> << Tag("req"), Line("distinguished_name", <<"dn">>), Line("x509_extensions", <<"ext">>),
              Line("default_md", <<"sha256">>), Line("default_keyfile", <<"k">>),
              Tag("dn"), Line("commonName_default", <<"a", " ", "b">>), Line("countryName_default", <<"c">>),
              Tag("ext"), Line("basicConstraints", <<"critical", ",", "CA:", "TRUE", ",", " ", "pathlen:", "0">>),
              Line("subjectKeyIdentifier", <<"none", ",", "hash">>),
              Line("authorityKeyIdentifier", <<"keyid", ",", " ", "none">>),
              Line("keyUsage", <<"critical", ",", " ", "keyCertSign", ",", "cRLSign">>) >>,
    c2 |-> << Tag("req"), Line("distinguished_name", <<"dn">>), Line("x509_extensions", <<"ext">>),
              Line("default_md", <<"sha1">>), Line("default_keyfile", <<"k2">>),
              Tag("dn"), Line("commonName_default", <<"a">>), Line("emailAddress_default", <<"e">>),
              Line("localityName_default", <<"l">>), Line("stateOrProvinceName_default", <<"s">>),
              Line("organizationalUnitName_default", <<"u">>), Line("0.organizationName_default", <<"o">>),
              Tag("ext"), Line("nsCertType", <<"server", " ", ",", "objsign", ",", "crlsign">>) >>,
    c3 |-> << Tag("req"), Line("distinguished_name", <<"dn">>), Line("x509_extensions", <<"ext">>),
              Tag("dn"), Line("commonName_default", <<"a", ",", "O", "=", "b">>),
              Tag("ext"), Line("basicConstraints", <<"pathlen:", "2", ",", "CA:", "x", ",", "pathlen:", "1">>),
              Line("subjectKeyIdentifier", <<"hash", ",", " ", "none">>),
              Line("authorityKeyIdentifier", <<"none", ",", "issuer", ":", "always">>),
              Line("extendedKeyUsage", <<"serverAuth">>) >>,
    c4 |-> << Tag("req"), Line("x509_extensions", <<"ext">>), Line("default_md", <<"md9">>),
              Line("default_keyfile", <<"k">>), Tag("ext"), Line("extendedKeyUsage", <<"serverAuth">>) >> ]

K == <<"k">>
K2 == <<"k2">>
O == <<"o">>

\* Lists of arguments: ordinary ones, and those one argument away from them.
OneAway(bases, pool) ==
  bases \union UNION {Without(b) \union Swapped(b) \union {Append(b, x) : x \in pool}
                      \union {<<x>> \o b : x \in pool} : b \in bases}

GenpkeyCommands ==
  OneAway({ << <<"-algorithm", "rsa">>, <<"-pkeyopt", <<"rsa_keygen_bits", 1024>>>>, <<"-out", K>> >>,
            << <<"-algorithm", "ec">>, <<"-pkeyopt", <<"ec_paramgen_curve", "secp256r1">>>>, <<"-out", K>> >> },
          { <<"-help", NULL>>, <<"-text", NULL>>, <<"-outform", "DER">>, <<"-outform", "X">>,
            <<"-algorithm", "rsa">>, <<"-algorithm", "dh">>, <<"-out", K2>>, <<"-x", NULL>>,
            <<"-pkeyopt", <<"rsa_keygen_bits", 1022>>>>, <<"-pkeyopt", <<"rsa_keygen_bits", MaxBits>>>>,
            <<"-pkeyopt", <<"rsa_keygen_bits", MaxBits + 1>>>>, <<"-pkeyopt", <<"other", 1>>>>,
            <<"-pkeyopt", <<"ec_paramgen_curve", "secp384r1">>>>, <<"-pkeyopt", <<"ec_paramgen_curve", "x">>>>,
            <<"-pkeyopt", <<"rsa_keygen_bits", 1025>>>>, <<"-pkeyopt", <<"ec_param_enc", "explicit">>>> })

Digest(d) == <<"-digest", d>>

ReqCommands ==
  OneAway({ << <<"-new", NULL>>, Digest(<<"sha256">>), <<"-key", K>>,
               <<"-subj", <<"/", "O", "=", "x", ",", "y", "/", "CN", "=", "a", "\\", "/", "b">>>>,
               <<"-out", O>> >>,
            << <<"-config", "c1">>, <<"-x509", NULL>>, <<"-days", 30>>, <<"-out", O>> >>,
            << <<"-config", "c2">>, <<"-x509v1", NULL>>, <<"-newkey", <<"rsa", 2048>>>>,
               <<"-keyout", K>>, <<"-out", O>> >>,
            << <<"-config", "c2">>, <<"-newkey", <<"rsa", 1025>>>>, <<"-keyout", K>>, <<"-out", O>> >> },
          { <<"-help", NULL>>, <<"-batch", NULL>>, <<"-new", NULL>>, <<"-in", O>>, <<"-in", K>>,
            <<"-x509", NULL>>, <<"-x509v1", NULL>>, <<"-days", 0>>, <<"-days", -1>>,
            <<"-set_serial", "7">>, <<"-set_serial", "malformed">>, <<"-config", "c3">>, <<"-config", "c4">>,
            <<"-config", "missing">>, <<"-subj", <<"/", "O", "/">>>>, <<"-subj", <<"L", "=", "m">>>>,
            <<"-key", K2>>, <<"-newkey", <<"rsa", 512>>>>, <<"-newkey", <<"ec", 256>>>>,
            <<"-newkey", <<"rsa">>>>, <<"-newkey", <<"rsa", 1025>>>>, <<"-keyout", O>>,
            <<"-keyout", K2>>, <<"-out", K>>, <<"-outform", "DER">>, <<"-outform", "X">>,
            <<"-noout", NULL>>, Digest(<<"sha1">>), Digest(<<"bogus">>) })

Environments ==
  [MBEDTLS_CONF : {NULL}, OPENSSL_CONF : {NULL, "c3"}] \union [MBEDTLS_CONF : {"c1"}, OPENSSL_CONF : {NULL, "c4"}]
NoEnvironment == [MBEDTLS_CONF |-> NULL, OPENSSL_CONF |-> NULL]

\* Commands before the last one.
FirstCommands ==
  { <<"genpkey", << <<"-pkeyopt", <<"rsa_keygen_bits", 1024>>>>, <<"-out", K>> >>>>,
    <<"genpkey", << <<"-algorithm", "ec">>, <<"-pkeyopt", <<"ec_paramgen_curve", "secp256r1">>>>, <<"-out", K2>> >>>>,
    <<"req", << <<"-config", "c2">>, <<"-newkey", <<"rsa", 2048>>>>, <<"-keyout", K>>, <<"-out", O>> >>>> }

\* A command line that says something else than the environment and the file.
Overriding == << <<"-config", "c2">>, <<"-x509v1", NULL>>, <<"-newkey", <<"rsa", 2048>>>>,
                 <<"-keyout", K>>, <<"-out", O>> >>

DhparamCommands ==
  OneAway({ << <<"-in", <<"d">>>>, <<"-check", NULL>>, <<"-out", O>> >>,
            << <<"-g", 5>>, <<"-out", O>>, <<"bits", 1024>> >> },
          { <<"-help", NULL>>, <<"-noout", NULL>>, <<"-text", NULL>>, <<"-check", NULL>>,
            <<"-out", <<"d">>>>, <<"-in", <<"d">>>>, <<"-in", <<"missing">>>>, <<"-outform", "DER">>,
            <<"-outform", "X">>, <<"-g", 3>>, <<"bits", 511>>, <<"bits", 2>>, <<"bits", -1>>,
            <<"bits", MaxBits + 1>>, <<"-x", NULL>> })

CrlCommands ==
  OneAway({ << <<"-in", <<"l">>>>, <<"-verify", NULL>>, <<"-CAfile", <<"c">>>>, <<"-out", O>> >> },
          { <<"-help", NULL>>, <<"-noout", NULL>>, <<"-text", NULL>>, <<"-out", <<"l">>>>,
            <<"-in", <<"c">>>>, <<"-CAfile", <<"missing">>>>, <<"-outform", "DER">>, <<"-outform", "X">>,
            <<"-x", NULL>> })

\* Files others made: lists of up to two names and keys, certificates.
CrlFiles ==
  LET List == [issuer : {"a"}, key : {1, 2}]
      Cert == [subject : {"a", "b"}, key : {1, 2}]
  IN {[p \in {<<"l">>, <<"c">>} |-> IF p = <<"l">> THEN [what |-> "crl", crls |-> l, form |-> "PEM"]
                                   ELSE [what |-> "certs", certs |-> c]] :
        l \in {<<x>> : x \in List} \union (List \X List),
        c \in {<<x>> : x \in Cert} \union (Cert \X Cert) \union {<<x, NULL>> : x \in Cert}}

\* Parameters others made, that do not suit each other.
DhparamFiles ==
  {<<>>, [p \in {<<"d">>} |-> [what |-> "dh", id |-> 0, bits |-> 512, g |-> 1, suit |-> FALSE, form |-> "PEM"]]}

----------------------------------------------------------------------------

NoConfig  == conf = [use |-> "none"] /\ fields = <<>>
NoSubject == subj = <<>> /\ native = <<>>

Init ==
  /\ kind \in Kinds /\ count = 0
  /\ files \in (CASE kind = "crl" -> CrlFiles [] kind = "dhparam" -> DhparamFiles [] OTHER -> {<<>>})
  /\ ToolsStart
  /\ IF kind = "config" THEN ConfigInit ELSE NoConfig
  /\ IF kind = "subject" THEN SubjectInit ELSE NoSubject
  /\ IF kind = "enc" THEN EncStart ELSE NoEnc

Configs  == kind = "config" /\ ConfigNext
            /\ UNCHANGED <<kind, count, subj, native, files, cmd, made, fs, run, salts, turn>>
Converts == kind = "subject" /\ ConvertSubject
            /\ UNCHANGED <<kind, count, conf, fields, files, cmd, made, fs, run, salts, turn>>

Runs1(tool, args, env) ==
  /\ count < MaxCommands
  /\ Run(tool, args, env)
  /\ count' = count + 1
  /\ UNCHANGED <<kind, conf, fields, subj, native, fs, run, salts, turn>>

Earlier == /\ count < MaxCommands - 1
           /\ \/ kind = "tools" /\ \E c \in FirstCommands : Runs1(c[1], c[2], NoEnvironment)
              \/ /\ kind = "dhparam"
                 /\ \E bits \in {256, 512} :
                      Runs1("dhparam", << <<"-g", 3>>, <<"-out", <<"d">>>>, <<"bits", bits>> >>, NoEnvironment)
LastOne == \/ /\ kind = "tools" /\ count = MaxCommands - 1
              /\ \/ \E args \in GenpkeyCommands : Runs1("genpkey", args, NoEnvironment)
                 \/ \E args \in ReqCommands, env \in Environments : Runs1("req", args, env)
           \/ /\ kind = "dhparam" /\ count = MaxCommands - 1
              /\ \E args \in DhparamCommands : Runs1("dhparam", args, NoEnvironment)
           \/ /\ kind = "override" /\ count = 0
              /\ Runs1("req", Overriding, [MBEDTLS_CONF |-> "c1", OPENSSL_CONF |-> NULL])
           \/ kind = "crl" /\ count = 0 /\ \E args \in CrlCommands : Runs1("crl", args, NoEnvironment)
Steps   == ToolSteps /\ UNCHANGED <<kind, count, conf, fields, subj, native, fs, run, salts, turn>>

Ciphers == kind = "enc" /\ (Encrypts \/ DecryptsAgain \/ EncProceeds)
           /\ UNCHANGED <<kind, count, conf, fields, subj, native, files, cmd, made>>

Next == Configs \/ Converts \/ Earlier \/ LastOne \/ Steps \/ Ciphers

Spec == Init /\ [][Next]_vars
=============================================================================
