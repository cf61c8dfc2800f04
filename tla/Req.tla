-------------------------------- MODULE Req --------------------------------
(***************************************************************************)
(* "req": certificate requests and self-signed certificates, over the file *)
(* system of Genpkey, from the command line and a configuration file.      *)
(*                                                                         *)
(* A command is a record: its arguments and environment, what was made of  *)
(* them so far, and "pc", the step that comes next.                        *)
(***************************************************************************)
EXTENDS Config, Subject, Extensions, Genpkey

CONSTANTS
  ConfFiles    \* path -> lines, the configuration files there are

Digests == {<<"sha256">>, <<"sha1">>}

----------------------------------------------------------------------------
(* The command line. *)

ReqDefaults ==
  [bad |-> NULL, new |-> FALSE, in |-> NULL, x509 |-> FALSE, version |-> 3, days |-> NULL,
   serial |-> NULL, config |-> NULL, subject |-> NULL, key |-> NULL, newkey |-> NULL,
   keyout |-> NULL, out |-> NULL, form |-> "PEM", noout |-> FALSE, digest |-> NULL]

\* One argument of req_main(); "bad" keeps the first reason to stop.  Anything
\* that is not an option is tried as a digest, once.
ReqArgument(opt, arg) ==
  LET flag  == arg[1]
      value == arg[2]
      Usage == [opt EXCEPT !.bad = "usage"]
      Unless(clash, new) == IF clash THEN Usage ELSE new
  IN IF opt.bad # NULL THEN opt ELSE
     CASE flag = "-help" -> [opt EXCEPT !.bad = "help"]
       [] flag \in {"-batch", "-utf8", "-nodes", "-noenc", "-text", "-passin"} -> opt
       [] flag = "-new"    -> Unless(opt.in # NULL, [opt EXCEPT !.new = TRUE])
       [] flag = "-in"     -> Unless(opt.new, [opt EXCEPT !.in = value])
       [] flag = "-x509"   -> [opt EXCEPT !.x509 = TRUE]
       [] flag = "-x509v1" -> [opt EXCEPT !.x509 = TRUE, !.version = 1]
       [] flag = "-days"   -> [opt EXCEPT !.days = value]
       [] flag = "-set_serial" -> [opt EXCEPT !.serial = value]
       [] flag = "-config" -> [opt EXCEPT !.config = value]
       [] flag = "-subj"   ->
            LET s == IF value[1] = "/" THEN Convert(value) ELSE value
            IN Unless(s = NULL, [opt EXCEPT !.subject = s])
       [] flag = "-key"    -> Unless(opt.newkey # NULL, [opt EXCEPT !.key = value])
       [] flag = "-newkey" -> Unless(opt.key # NULL, [opt EXCEPT !.newkey = value])
       [] flag = "-keyout" -> [opt EXCEPT !.keyout = value]
       [] flag = "-out"    -> [opt EXCEPT !.out = value]
       [] flag = "-outform" -> Unless(value \notin {"PEM", "DER"}, [opt EXCEPT !.form = value])
       [] flag = "-noout"  -> [opt EXCEPT !.noout = TRUE]
       [] OTHER -> Unless(opt.digest # NULL \/ value \notin Digests, [opt EXCEPT !.digest = value])

ReqOptions(args) ==
  LET opt == FoldLeft(ReqArgument, ReqDefaults, args)
  IN IF opt.bad = NULL /\ opt.out = NULL /\ opt.in = NULL THEN [opt EXCEPT !.bad = "usage"]
     ELSE opt

\* The environment decides before the command line.
ConfFile(env, config) ==
  IF env.MBEDTLS_CONF # NULL THEN env.MBEDTLS_CONF
  ELSE IF env.OPENSSL_CONF # NULL THEN env.OPENSSL_CONF
  ELSE config

Parsed == [path \in DOMAIN ConfFiles |-> ParseCSR(ConfFiles[path])]

\* The subject strung together from the defaults of the configuration.
DefaultSubject(params) ==
  LET Part(prefix, f) == IF params[f] = NULL THEN <<>> ELSE prefix \o params[f]
  IN Part(<<"CN", "=">>, "commonName_default")
     \o Part(<<",", "emailAddress", "=">>, "emailAddress_default")
     \o Part(<<",", "O", "=">>, "0.organizationName_default")
     \o Part(<<",", "OU", "=">>, "organizationalUnitName_default")
     \o Part(<<",", "L", "=">>, "localityName_default")
     \o Part(<<",", "ST", "=">>, "stateOrProvinceName_default")
     \o Part(<<",", "C", "=">>, "countryName_default")

----------------------------------------------------------------------------
(* The steps of req_main(). *)

At(pc) == cmd.tool = "req" /\ cmd.pc = pc
GoTo(pc) == cmd' = [cmd EXCEPT !.pc = pc]
Exit(code) == cmd' = [cmd EXCEPT !.pc = "exit", !.code = code]
Usage == cmd' = [cmd EXCEPT !.pc = "exit", !.code = 1, !.usage = TRUE]
Untouched == UNCHANGED <<files, made>>
Opt == cmd.opt

ReqParsesOptions ==
  /\ At("start")
  /\ LET opt == ReqOptions(cmd.args)
     IN IF opt.bad = "help" THEN Exit(0)
        ELSE IF opt.bad = "usage" THEN Usage
        ELSE cmd' = [cmd EXCEPT !.pc = "config", !.opt = opt]
  /\ Untouched

\* Arguments are completed from the configuration: key file, digest, subject.
Completed(opt, params) ==
  LET Or(a, b) == IF a = NULL THEN b ELSE a
  IN [opt EXCEPT !.key = Or(@, params["default_keyfile"]), !.digest = Or(@, params["default_md"]),
                 !.subject = Or(@, IF params["commonName_default"] = NULL THEN NULL
                                   ELSE DefaultSubject(params))]

Proceeds(opt, params) ==
  IF opt.key = NULL \/ opt.digest \notin Digests \/ opt.subject = NULL THEN Usage
  ELSE cmd' = [cmd EXCEPT !.opt = opt, !.params = params,
                          !.pc = IF opt.in # NULL THEN "show"
                                 ELSE IF opt.newkey # NULL THEN "newkey" ELSE "load"]

ReqReadsConfig ==
  /\ At("config")
  /\ LET path   == ConfFile(cmd.env, Opt.config)
         params == IF path = NULL THEN Unset("CSR") ELSE Parsed[path]
     IN IF path # NULL /\ path \notin DOMAIN ConfFiles THEN Exit(1)
        ELSE Proceeds(Completed(Opt, params), params)
  /\ Untouched

\* -in: the request is parsed, and printed unless -noout; nothing is written.
ReqShows ==
  /\ At("show")
  /\ Exit(IF Opt.in \in DOMAIN files /\ files[Opt.in].what = "csr" THEN 0 ELSE 1)
  /\ Untouched

\* The arguments -newkey hands to genpkey_main().
NewkeyAllowed ==
  /\ ~Opt.noout /\ Opt.keyout # NULL
  /\ Len(Opt.newkey) = 2 /\ Opt.newkey[1] = "rsa" /\ BitsAllowed(Opt.newkey[2])

\* What genpkey_main() returns is not looked at.
ReqGeneratesKey ==
  /\ At("newkey")
  /\ IF NewkeyAllowed
     THEN \E g \in Genpkey(<< <<"-algorithm", "rsa">>,
                              <<"-pkeyopt", <<"rsa_keygen_bits", Opt.newkey[2]>>>>,
                              <<"-out", Opt.keyout>> >>) :
            /\ files' = g.files /\ made' = g.made
            /\ cmd' = [cmd EXCEPT !.opt.key = Opt.keyout, !.lost = g.lost, !.pc = "load"]
     ELSE Usage /\ Untouched

\* Seeding, the check of the subject, and the key.
ReqLoadsKey ==
  /\ At("load")
  /\ \/ "entropy" \in Faults /\ Exit(1)
     \/ LET names == StringToNames(Opt.subject)
        IN IF names = NULL \/ Opt.key \notin DOMAIN files \/ files[Opt.key].what # "key"
           THEN Exit(1)
           ELSE cmd' = [cmd EXCEPT !.names = names, !.key = files[Opt.key].id,
                                   !.pc = IF Opt.noout THEN "certify" ELSE "request"]
  /\ Untouched

Request == [what |-> "csr", key |-> cmd.key, names |-> cmd.names, digest |-> Opt.digest,
            form |-> Opt.form]

\* write_certificate_request_buffer() ends without a return statement: what
\* its caller compares with 0 may be negative although all went well.
ReqWritesRequest ==
  /\ At("request")
  /\ \/ "undefined" \in Faults /\ Exit(1) /\ UNCHANGED files
     \/ \E s \in Saved(Opt.out, Request) :
          /\ files' = s.files
          /\ IF s.ok THEN cmd' = [cmd EXCEPT !.pc = "certify", !.lost = cmd.lost \/ s.lost] ELSE Exit(1)
  /\ UNCHANGED made

\* Mutant: a Netscape type alone does not make it a version 3 certificate.
PromotesLess(params) ==
  \E f \in ExtensionFields \ {"nsCertType"} : params[f] # NULL

\* A version 1 certificate is promoted if any extension is configured.
Promotes(params) == \E f \in ExtensionFields : params[f] # NULL

Version == IF Opt.version = 1 /\ Promotes(cmd.params) THEN 3 ELSE Opt.version

DaysAllowed(days) == days > 0

\* The certificate is built from the request, parsed again from memory; the
\* parser is given one byte more than the request, which only the PEM form has.
ReqCertifies ==
  /\ At("certify")
  /\ LET days  == IF Opt.days = NULL THEN 365 ELSE Opt.days
         names == StringToNames(DnGets(cmd.names))
         fails == Opt.form = "DER" \/ Opt.serial = "malformed" \/ names = NULL
     IN \/ ~Opt.x509 /\ Exit(0)
        \/ Opt.x509 /\ (fails \/ "undefined" \in Faults) /\ Exit(1)
        \/ /\ Opt.x509 /\ ~fails
           /\ IF ~DaysAllowed(days) THEN Usage
              ELSE cmd' = [cmd EXCEPT !.names = names, !.pc = IF Opt.noout THEN "done" ELSE "certificate",
                             !.crt = [what |-> "crt", key |-> cmd.key, names |-> names,
                                      digest |-> Opt.digest, days |-> days, form |-> "PEM",
                                      serial |-> IF Opt.serial = NULL THEN "random" ELSE Opt.serial,
                                      version |-> Version,
                                      extensions |-> IF Version = 3 THEN Written(cmd.params) ELSE <<>>]]
  /\ Untouched

\* The certificate replaces the request in the same file.
ReqWritesCertificate ==
  /\ \/ At("done") /\ Exit(0) /\ UNCHANGED files
     \/ /\ At("certificate")
        /\ \E s \in Saved(Opt.out, cmd.crt) :
             /\ files' = s.files
             /\ cmd' = [cmd EXCEPT !.pc = "exit", !.code = IF s.ok THEN 0 ELSE 1,
                                   !.lost = cmd.lost \/ s.lost]
  /\ UNCHANGED made

ReqNext == ReqParsesOptions \/ ReqReadsConfig \/ ReqShows \/ ReqGeneratesKey \/ ReqLoadsKey
           \/ ReqWritesRequest \/ ReqCertifies \/ ReqWritesCertificate

----------------------------------------------------------------------------

Idle == [tool |-> "none", pc |-> "exit", code |-> 0]

Begin(tool, args, env) ==
  [tool |-> tool, args |-> args, env |-> env, pc |-> "start", code |-> NULL, usage |-> FALSE,
   lost |-> FALSE, before |-> files, made |-> made, opt |-> ReqDefaults,
   params |-> NULL, names |-> NULL, key |-> NULL, crt |-> NULL]

\* One command after the other, none before the last one ended.
Run(tool, args, env) == cmd.pc = "exit" /\ cmd' = Begin(tool, args, env) /\ Untouched

\* A command is killed between two steps.
Killed == cmd.pc # "exit" /\ cmd' = [Idle EXCEPT !.code = 1] /\ Untouched
=============================================================================
