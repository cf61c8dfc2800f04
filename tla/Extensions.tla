----------------------------- MODULE Extensions -----------------------------
(***************************************************************************)
(* How "req -x509" turns the extension fields of its configuration into    *)
(* the extensions of a certificate.  ("ca" has the same loops.)  A value   *)
(* is a sequence of tokens; "CA:" and "pathlen:" are tokens of their own.  *)
(***************************************************************************)
EXTENDS Pointers, Strings, SequencesExt

\* to_lowercase(), on the spellings used.
Lower(token) ==
  CASE token = "TRUE" -> "true"
    [] token = "digitalSignature" -> "digitalsignature"
    [] token = "keyCertSign" -> "keycertsign"
    [] token = "cRLSign" -> "crlsign"
    [] OTHER -> token

Items(value) ==
  LET pieces == Split(value, {","}, -1, FALSE)
  IN [i \in DOMAIN pieces |-> [j \in DOMAIN Trim(pieces[i]) |-> Lower(Trim(pieces[i])[j])]]

\* Basic constraints: a value that names neither makes an authority.
BasicConstraints(value) ==
  FoldLeft(LAMBDA acc, item :
             IF Contains(item, "CA:") THEN [acc EXCEPT !.ca = item = <<"CA:", "true">>]
             ELSE IF Contains(item, "pathlen:") THEN [acc EXCEPT !.pathlen = Tail(item)]
             ELSE acc,
           [ca |-> TRUE, pathlen |-> NULL], Items(value))

\* Whether a subject key identifier is written: "hash" and "none" switch it.
SubjectKeyIdentifier(value) ==
  FoldLeft(LAMBDA acc, item : IF item = <<"hash">> THEN TRUE
                              ELSE IF item = <<"none">> THEN FALSE ELSE acc,
           TRUE, Items(value))

\* Whether an authority key identifier is written.
AuthorityKeyIdentifier(value) ==
  FoldLeft(LAMBDA acc, item :
             IF Contains(item, "keyid") \/ Contains(item, "issuer") THEN TRUE
             ELSE IF Contains(item, "none") THEN FALSE ELSE acc,
           FALSE, Items(value))

\* The bits of the key usage and of the Netscape certificate type.
KeyUsages == {"digitalsignature", "nonrepudiation", "keyencipherment", "dataencipherment",
              "keyagreement", "keycertsign", "crlsign"}
NsCertTypes == {"client", "server", "email", "objsign", "sslca", "emailca", "objca"}
Bits(value, known) == {u \in known : \E i \in DOMAIN Items(value) : Items(value)[i] = <<u>>}

\* The extensions the certificate gets, each only if its field is set.  The
\* field of the extended key usage is never written.
Written(params) ==
  LET Set(f) == params[f] # NULL
      names  == {f \in {"basicConstraints", "keyUsage", "nsCertType"} : Set(f)}
                \union {f \in {"subjectKeyIdentifier"} : Set(f) /\ SubjectKeyIdentifier(params[f])}
                \union {f \in {"authorityKeyIdentifier"} : Set(f) /\ AuthorityKeyIdentifier(params[f])}
  IN [f \in names |-> CASE f = "basicConstraints" -> BasicConstraints(params[f])
                       [] f = "keyUsage"         -> Bits(params[f], KeyUsages)
                       [] f = "nsCertType"       -> Bits(params[f], NsCertTypes)
                       [] OTHER                  -> NULL]
=============================================================================
