------------------------------ MODULE MCConfig ------------------------------
(***************************************************************************)
(* Configuration files the parser does not read as the documentation says. *)
(***************************************************************************)
EXTENDS ConfigCalls

Tag(name) == <<"[", " ", name, " ", "]">>
Line(field, value) == <<field, " ", "=", " ">> \o value

NoFiles == {}

\* Each field of the section "def" is read in another way than the documentation
\* says: an assignment that is commented out, a value with a "=", one with quotes
\* inside, and, in "ext", a field that the section for CRLs sets too.
AllDifferences ==
  { << << Tag("ca"), Line("default_ca", <<"def">>),
          Tag("def"), Line("default_md", <<"sha256">>),
          <<"#", " ">> \o Line("default_md", <<"sha1">>),
          Line("dir", <<"a", "=", "b">>), Line("certificate", <<"a", "\"", "b", "\"">>),
          Line("x509_extensions", <<"ext">>), Line("crl_extensions", <<"crl">>),
          Tag("ext"), Line("authorityKeyIdentifier", <<"keyid", ",", "issuer">>),
          Tag("crl"), Line("authorityKeyIdentifier", <<"keyid">>) >>, <<>> >> }
=============================================================================
