------------------------------- MODULE Config -------------------------------
(***************************************************************************)
(* The configuration and extension files "req" and "ca" read.              *)
(*                                                                         *)
(* A line is a sequence of tokens: a word, or one of the characters the    *)
(* parser looks at.  A file is the lines get_file_lines() returns, which   *)
(* are never empty; an assignment a field receives is such a sequence too. *)
(***************************************************************************)
EXTENDS Pointers, Strings

\* The members of conf_req_csr_parameters and conf_req_crt_parameters, by the
\* name a file gives them and the section they are read from.
ReqFields == {"default_keyfile", "default_md", "distinguished_name", "x509_extensions"}
NameFields == {"countryName_default", "stateOrProvinceName_default", "localityName_default",
               "0.organizationName_default", "organizationalUnitName_default",
               "commonName_default", "emailAddress_default", "serialNumber_default"}
ExtensionFields == {"subjectKeyIdentifier", "authorityKeyIdentifier", "basicConstraints",
                    "keyUsage", "extendedKeyUsage", "nsCertType"}
CAFields == {"dir", "certs", "crl_dir", "database", "new_certs_dir", "certificate", "serial",
             "crl", "private_key", "x509_extensions", "crl_extensions", "default_days",
             "default_crl_days", "default_md", "preserve", "unique_subject", "policy"}

\* initialise_conf_req_csr_parameters() and initialise_conf_req_crt_parameters()
Unset(reqtype) ==
  [f \in ExtensionFields \union (IF reqtype = "CSR" THEN ReqFields \union NameFields
                                                    ELSE {"default_ca"} \union CAFields) |-> NULL]

IsTag(line) == line # <<>> /\ line[1] = "["

\* The tag line names the section wanted.
Names(line, needle) ==
  LET pieces == Split(line, {"[", "]", "#"}, 1, FALSE)
  IN Len(pieces) = 1 /\ Trim(pieces[1]) = needle

\* locate_tag(): the first section of that name, and the tag line that ends
\* it, or the last line of the file.
LocateTag(lines, needle) ==
  LET n == Len(lines)
      first[i \in 1 .. n + 1] ==
        IF i > n \/ (IsTag(lines[i]) /\ Names(lines[i], needle)) THEN i ELSE first[i + 1]
      next[i \in 1 .. n + 1] == IF i >= n THEN n ELSE IF IsTag(lines[i]) THEN i ELSE next[i + 1]
  IN IF first[1] > n THEN NULL
     ELSE [start |-> first[1], end |-> next[first[1] + 1]]

\* Mutant: the last line of the range is left out.
LocateValueShort(lines, range, needle, old) ==
  LET value[i \in 0 .. range.end] ==
        IF i < range.start THEN old
        ELSE LET pair == Split(lines[i], {"=", "#"}, 2, FALSE)
             IN IF Len(pair) = 2 /\ Trim(pair[1]) = <<needle>>
                THEN Replace(Trim(pair[2]), <<"\"">>, <<>>) ELSE value[i - 1]
  IN value[range.end - 1]

\* locate_value() with "keepsearching", its only use: the last assignment in
\* the range, both ends included, replaces the value the field had.
LocateValue(lines, range, needle, old) ==
  LET value[i \in 0 .. range.end] ==    \* the field after lines start .. i
        IF i < range.start THEN old
        ELSE LET pair == Split(lines[i], {"=", "#"}, 2, FALSE)
             IN IF Len(pair) = 2 /\ Trim(pair[1]) = <<needle>>
                THEN Replace(Trim(pair[2]), <<"\"">>, <<>>) ELSE value[i - 1]
  IN value[range.end]

\* locate_value() for each of the fields; parse_x509_extensions() is this for
\* ExtensionFields.
Fill(params, lines, range, fields) ==
  [f \in DOMAIN params |-> IF f \in fields THEN LocateValue(lines, range, f, params[f])
                                           ELSE params[f]]

\* A section that is named and not found is only warned about.
FillIn(params, lines, range, fields) ==
  IF range = NULL THEN params ELSE Fill(params, lines, range, fields)
FillFrom(params, lines, tag, fields) ==
  FillIn(params, lines, IF tag = NULL THEN NULL ELSE LocateTag(lines, tag), fields)

\* A section that a field names.
FillBy(params, lines, field, fields) == FillFrom(params, lines, params[field], fields)

\* parse_config_file() for a request.
ParseCSR(lines) ==
  LET req   == FillFrom(Unset("CSR"), lines, <<"req">>, ReqFields)
      names == FillBy(req, lines, "distinguished_name", NameFields)
  IN FillBy(names, lines, "x509_extensions", ExtensionFields)

\* parse_config_file() for a certificate authority: the extensions of CRLs are
\* read into the fields of the extensions of certificates.
ParseCRT(lines) ==
  LET ca   == FillFrom(Unset("CRT"), lines, <<"ca">>, {"default_ca"})
      all  == FillBy(ca, lines, "default_ca", CAFields)
      cert == FillBy(all, lines, "x509_extensions", ExtensionFields)
  IN FillBy(cert, lines, "crl_extensions", ExtensionFields)

\* parse_config_file() for -extfile, into fields the configuration has filled:
\* the range goes one past the last line, to the NULL that ends the array and
\* that split_on_separators() takes for a line without pieces.
ParseExtFile(lines, params) ==
  Fill(params, Append(lines, <<>>), [start |-> 1, end |-> Len(lines) + 1], ExtensionFields)
=============================================================================
