------------------------------ MODULE Subject ------------------------------
(***************************************************************************)
(* Subjects given on the command line: the OpenSSL form                    *)
(* "/type=value/type=value", its conversion, and the parser of the         *)
(* "type=value,type=value" form.  A subject is a sequence of characters,   *)
(* except that the name of an attribute type is one token.                 *)
(***************************************************************************)
EXTENDS Pointers, Strings, SequencesExt

\* x509_attrs, as many of its entries as the model uses.
Types == {"CN", "emailAddress", "O", "OU", "L", "ST", "C"}

\* Mutant: backslashes are not escaped again.
EscapeComma(c) == IF c = "," THEN <<"\\", c>> ELSE <<c>>

\* A character of a value in the native form.
Escape(c) == IF c \in {",", "\\"} THEN <<"\\", c>> ELSE <<c>>

\* convert_openssl_subj_to_mbedtls_subj(); NULL if the subject is malformed.
Convert(s) ==
  LET n == Len(s)
      value[i \in 1 .. n + 1] ==    \* a value from i on, and where it stops
        IF i > n \/ s[i] = "/" THEN [text |-> <<>>, stop |-> i]
        ELSE LET j    == IF s[i] = "\\" /\ i < n THEN i + 1 ELSE i
                 rest == value[j + 1]
             IN [text |-> Escape(s[j]) \o rest.text, stop |-> rest.stop]
      field[i \in 1 .. n + 2] ==    \* all fields from i on
        IF i > n THEN <<>>
        ELSE LET eq   == Find(s, i, {"=", "/"})
                 v    == value[eq + 1]
                 rest == field[v.stop + 1]
             IN IF eq > n \/ s[eq] # "=" \/ eq = i THEN NULL
                ELSE IF rest = NULL THEN NULL
                ELSE (IF i > 2 THEN <<",">> ELSE <<>>)
                     \o SubSeq(s, i, eq) \o v.text \o rest
  IN field[2]

\* parse_attribute_value_string(); NULL on an escape RFC 4514 does not know.
\* (Escapes by two hexadecimal digits and numeric types are left out: no
\* character used here is a digit.)
AttributeValue(s) ==
  LET rest[i \in 1 .. Len(s) + 1] ==
        IF i > Len(s) THEN <<>>
        ELSE LET j == IF s[i] = "\\" THEN i + 1 ELSE i
                 r == rest[j + 1]
             IN IF j > i /\ (j > Len(s) \/ s[j] \notin {" ", ",", "=", "+", "<", ">", "#", ";", "\"", "\\"})
                THEN NULL
                ELSE IF r = NULL THEN NULL ELSE <<s[j]>> \o r
  IN rest[1]

\* mbedtls_x509_string_to_names(): the attributes by type (a type that occurs
\* again replaces the first), or NULL.  A value that starts with "#" must be
\* hexadecimal, which none is here.
StringToNames(s) ==
  LET n == Len(s)
      spaces[c \in 1 .. n + 1] == IF c < n /\ s[c + 1] = " " THEN spaces[c + 1] ELSE c
      scan[c \in 1 .. n + 3, from \in 1 .. n + 3, type \in Types \union {NULL}] ==
        IF c > n + 1 THEN <<>>
        ELSE IF type = NULL /\ c <= n /\ s[c] = "="
        THEN IF c = from + 1 /\ s[from] \in Types THEN scan[c + 1, c + 1, s[from]] ELSE NULL
        ELSE IF type # NULL /\ (c = n + 1 \/ (s[c] = "," /\ s[c - 1] # "\\"))
        THEN LET v    == AttributeValue(SubSeq(s, from, c - 1))
                 next == IF c <= n THEN spaces[c] + 1 ELSE c + 1
                 rest == scan[next, next, NULL]
             IN IF from = c \/ s[from] = "#" THEN NULL
                ELSE IF v = NULL \/ rest = NULL THEN NULL ELSE <<<<type, v>>>> \o rest
        ELSE scan[c + 1, from, type]
      list == scan[1, 1, NULL]
  IN IF list = NULL \/ list = <<>> THEN NULL
     ELSE [t \in {list[i][1] : i \in DOMAIN list} |->
             LET last == CHOOSE i \in DOMAIN list :
                           list[i][1] = t /\ \A j \in DOMAIN list : list[j][1] = t => j <= i
             IN list[last][2]]

\* mbedtls_x509_dn_gets(): the attributes as text again, in some order.
DnGets(names) ==
  LET Special(c) == c \in {",", "=", "+", "<", ">", ";", "\"", "\\"}
      Printed(v) == FlattenSeq([i \in DOMAIN v |->
                      IF Special(v[i]) \/ (i = 1 /\ v[i] \in {"#", " "}) THEN <<"\\", v[i]>> ELSE <<v[i]>>])
      types == SetToSeq(DOMAIN names)
  IN FlattenSeq([k \in DOMAIN types |->
       (IF k > 1 THEN <<",", " ">> ELSE <<>>) \o <<types[k], "=">> \o Printed(names[types[k]])])
=============================================================================
