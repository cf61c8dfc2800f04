---------------------------- MODULE SubjectCalls ----------------------------
(***************************************************************************)
(* What becomes of a subject given in the OpenSSL form.                    *)
(***************************************************************************)
EXTENDS Subject

CONSTANTS
  Subjects   \* subjects tried, each beginning with "/"

VARIABLES
  subj,     \* the argument of -subj
  native    \* what it was converted to, one sequence or none

bvars == <<subj, native>>

SubjectInit == subj \in Subjects /\ native = <<>>

ConvertSubject == native = <<>> /\ native' = <<Convert(subj)>> /\ UNCHANGED subj

----------------------------------------------------------------------------

\* A character is taken literally when an odd number of backslashes precede it.
Escaped(s, i) ==
  LET run[j \in 0 .. Len(s)] == IF j = 0 \/ s[j] # "\\" THEN 0 ELSE 1 + run[j - 1]
  IN run[i - 1] % 2 = 1

\* The fields: the spans between unescaped slashes.
Spans(s) ==
  LET slash == {i \in DOMAIN s : s[i] = "/" /\ ~Escaped(s, i)} \union {Len(s) + 1}
  IN {r \in slash \X slash : r[1] + 1 < r[2] /\ \A i \in slash : ~(r[1] < i /\ i < r[2])}

FieldType(s, r) == s[r[1] + 1]

\* The value of a field in the convention of tests/KNOWN_DIFFERENCES.md:35-45, where a
\* backslash takes the next character literally: every character that is no such backslash.
\* (OpenSSL reads a single backslash so, and two or more in a row in another way.)
FieldValue(s, r) ==
  LET kept == {i \in r[1] + 3 .. r[2] - 1 : s[i] # "\\" \/ Escaped(s, i) \/ i = Len(s)}
      at[k \in Nat] == CHOOSE i \in kept : Cardinality({j \in kept : j <= i}) = k
  IN [k \in 1 .. Cardinality(kept) |-> s[at[k]]]

\* Each field has a known type and a value.  Two kinds of value are left out
\* because the native form cannot carry them past its parser: one that starts
\* with "#" is read as hexadecimal, and after one that ends with a backslash
\* the separating comma counts as escaped (it looks back one character only).
WellFormed(s) ==
  /\ Spans(s) # {}
  /\ \A i \in 1 .. Len(s) - 1 : ~(s[i] = "/" /\ s[i + 1] = "/" /\ ~Escaped(s, i))
  /\ \A r \in Spans(s) :
       /\ r[2] > r[1] + 2 /\ FieldType(s, r) \in Types /\ s[r[1] + 2] = "="
       /\ FieldValue(s, r) # <<>>
       /\ FieldValue(s, r)[1] # "#"
       /\ FieldValue(s, r)[Len(FieldValue(s, r))] # "\\"

\* No type occurs twice: the native form keeps the last one only, so /O=a/O=b loses a field.
Proper(s) ==
  WellFormed(s) /\ \A r, q \in Spans(s) : FieldType(s, r) = FieldType(s, q) => r = q

\* A proper subject reaches the request with all its fields and exactly the values its
\* escapes stand for, whatever commas, slashes, equal signs and backslashes they contain,
\* and the conversion fits its buffer of 2 * strlen + 1
\* (convert_openssl_subj_to_mbedtls_subj() and mbedtls_x509_string_to_names()).
SubjectRoundTrip ==
  native # <<>> =>
    /\ native[1] # NULL => Len(native[1]) <= 2 * Len(subj)
    /\ Proper(subj) =>
         /\ native[1] # NULL
         /\ LET names  == StringToNames(native[1])
                given  == {<<FieldType(subj, r), FieldValue(subj, r)>> : r \in Spans(subj)}
            IN names # NULL /\ {<<t, names[t]>> : t \in DOMAIN names} = given
=============================================================================
