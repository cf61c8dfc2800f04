------------------------------ MODULE CAProps ------------------------------
(***************************************************************************)
(* What the certificate authority should guarantee, stated over CA.        *)
(***************************************************************************)
EXTENDS CA

IndexFiles  == Seq(Entries) \union {NoFile}
AttrFiles   == Seq(AttrValues) \union {NoFile}
SerialFiles == Seq(Nat) \union {NoFile}
CrlFiles    == Seq(SUBSET CrlItems) \union {NoFile}

\* Every variable holds a value of its kind: the files hold lines of their own
\* format, and only a process that runs has a command, a run number and memory.
TypeOK ==
  /\ clock \in Nat /\ faults \in Nat /\ runs \in 0 .. MaxRuns
  /\ result \in [1 .. MaxRuns -> {"running", "success", "failure", "killed"}]
  /\ disk \in [index  : IndexFiles,  indexOld  : IndexFiles,
               attr   : AttrFiles,   attrOld   : AttrFiles,
               serial : SerialFiles, serialOld : SerialFiles,
               crl    : CrlFiles]
  /\ certs \subseteq [run : 1 .. MaxRuns, serial : Nat, dn : Names, expiry : Nat]
  /\ revs \subseteq [run : 1 .. MaxRuns, serial : Nat, year : Nat]
  /\ pc \in [Procs -> PCs]
  /\ op \in [Procs -> {"none", "sign", "revoke", "gencrl"}]
  /\ run \in [Procs -> 0 .. MaxRuns]
  /\ cert \in [Procs -> Certs]
  /\ mem \in [Procs -> Seq(Entries)]
  /\ uniq \in [Procs -> AttrValues]
  /\ fd \in [Procs -> FileNames \union {"none"}]
----------------------------------------------------------------------------
(* Words of the properties *)

Succeeded(n) == result[n] = "success"

\* The certificates whose run told its caller that all went well.
Issued == {c \in certs : Succeeded(c.run)}

\* The revocations acknowledged likewise.
Revocations == {r \in revs : Succeeded(r.run)}

RecordOf(e, c) == ~Torn(e) /\ e.serial = c.serial /\ e.dn = c.dn /\ e.expiry = TwoDigits(c.expiry)

\* What repeated cuts and rewrites can make of the line of a certificate.
TracesTo(e, c) ==
  /\ e.expiry = TwoDigits(c.expiry)
  /\ \/ e.serial = c.serial /\ e.dn \in Beginnings[c.dn]
     \/ e.serial = NoSerial /\ e.revoked = NoDate /\ e.dn = Unknown

Records(f, c) == f # NoFile /\ \E i \in DOMAIN f : RecordOf(f[i], c)

Revokes(f, s) == f # NoFile /\ \E i \in DOMAIN f : /\ ~Torn(f[i]) /\ f[i].serial = s
                                                   /\ f[i].revoked # NoDate

\* Nothing that was acknowledged is missing from a database file.
Complete(f, cs, rs) ==
  /\ f # NoFile
  /\ \A c \in cs : Records(f, c)
  /\ \A r \in rs : Revokes(f, r.serial)

\* A process ends with exit code 0 in this step.
Ends(p) == pc[p] # "idle" /\ pc'[p] = "idle" /\ result'[run[p]] = "success"
----------------------------------------------------------------------------
(* With any number of processes, crashes and failing calls *)

\* rename() hands the database from one rewriting process to the next: no two
\* processes are between rename() and fopen() on the same file, the name is
\* free for the one that is, and no two descriptors reach the same database
\* or attribute file, although nothing locks them
\* (write_database_old_new, write_database_attr_old_new).
OneRewriter ==
  /\ \A p \in Procs : pc[p] = "createIndex" => disk.index = NoFile
  /\ \A p \in Procs : pc[p] = "createAttr" => disk.attr = NoFile
  /\ \A p, q \in Procs : p # q =>
       /\ pc[p] = pc[q] => pc[p] \notin {"createIndex", "createAttr"}
       /\ fd[p] = fd[q] => fd[p] \notin {"index", "indexOld", "attr", "attrOld"}

\* Every line of the database and of its backup, and every entry a process
\* holds, goes back to a certificate that was really signed.  Commands that
\* fail, die half way, or read a file another one is still writing lose lines
\* and lose ends of lines, and the rewrites after them make whole lines of what
\* is left (ca.c:688-720, 163-169); but what such a line says is true: it has
\* the expiry date of a certificate, and either its serial with its subject or
\* a beginning of it, or no serial at all.
NoPhantom ==
  \A m \in {mem[p] : p \in Procs} \union ({disk.index, disk.indexOld} \ {NoFile}) :
    \A i \in DOMAIN m : Torn(m[i]) \/ \E c \in certs : TracesTo(m[i], c)

\* Whatever commands overlap or die, a CRL accuses no certificate that no
\* -revoke command named, and dates the revocation in the year it happened.
CrlSound ==
  disk.crl # NoFile =>
    \A n \in DOMAIN disk.crl : disk.crl[n] \subseteq
      {[serial |-> r.serial, year |-> r.year] : r \in revs}

\* A database name that is free while it is being replaced is taken again,
\* whatever the commands that meet the missing file do (they fail).
IndexComesBack == disk.index = NoFile ~> disk.index # NoFile
----------------------------------------------------------------------------
(* With one command at a time, which may crash or meet failing calls *)

\* Two certificates that were both acknowledged have different serials, and
\* no serial has two lines: a command that wrote its certificate and failed
\* before it advanced the serial file is the only one whose serial comes back.
SerialsDistinct ==
  /\ \A c, d \in Issued : c.serial = d.serial => c = d
  /\ disk.index # NoFile =>
       \A i, j \in DOMAIN disk.index :
         disk.index[i].serial = disk.index[j].serial => i = j \/ disk.index[i].serial = NoSerial

\* The first thing that goes wrong, at whatever step, leaves a database file
\* (index.txt or index.txt.old) with everything acknowledged before it.
BackupKept ==
  [][faults = 0 => \E f \in {"index", "indexOld"} : Complete(disk'[f], Issued, Revocations)]_vars
----------------------------------------------------------------------------
(* With one command at a time and no fault *)

\* A command that exits with 0 has recorded what it did in index.txt: the
\* certificate it signed, or the revocation (ca.c: exit_code, ret).
SuccessRecorded ==
  [][\A p \in Procs : Ends(p) =>
       /\ op[p] = "sign" => Records(disk'.index, cert[p])
       /\ op[p] = "revoke" => Revokes(disk'.index, cert[p].serial)]_vars

\* docs/ca.md: -revoke "marks the given certificate's database entry as
\* revoked (R)".
RevokedIsMarkedR ==
  [][\A p \in Procs : Ends(p) /\ op[p] = "revoke" =>
       \E i \in DOMAIN disk'.index : /\ disk'.index[i].serial = cert[p].serial
                                     /\ disk'.index[i].status = "R"]_vars

\* tests/cases/ca/03: the line of a certificate just signed says V, when the
\* certificate has not expired.
SignedIsMarkedV ==
  [][\A p \in Procs : Ends(p) /\ op[p] = "sign" /\ cert[p].expiry >= clock =>
       \E i \in DOMAIN disk'.index : /\ RecordOf(disk'.index[i], cert[p])
                                     /\ disk'.index[i].status = "V"]_vars
=============================================================================
