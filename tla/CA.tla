-------------------------------- MODULE CA --------------------------------
(***************************************************************************)
(* The certificate authority of mbedtls-clu: the processes that run        *)
(* "mbedtls-clu ca" on one CA directory, and the files they share.         *)
(*                                                                         *)
(* Every invocation is a process of its own.  It reads the database and    *)
(* its attributes, does one of sign, -revoke and -gencrl, and rewrites the *)
(* files one system call at a time; nothing locks the directory, nothing   *)
(* rolls back.  An action is one step between two points at which another  *)
(* process, a failing call or a crash can be seen.                         *)
(*                                                                         *)
(* A file is NoFile or the sequence of its lines, so a file that has just  *)
(* been truncated is <<>>.                                                 *)
(***************************************************************************)
EXTENDS CADates, Sequences, FiniteSets

CONSTANTS
  Procs,        \* invocations that may be running at the same time
  Names,        \* what the subject column may hold; texts that read alike are one
  Subjects,     \* the names that mbedtls_x509_string_to_names() can read
  Beginnings,   \* of each name, what a cut can leave of it (itself included)
  Unknown,      \* the word "unknown" or a beginning of it, read as a name
  Lifetimes,    \* years a certificate may be valid for (-days, -enddate)
  Presented,    \* serials of the certificates given to -revoke
  FirstSerial,  \* what the serial file of a fresh CA holds
  InitAttr,     \* what index.txt.attr of a fresh CA may say
  CrlCapacity,  \* entries that fit the 100000-byte buffer of write_crl()
  Solo,         \* TRUE: a command is started only when no other one runs
  MaxRuns,      \* bound: commands started
  MaxFaults,    \* bound: crashes and failing file operations
  MaxClock,     \* bound: years that pass
  NoFile,       \* a file that does not exist
  NoDate,       \* the empty revocation date of an entry
  NoSerial      \* a serial column that holds no serial

\* unique_subject of index.txt.attr; "other" stands for a first line that
\* does not set it, which leaves ca_database.unique_subject NULL.
AttrValues == {"yes", "no", "other"}

Dates   == 0 .. Century - 1
Lines   == [status  : {"V", "R", "E", "torn"},
            expiry  : Dates,
            revoked : Dates \union {NoDate},
            serial  : Nat \union {NoSerial},
            dn      : Names]
\* Only a line whose columns were shifted has no serial; it has lost its
\* revocation date, which a line of status R has otherwise.
Entries == {e \in Lines : /\ e.serial = NoSerial => e.revoked = NoDate
                          /\ e.status = "R" /\ e.revoked = NoDate => e.serial = NoSerial}
CrlItems == [serial : Nat, year : Int]

ASSUME CAAssumption ==
  /\ Lifetimes \subseteq Nat /\ Presented \subseteq Nat /\ FirstSerial \in Nat
  /\ InitAttr \subseteq AttrValues /\ CrlCapacity \in Nat /\ Solo \in BOOLEAN
  /\ MaxRuns \in Nat /\ MaxFaults \in Nat /\ MaxClock \in Nat
  /\ Procs # {} /\ Subjects # {} /\ Subjects \subseteq Names
  /\ Unknown \in Names \ Subjects /\ NoSerial \notin Nat
  /\ Beginnings \in [Names -> SUBSET Names] /\ Beginnings[Unknown] = {Unknown}
  /\ \A d \in Names : d \in Beginnings[d]
  /\ \A d \in Names : \A b \in Beginnings[d] : Beginnings[b] \subseteq Beginnings[d]
  /\ NoFile \notin Seq(Entries) /\ NoFile \notin Seq(Nat)
  /\ NoFile \notin Seq(AttrValues) /\ NoFile \notin Seq(SUBSET CrlItems)
  /\ NoDate \notin Dates

VARIABLES
  clock,   \* the current year
  faults,  \* crashes and failing calls so far
  runs,    \* commands started so far; a command is known by its number
  result,  \* run number -> how the command ended
  disk,    \* the files of the CA directory and the CRL
  certs,   \* history: the certificates signed and written, with the run that did
  revs,    \* history: the serials each run marked as revoked in its memory
  pc, op, run, cert, mem, uniq,  \* of each process: see ca_main()
  fd       \* file a process has open for writing, "none" if none is reachable

env   == <<clock, faults, runs>>
past  == <<certs, revs>>
local == <<op, run, cert, mem, uniq>>
vars  == <<clock, faults, runs, result, disk, certs, revs,
           pc, op, run, cert, mem, uniq, fd>>

FileNames == {"index", "indexOld", "attr", "attrOld", "serial", "serialOld", "crl"}
PCs == {"idle", "readIndex", "readAttr", "lookup", "openCrl", "closeCrl",
        "readSerial", "checkUnique", "writeCert", "saveSerial", "openSerial",
        "closeSerial", "renameIndex", "createIndex", "closeIndex",
        "renameAttr", "createAttr", "closeAttr"}
Certs == [serial : Nat, dn : Names, expiry : Nat]
Blank == [serial |-> 0, dn |-> CHOOSE d \in Subjects : TRUE, expiry |-> 0]
----------------------------------------------------------------------------
(* The lines of index.txt *)

\* A line with fewer than five columns: the reader leaves all the fields of
\* its entry uninitialised.  Whoever uses one may be killed (DieOnTorn), or
\* finds in it nothing that the steps below look for.
TornLine == [status |-> "torn", expiry |-> 0, revoked |-> NoDate,
             serial |-> NoSerial, dn |-> Unknown]

Torn(e) == e.status = "torn"

HasTorn(m) == \E i \in DOMAIN m : Torn(m[i])

\* What the rewrite makes of an entry that is past its expiry date, whatever
\* status the entry had.
Refreshed(m, now) ==
  [i \in DOMAIN m |-> IF ~Torn(m[i]) /\ Expired(m[i].expiry, now)
                      THEN [m[i] EXCEPT !.status = "E"] ELSE m[i]]

\* The first entry strcmp() finds for a serial.
FirstMatch(m, s, i) ==
  /\ i \in DOMAIN m /\ ~Torn(m[i]) /\ m[i].serial = s
  /\ \A j \in 1 .. i - 1 : Torn(m[j]) \/ m[j].serial # s

\* Mutants: the expiry with its century; the serial that was written to the
\* serial file instead of the one in the certificate.
NewEntryLongYear(c) ==
  [status |-> "V", expiry |-> c.expiry, revoked |-> NoDate, serial |-> c.serial, dn |-> c.dn]
NewEntryNextSerial(c) ==
  [status |-> "V", expiry |-> TwoDigits(c.expiry), revoked |-> NoDate,
   serial |-> c.serial + 1, dn |-> c.dn]

\* The line of a certificate that was just signed.
NewEntry(c) ==
  [status |-> "V", expiry |-> TwoDigits(c.expiry), revoked |-> NoDate,
   serial |-> c.serial, dn |-> c.dn]

\* Mutant: the entry is stored but ca_database_count is not incremented.
RecordedUncounted(m, c) == m

Recorded(m, c) == Append(m, NewEntry(c))

\* Mutant: the serial file keeps the serial that was just used.
SameSerial(n) == n

NextSerial(n) == n + 1

\* Mutant: a revoked certificate no longer counts.
SubjectLives(m, d) == \E i \in DOMAIN m : m[i].status \in {"V", "E"} /\ m[i].dn = d

\* Some entry has this subject, revoked and expired ones included, or a
\* subject that cannot be read, which ends the command just the same.
SubjectTaken(m, d) ==
  \E i \in DOMAIN m : ~Torn(m[i]) /\ (m[i].dn = d \/ m[i].dn \notin Subjects)

\* The entries that go on a CRL, what it says of each, and the ones that have
\* lost their date to a shift, on which -gencrl calls strlen(NULL).
Listed(m)  == {i \in DOMAIN m : m[i].status = "R" /\ m[i].revoked # NoDate}
Undated(m) == {i \in DOMAIN m : m[i].status = "R" /\ m[i].revoked = NoDate}
CrlOf(m)  == {[serial |-> m[i].serial, year |-> StampYear(m[i].revoked)] : i \in Listed(m)}

\* What a cut of the line of e leaves, as the next reader sees it.  Inside the
\* last column it leaves a name that is shorter.  A line with a revocation
\* date has six columns; without the last one it looks like a line without a
\* date, so its date is read as the serial, its serial as the file name, and
\* the file name "unknown" as the subject.  Any other cut tears the line.
Cut(e) ==
  {TornLine} \union {[e EXCEPT !.dn = d] : d \in Beginnings[e.dn]} \union
  {[e EXCEPT !.revoked = NoDate, !.serial = NoSerial, !.dn = Unknown] :
     date \in {e.revoked} \ {NoDate}}

\* What can be in the file when only part of the lines of m was flushed.
Partial(m) ==
  {SubSeq(m, 1, k) : k \in 0 .. Len(m)} \union
  UNION {{Append(SubSeq(m, 1, k - 1), e) : e \in Cut(m[k])} : k \in 1 .. Len(m)}
----------------------------------------------------------------------------
(* Files and process control *)

\* fopen(f, "wb+"): an existing file is emptied, a missing one created.
Truncate(p, f) ==
  /\ disk' = [disk EXCEPT ![f] = <<>>]
  /\ fd' = [fd EXCEPT ![p] = f]

\* What fclose() flushes ends up in whatever file the descriptor reaches now.
Written(p, lines) == IF fd[p] = "none" THEN disk ELSE [disk EXCEPT ![fd[p]] = lines]

\* Mutant: the old file is removed, not moved.
Unlink(from, to) ==
  /\ disk' = [disk EXCEPT ![from] = NoFile]
  /\ fd' = [q \in Procs |-> IF fd[q] = from THEN "none" ELSE fd[q]]

\* rename(from, to): descriptors follow the file they were opened on, and
\* those of a replaced file reach no name any more.
Rename(from, to) ==
  /\ disk' = [disk EXCEPT ![to] = disk[from], ![from] = NoFile]
  /\ fd' = [q \in Procs |-> CASE fd[q] = from -> to
                              [] fd[q] = to   -> "none"
                              [] OTHER        -> fd[q]]

Goto(p, l) == /\ pc' = [pc EXCEPT ![p] = l]
              /\ UNCHANGED <<result, op, run>>

\* The process ends: its memory is gone and its descriptors are closed.
Exit(p, code) ==
  /\ result' = [result EXCEPT ![run[p]] = code]
  /\ pc'   = [pc EXCEPT ![p] = "idle"]
  /\ op'   = [op EXCEPT ![p] = "none"]
  /\ run'  = [run EXCEPT ![p] = 0]
  /\ cert' = [cert EXCEPT ![p] = Blank]
  /\ mem'  = [mem EXCEPT ![p] = <<>>]
  /\ uniq' = [uniq EXCEPT ![p] = "other"]
  /\ fd'   = [fd EXCEPT ![p] = "none"]

Fault   == faults < MaxFaults /\ faults' = faults + 1 /\ UNCHANGED <<clock, runs>>
NoFault == UNCHANGED env
----------------------------------------------------------------------------
Init ==
  /\ clock = 0 /\ faults = 0 /\ runs = 0
  /\ result = [n \in 1 .. MaxRuns |-> "running"]
  /\ \E a \in InitAttr :
       disk = [index  |-> <<>>,            indexOld  |-> NoFile,
               attr   |-> <<a>>,           attrOld   |-> NoFile,
               serial |-> <<FirstSerial>>, serialOld |-> NoFile,
               crl    |-> NoFile]
  /\ certs = {} /\ revs = {}
  /\ pc   = [p \in Procs |-> "idle"]
  /\ op   = [p \in Procs |-> "none"]
  /\ run  = [p \in Procs |-> 0]
  /\ cert = [p \in Procs |-> Blank]
  /\ mem  = [p \in Procs |-> <<>>]
  /\ uniq = [p \in Procs |-> "other"]
  /\ fd   = [p \in Procs |-> "none"]

\* A command line that passes the argument checks: the mode, the subject of
\* the request to sign, or the serial of the certificate to revoke (any
\* certificate can be presented, also one this CA never issued).
Invoke(p) ==
  /\ pc[p] = "idle"
  /\ runs < MaxRuns
  /\ Solo => \A q \in Procs : pc[q] = "idle"
  /\ runs' = runs + 1
  /\ run' = [run EXCEPT ![p] = runs + 1]
  /\ pc' = [pc EXCEPT ![p] = "readIndex"]
  /\ \/ \E d \in Subjects : /\ op' = [op EXCEPT ![p] = "sign"]
                            /\ cert' = [cert EXCEPT ![p] = [Blank EXCEPT !.dn = d]]
     \/ \E s \in Presented : /\ op' = [op EXCEPT ![p] = "revoke"]
                             /\ cert' = [cert EXCEPT ![p] = [Blank EXCEPT !.serial = s]]
     \/ op' = [op EXCEPT ![p] = "gencrl"] /\ UNCHANGED cert
  /\ UNCHANGED <<clock, faults, result, disk, certs, revs, mem, uniq, fd>>

\* get_file_lines() on the database: a missing file ends the command.
ReadIndex(p) ==
  /\ pc[p] = "readIndex"
  /\ \/ disk.index = NoFile /\ Exit(p, "failure")
     \/ /\ disk.index # NoFile
        /\ mem' = [mem EXCEPT ![p] = disk.index]
        /\ Goto(p, "readAttr")
        /\ UNCHANGED <<cert, uniq, fd>>
  /\ UNCHANGED <<env, disk, past>>

\* The attributes: only the first line is looked at, and an empty file has
\* none (strdup(filecontents[0]) of a NULL pointer).
ReadAttr(p) ==
  /\ pc[p] = "readAttr"
  /\ \/ disk.attr = NoFile /\ Exit(p, "failure")
     \/ disk.attr = <<>> /\ Exit(p, "killed")
     \/ /\ disk.attr \notin {NoFile, <<>>}
        /\ uniq' = [uniq EXCEPT ![p] = disk.attr[1]]
        /\ Goto(p, CASE op[p] = "revoke" -> "lookup"
                     [] op[p] = "gencrl" -> "openCrl"
                     [] op[p] = "sign"   -> "readSerial")
        /\ UNCHANGED <<cert, mem, fd>>
  /\ UNCHANGED <<env, disk, past>>

\* A certificate, request or key that cannot be loaded, a key that does not
\* match, a bad date: the command ends before it has changed anything.
Refuse(p) ==
  /\ pc[p] \in {"lookup", "openCrl", "readSerial", "checkUnique"}
  /\ Exit(p, "failure")
  /\ UNCHANGED <<env, disk, past>>

\* -revoke: the entry becomes R with today's date, whatever it was before.
Lookup(p) ==
  /\ pc[p] = "lookup"
  /\ \/ \E i \in DOMAIN mem[p] :
          /\ FirstMatch(mem[p], cert[p].serial, i)
          /\ mem' = [mem EXCEPT ![p] = [@ EXCEPT ![i].status  = "R",
                                                 ![i].revoked = TwoDigits(clock)]]
          /\ revs' = revs \union {[run |-> run[p], serial |-> cert[p].serial, year |-> clock]}
          /\ Goto(p, "renameIndex")
          /\ UNCHANGED <<cert, uniq, fd>>
     \/ /\ ~ \E i \in DOMAIN mem[p] : FirstMatch(mem[p], cert[p].serial, i)
        /\ Exit(p, "failure")
        /\ UNCHANGED revs
  /\ UNCHANGED <<env, disk, certs>>
----------------------------------------------------------------------------
(* -gencrl *)

\* The CRL is built in a buffer first; write_crl() opens the output only
\* when the buffer was large enough.
OpenCrl(p) ==
  /\ pc[p] = "openCrl"
  /\ \/ Undated(mem[p]) # {} /\ NoFault /\ Exit(p, "killed") /\ UNCHANGED disk
     \/ /\ Undated(mem[p]) = {}
        /\ Cardinality(Listed(mem[p])) <= CrlCapacity
        /\ NoFault
        /\ Truncate(p, "crl")
        /\ Goto(p, "closeCrl")
        /\ UNCHANGED <<cert, mem, uniq>>
     \/ /\ Undated(mem[p]) = {}
        /\ Cardinality(Listed(mem[p])) > CrlCapacity
        /\ NoFault /\ Exit(p, "failure") /\ UNCHANGED disk
     \/ Fault /\ Exit(p, "failure") /\ UNCHANGED disk
  /\ UNCHANGED past

\* A short fwrite() is an error; the result of fclose() is not looked at, so a
\* flush that fails is silent.
CloseCrl(p) ==
  /\ pc[p] = "closeCrl"
  /\ \/ NoFault /\ disk' = Written(p, <<CrlOf(mem[p])>>) /\ Exit(p, "success")
     \/ Fault /\ UNCHANGED disk /\ Exit(p, "success")
     \/ Fault /\ UNCHANGED disk /\ Exit(p, "failure")
  /\ UNCHANGED past
----------------------------------------------------------------------------
(* sign *)

\* The serial file; an empty one is a NULL pointer again.
ReadSerial(p) ==
  /\ pc[p] = "readSerial"
  /\ \/ disk.serial = NoFile /\ Exit(p, "failure")
     \/ disk.serial = <<>> /\ Exit(p, "killed")
     \/ /\ disk.serial \notin {NoFile, <<>>}
        /\ cert' = [cert EXCEPT ![p].serial = disk.serial[1]]
        /\ Goto(p, "checkUnique")
        /\ UNCHANGED <<mem, uniq, fd>>
  /\ UNCHANGED <<env, disk, past>>

\* The subject is compared with every entry, revoked and expired ones too,
\* when unique_subject is yes, and an entry whose subject cannot be read is an
\* error; when unique_subject was not set, strcmp() is handed NULL.
\* Then the validity is computed.
CheckUnique(p) ==
  /\ pc[p] = "checkUnique"
  /\ \/ uniq[p] = "other" /\ Exit(p, "killed")
     \/ /\ uniq[p] = "yes"
        /\ SubjectTaken(mem[p], cert[p].dn)
        /\ Exit(p, "failure")
     \/ /\ \/ uniq[p] = "no"
           \/ uniq[p] = "yes" /\ ~SubjectTaken(mem[p], cert[p].dn)
        /\ \E life \in Lifetimes : cert' = [cert EXCEPT ![p].expiry = clock + life]
        /\ Goto(p, "writeCert")
        /\ UNCHANGED <<mem, uniq, fd>>
  /\ UNCHANGED <<env, disk, past>>

\* write_certificate(): from here on the certificate is signed and in its
\* file, unless closing that file fails, which is not looked at.
WriteCert(p) ==
  /\ pc[p] = "writeCert"
  /\ \/ /\ NoFault \/ Fault
        /\ certs' = certs \union {[run |-> run[p], serial |-> cert[p].serial,
                                   dn |-> cert[p].dn, expiry |-> cert[p].expiry]}
        /\ Goto(p, "saveSerial")
        /\ UNCHANGED <<cert, mem, uniq, fd>>
     \/ Fault /\ Exit(p, "failure") /\ UNCHANGED certs
  /\ UNCHANGED <<disk, revs>>

\* serial.old is opened, written and closed; nothing ever reads it back.
SaveSerial(p) ==
  /\ pc[p] = "saveSerial"
  /\ \/ /\ NoFault
        /\ disk' = [disk EXCEPT !.serialOld = <<cert[p].serial>>]
        /\ Goto(p, "openSerial")
        /\ UNCHANGED <<cert, mem, uniq, fd>>
     \/ Fault /\ Exit(p, "failure") /\ UNCHANGED disk
  /\ UNCHANGED past

OpenSerial(p) ==
  /\ pc[p] = "openSerial"
  /\ \/ /\ NoFault
        /\ Truncate(p, "serial")
        /\ Goto(p, "closeSerial")
        /\ UNCHANGED <<cert, mem, uniq>>
     \/ Fault /\ Exit(p, "failure") /\ UNCHANGED disk
  /\ UNCHANGED past

\* The next serial reaches the file; then the entry of the new certificate
\* is appended to the entries in memory.
CloseSerial(p) ==
  /\ pc[p] = "closeSerial"
  /\ \/ /\ \/ NoFault /\ disk' = Written(p, <<NextSerial(cert[p].serial)>>)
           \/ Fault /\ UNCHANGED disk
        /\ fd' = [fd EXCEPT ![p] = "none"]
        /\ mem' = [mem EXCEPT ![p] = Recorded(@, cert[p])]
        /\ Goto(p, "renameIndex")
        /\ UNCHANGED <<cert, uniq>>
     \/ Fault /\ UNCHANGED disk /\ Exit(p, "failure")
  /\ UNCHANGED past
----------------------------------------------------------------------------
(* write_database_old_new(), for sign and for -revoke *)

\* Mutants: the result of rename() is not looked at; it is taken for an error.
RenameIndexUnchecked(p) ==
  /\ pc[p] = "renameIndex"
  /\ NoFault
  /\ \/ disk.index # NoFile /\ Rename("index", "indexOld")
     \/ disk.index = NoFile /\ UNCHANGED <<disk, fd>>
  /\ Goto(p, "createIndex")
  /\ UNCHANGED <<past, cert, mem, uniq>>
RenameIndexInverted(p) ==
  /\ pc[p] = "renameIndex"
  /\ disk.index # NoFile
  /\ NoFault
  /\ Exit(p, "failure")
  /\ disk' = [disk EXCEPT !.indexOld = disk.index, !.index = NoFile]
  /\ UNCHANGED past

\* rename(index.txt, index.txt.old): a missing file ends the command.
RenameIndex(p) ==
  /\ pc[p] = "renameIndex"
  /\ \/ /\ disk.index # NoFile
        /\ NoFault
        /\ Rename("index", "indexOld")
        /\ Goto(p, "createIndex")
        /\ UNCHANGED <<cert, mem, uniq>>
     \/ disk.index = NoFile /\ NoFault /\ Exit(p, "failure") /\ UNCHANGED disk
     \/ Fault /\ Exit(p, "failure") /\ UNCHANGED disk
  /\ UNCHANGED past

\* When fopen() fails the function returns the 0 that rename() left in ret.
CreateIndex(p) ==
  /\ pc[p] = "createIndex"
  /\ \/ /\ NoFault
        /\ Truncate(p, "index")
        /\ Goto(p, "closeIndex")
        /\ UNCHANGED <<cert, mem, uniq>>
     \/ Fault /\ Exit(p, "success") /\ UNCHANGED disk
  /\ UNCHANGED past

\* The lines, refreshed against the clock, are written and the file closed;
\* a failing flush loses some of them and is not noticed.
CloseIndex(p) ==
  /\ pc[p] = "closeIndex"
  /\ \/ NoFault /\ disk' = Written(p, Refreshed(mem[p], clock))
     \/ /\ Fault
        /\ \E part \in Partial(Refreshed(mem[p], clock)) : disk' = Written(p, part)
  /\ \/ op[p] = "revoke" /\ Exit(p, "success")
     \/ /\ op[p] = "sign"
        /\ fd' = [fd EXCEPT ![p] = "none"]
        /\ Goto(p, "renameAttr")
        /\ UNCHANGED <<cert, mem, uniq>>
  /\ UNCHANGED past

(* write_database_attr_old_new(), for sign only *)

RenameAttr(p) ==
  /\ pc[p] = "renameAttr"
  /\ \/ /\ disk.attr # NoFile
        /\ NoFault
        /\ Rename("attr", "attrOld")
        /\ Goto(p, "createAttr")
        /\ UNCHANGED <<cert, mem, uniq>>
     \/ disk.attr = NoFile /\ NoFault /\ Exit(p, "failure") /\ UNCHANGED disk
     \/ Fault /\ Exit(p, "failure") /\ UNCHANGED disk
  /\ UNCHANGED past

CreateAttr(p) ==
  /\ pc[p] = "createAttr"
  /\ \/ /\ NoFault
        /\ Truncate(p, "attr")
        /\ Goto(p, "closeAttr")
        /\ UNCHANGED <<cert, mem, uniq>>
     \/ Fault /\ Exit(p, "success") /\ UNCHANGED disk
  /\ UNCHANGED past

CloseAttr(p) ==
  /\ pc[p] = "closeAttr"
  /\ \/ NoFault /\ disk' = Written(p, <<uniq[p]>>)
     \/ Fault /\ UNCHANGED disk
  /\ Exit(p, "success")
  /\ UNCHANGED past
----------------------------------------------------------------------------
(* What can happen to a process, and around it *)

\* Where a process uses the fields of a torn line: -revoke compares serials up
\* to the first match, the subject check compares names, the rewrite and
\* -gencrl go through every entry.
UsesTorn(p) ==
  \/ pc[p] \in {"openCrl", "closeIndex"} /\ HasTorn(mem[p])
  \/ pc[p] = "checkUnique" /\ uniq[p] = "yes" /\ HasTorn(mem[p])
  \/ /\ pc[p] = "lookup"
     /\ \E j \in DOMAIN mem[p] :
          /\ Torn(mem[p][j])
          /\ ~ \E i \in 1 .. j : FirstMatch(mem[p], cert[p].serial, i)

\* The fields of a torn line were never set: using one may kill the process
\* (or go unnoticed, which the steps above allow).
DieOnTorn(p) ==
  /\ UsesTorn(p)
  /\ \/ UNCHANGED disk
     \/ /\ pc[p] = "closeIndex"
        /\ \E part \in Partial(Refreshed(mem[p], clock)) : disk' = Written(p, part)
  /\ Exit(p, "killed")
  /\ UNCHANGED <<env, past>>

\* A crash between two steps.  Of a database that was being written any part
\* may have been flushed; the other files are too short to be cut.
Crash(p) ==
  /\ pc[p] # "idle"
  /\ Fault
  /\ \/ UNCHANGED disk
     \/ /\ pc[p] = "closeIndex"
        /\ \E part \in Partial(Refreshed(mem[p], clock)) : disk' = Written(p, part)
  /\ Exit(p, "killed")
  /\ UNCHANGED past

\* A database larger than the buffer of its stream is flushed in pieces, so
\* that another process can read it while only some lines are there.
FlushIndex(p) ==
  /\ pc[p] = "closeIndex"
  /\ fd[p] # "none" /\ disk[fd[p]] = <<>>
  /\ \E part \in Partial(Refreshed(mem[p], clock)) : disk' = Written(p, part)
  /\ UNCHANGED <<env, result, past, pc, local, fd>>

Tick == /\ clock < MaxClock
        /\ clock' = clock + 1
        /\ UNCHANGED <<faults, runs, result, disk, certs, revs, pc, local, fd>>

\* The operator moves the backup of a missing file into its place.
Restore ==
  /\ \A q \in Procs : pc[q] = "idle"
  /\ \E f \in {<<"index", "indexOld">>, <<"attr", "attrOld">>} :
       /\ disk[f[1]] = NoFile /\ disk[f[2]] # NoFile
       /\ Rename(f[2], f[1])
  /\ UNCHANGED <<env, result, certs, revs, pc, local>>

Step(p) ==
  \/ ReadIndex(p) \/ ReadAttr(p) \/ Refuse(p) \/ Lookup(p)
  \/ OpenCrl(p) \/ CloseCrl(p)
  \/ ReadSerial(p) \/ CheckUnique(p) \/ WriteCert(p)
  \/ SaveSerial(p) \/ OpenSerial(p) \/ CloseSerial(p)
  \/ RenameIndex(p) \/ CreateIndex(p) \/ CloseIndex(p)
  \/ RenameAttr(p) \/ CreateAttr(p) \/ CloseAttr(p)
  \/ DieOnTorn(p)

Next == \/ \E p \in Procs : Invoke(p) \/ Step(p) \/ FlushIndex(p) \/ Crash(p)
        \/ Tick
        \/ Restore

Spec == Init /\ [][Next]_vars

\* The operating system keeps running a process it has started.
FairSpec == Spec /\ \A p \in Procs : WF_vars(Step(p))
=============================================================================
