--------------------------- MODULE CARecordProofs ---------------------------
(***************************************************************************)
(* OneRewriter, NoPhantom and CrlSound as theorems: whatever overlaps,     *)
(* fails or crashes, no two processes write the same database or attribute *)
(* file, no line of the database, of its backup or of any process's        *)
(* memory records a certificate that was never written, and no CRL lists   *)
(* a revocation that nobody made.                                          *)
(***************************************************************************)
EXTENDS CAProofs

----------------------------------------------------------------------------
(* OneRewriter *)

\* A descriptor that still reaches a name reaches a file.
FdLive == \A p \in Procs : fd[p] # "none" => disk[fd[p]] # NoFile

FileInv == TypeInv /\ FdLive /\ OneRewriter

\* No file disappears, and a missing database or attribute file stays missing.
SameNames ==
  /\ \A f \in FileNames : disk[f] # NoFile => disk'[f] # NoFile
  /\ disk.index = NoFile => disk'.index = NoFile
  /\ disk.attr = NoFile => disk'.attr = NoFile

\* What a process writes goes to a file that has a name already.
LEMMA WrittenNames ==
  ASSUME TypeInv, FdLive, NEW p \in Procs, NEW lines, lines # NoFile,
         disk' = Written(p, lines)
  PROVE  SameNames
<1>1. disk \in Disks /\ fd[p] \in FileNames \union {"none"}
  BY TypeOKSplit DEF TypeInv, LocalOK
<1>2. CASE fd[p] = "none"
  BY <1>2 DEF Written, SameNames
<1>3. CASE fd[p] # "none"
  <2>1. disk[fd[p]] # NoFile
    BY <1>3 DEF FdLive
  <2>2. \A f \in FileNames : disk'[f] = IF f = fd[p] THEN lines ELSE disk[f]
    BY <1>1, <1>3 DEF Written, Disks, FileNames
  <2>3. "index" \in FileNames /\ "attr" \in FileNames
    BY DEF FileNames
  <2> QED
    BY <2>1, <2>2, <2>3 DEF SameNames
<1> QED
  BY <1>2, <1>3

LEMMA NamesSame == UNCHANGED disk => SameNames
  BY DEF SameNames

\* A process lets go of its file, or never had one, and does not start to
\* create one.
LEMMA LetGo ==
  ASSUME FileInv, TypeInv', NEW p \in Procs, NEW l \in PCs \ {"createIndex", "createAttr"},
         pc' = [pc EXCEPT ![p] = l], fd' = [fd EXCEPT ![p] = "none"], SameNames
  PROVE  FdLive' /\ OneRewriter'
<1>1. /\ pc'[p] = l /\ fd'[p] = "none"
      /\ \A q \in Procs : q # p => pc'[q] = pc[q] /\ fd'[q] = fd[q]
      /\ \A q \in Procs : fd[q] \in FileNames \union {"none"}
  BY TypeOKSplit DEF FileInv, TypeInv, LocalOK
<1>2. FdLive'
  BY <1>1 DEF FileInv, FdLive, SameNames
<1>3. OneRewriter'
  <2>1. \A q \in Procs : pc'[q] \in {"createIndex", "createAttr"} => q # p
    BY <1>1
  <2>2. \A q \in Procs : pc'[q] = "createIndex" => disk'.index = NoFile
    BY <1>1, <2>1 DEF FileInv, OneRewriter, SameNames
  <2>3. \A q \in Procs : pc'[q] = "createAttr" => disk'.attr = NoFile
    BY <1>1, <2>1 DEF FileInv, OneRewriter, SameNames
  <2>4. ASSUME NEW q \in Procs, NEW r \in Procs, q # r, pc'[q] = pc'[r]
        PROVE  pc'[q] \notin {"createIndex", "createAttr"}
    BY <1>1, <2>1, <2>4 DEF FileInv, OneRewriter
  <2>5. ASSUME NEW q \in Procs, NEW r \in Procs, q # r, fd'[q] = fd'[r]
        PROVE  fd'[q] \notin {"index", "indexOld", "attr", "attrOld"}
    BY <1>1, <2>5 DEF FileInv, OneRewriter
  <2> QED
    BY <2>2, <2>3, <2>4, <2>5 DEF OneRewriter
<1> QED
  BY <1>2, <1>3

\* fopen() takes the free name of the database or of its attributes, or one of
\* the files no invariant protects.
LEMMA Opened ==
  ASSUME FileInv, NEW p \in Procs, NEW f, NEW l \in PCs, Goto(p, l), Truncate(p, f),
         <<pc[p], l, f>> \in {<<"createIndex", "closeIndex", "index">>,
                              <<"createAttr", "closeAttr", "attr">>,
                              <<"openSerial", "closeSerial", "serial">>,
                              <<"openCrl", "closeCrl", "crl">>}
  PROVE  FdLive' /\ OneRewriter'
<1>1. /\ pc'[p] = l /\ fd'[p] = f
      /\ \A q \in Procs : q # p => pc'[q] = pc[q] /\ fd'[q] = fd[q]
      /\ \A q \in Procs : fd[q] \in FileNames \union {"none"}
  BY TypeOKSplit DEF FileInv, TypeInv, LocalOK, Goto, Truncate
<1>2. f \in FileNames /\ l \notin {"createIndex", "createAttr"}
  BY DEF FileNames
<1>3. /\ \A g \in FileNames : disk'[g] = IF g = f THEN <<>> ELSE disk[g]
      /\ "index" \in FileNames /\ "attr" \in FileNames
  BY <1>2, TypeOKSplit DEF FileInv, TypeInv, Disks, Truncate, FileNames
<1>4. <<>> # NoFile
  <2>1. <<>> \in Seq(Nat)
    OBVIOUS
  <2> QED
    BY <2>1, CAAssumption
<1>5. FdLive'
  BY <1>1, <1>2, <1>3, <1>4 DEF FileInv, FdLive
<1>6. \A q \in Procs : q # p /\ fd[q] = f => f \in {"serial", "crl"}
  BY <1>1 DEF FileInv, FdLive, OneRewriter
<1>7. \A q \in Procs : q # p /\ pc[q] = "createIndex" => f # "index" /\ disk.index = NoFile
  BY DEF FileInv, OneRewriter
<1>8. \A q \in Procs : q # p /\ pc[q] = "createAttr" => f # "attr" /\ disk.attr = NoFile
  BY DEF FileInv, OneRewriter
<1>9. OneRewriter'
  <2>1. \A q \in Procs : pc'[q] = "createIndex" => disk'.index = NoFile
    BY <1>1, <1>2, <1>3, <1>7
  <2>2. \A q \in Procs : pc'[q] = "createAttr" => disk'.attr = NoFile
    BY <1>1, <1>2, <1>3, <1>8
  <2>3. ASSUME NEW q \in Procs, NEW r \in Procs, q # r, pc'[q] = pc'[r]
        PROVE  pc'[q] \notin {"createIndex", "createAttr"}
    BY <1>1, <1>2, <2>3 DEF FileInv, OneRewriter
  <2>4. ASSUME NEW q \in Procs, NEW r \in Procs, q # r, fd'[q] = fd'[r]
        PROVE  fd'[q] \notin {"index", "indexOld", "attr", "attrOld"}
    BY <1>1, <1>6, <2>4 DEF FileInv, OneRewriter
  <2> QED
    BY <2>1, <2>2, <2>3, <2>4 DEF OneRewriter
<1> QED
  BY <1>5, <1>9

\* rename() succeeds only for the process that finds the file, moves whoever
\* was writing it along, and cuts off whoever was writing the old backup.
LEMMA Renamed ==
  ASSUME FileInv, NEW p \in Procs, NEW from, NEW to, NEW l, Goto(p, l), Rename(from, to),
         disk[from] # NoFile, fd[p] = "none",
         <<l, from, to>> \in {<<"createIndex", "index", "indexOld">>,
                              <<"createAttr", "attr", "attrOld">>}
  PROVE  FdLive' /\ OneRewriter'
<1>1. /\ pc'[p] = l
      /\ \A q \in Procs : q # p => pc'[q] = pc[q]
      /\ \A q \in Procs : fd[q] \in FileNames \union {"none"}
      /\ \A q \in Procs : fd'[q] = IF fd[q] = from THEN to
                                   ELSE IF fd[q] = to THEN "none" ELSE fd[q]
  BY TypeOKSplit DEF FileInv, TypeInv, LocalOK, Goto, Rename
<1>2. from \in FileNames /\ to \in FileNames /\ from # to /\ to \notin {"index", "attr"}
  BY DEF FileNames
<1>3. /\ \A g \in FileNames : disk'[g] = IF g = from THEN NoFile
                                         ELSE IF g = to THEN disk[from] ELSE disk[g]
      /\ "index" \in FileNames /\ "attr" \in FileNames
  <2>1. disk \in Disks
    BY TypeOKSplit DEF FileInv, TypeInv
  <2> QED
    BY <1>2, <2>1 DEF Disks, Rename, FileNames
<1>4. FdLive'
  BY <1>1, <1>2, <1>3 DEF FileInv, FdLive
<1>5. \A q \in Procs : q # p => pc[q] # l
  BY DEF FileInv, OneRewriter
<1>6. OneRewriter'
  <2>1. \A q \in Procs : pc'[q] = "createIndex" => disk'.index = NoFile
    BY <1>1, <1>2, <1>3 DEF FileInv, OneRewriter
  <2>2. \A q \in Procs : pc'[q] = "createAttr" => disk'.attr = NoFile
    BY <1>1, <1>2, <1>3 DEF FileInv, OneRewriter
  <2>3. ASSUME NEW q \in Procs, NEW r \in Procs, q # r, pc'[q] = pc'[r]
        PROVE  pc'[q] \notin {"createIndex", "createAttr"}
    BY <1>1, <1>5, <2>3 DEF FileInv, OneRewriter
  <2>4. ASSUME NEW q \in Procs, NEW r \in Procs, q # r, fd'[q] = fd'[r]
        PROVE  fd'[q] \notin {"index", "indexOld", "attr", "attrOld"}
    BY <1>1, <1>2, <2>4 DEF FileInv, OneRewriter
  <2> QED
    BY <2>1, <2>2, <2>3, <2>4 DEF OneRewriter
<1> QED
  BY <1>4, <1>6

LEMMA ExitFiles ==
  ASSUME FileInv, TypeInv', NEW p \in Procs, NEW code, Exit(p, code), SameNames
  PROVE  FdLive' /\ OneRewriter'
<1>1. /\ pc' = [pc EXCEPT ![p] = "idle"] /\ fd' = [fd EXCEPT ![p] = "none"]
      /\ "idle" \in PCs \ {"createIndex", "createAttr"}
  BY DEF Exit, PCs
<1> QED
  BY <1>1, LetGo

LEMMA GotoFiles ==
  ASSUME FileInv, TypeInv', NEW p \in Procs, NEW l \in PCs \ {"createIndex", "createAttr"},
         Goto(p, l), SameNames,
         fd' = [fd EXCEPT ![p] = "none"] \/ (UNCHANGED fd /\ fd[p] = "none")
  PROVE  FdLive' /\ OneRewriter'
<1>1. fd' = [fd EXCEPT ![p] = "none"]
  BY TypeOKSplit DEF FileInv, TypeInv, LocalOK
<1> QED
  BY <1>1, LetGo DEF Goto

\* What is flushed by a process that closes a file or dies.
LEMMA FlushNames ==
  ASSUME FileInv, NEW p \in Procs,
         \/ CloseCrl(p) \/ CloseSerial(p) \/ CloseIndex(p) \/ CloseAttr(p)
         \/ DieOnTorn(p) \/ Crash(p) \/ FlushIndex(p)
  PROVE  SameNames
<1>1. TypeInv /\ FdLive /\ EnvOK /\ LocalOK
  BY TypeOKSplit DEF FileInv, TypeInv
<1>2. CASE UNCHANGED disk
  BY <1>2, NamesSame
<1>3. CASE ~UNCHANGED disk
  <2>1. Refreshed(mem[p], clock) \in Seq(Entries)
    BY <1>1, RefreshedType DEF LocalOK, EnvOK
  <2>2. CrlOf(mem[p]) \in SUBSET CrlItems /\ uniq[p] \in AttrValues
        /\ NextSerial(cert[p].serial) \in Nat
    BY <1>1, CrlType DEF LocalOK, NextSerial, Certs
  <2>3. /\ <<CrlOf(mem[p])>> \in Seq(SUBSET CrlItems)
        /\ <<uniq[p]>> \in Seq(AttrValues)
        /\ <<NextSerial(cert[p].serial)>> \in Seq(Nat)
    BY <2>2
  <2>4. \A part \in Partial(Refreshed(mem[p], clock)) : part \in Seq(Entries)
    BY <2>1, PartialType
  <2>5. PICK lines : lines # NoFile /\ disk' = Written(p, lines)
    BY <1>3, <2>1, <2>3, <2>4, CAAssumption
    DEF CloseCrl, CloseSerial, CloseIndex, CloseAttr, DieOnTorn, Crash, FlushIndex
  <2> QED
    BY <1>1, <2>5, WrittenNames
<1> QED
  BY <1>2, <1>3

LEMMA StepFiles ==
  ASSUME FileInv, TypeInv', NEW p \in Procs, Step(p) \/ Crash(p)
  PROVE  FdLive' /\ OneRewriter'
<1>1. TypeInv /\ LocalOK /\ FdOK
  BY TypeOKSplit DEF FileInv, TypeInv
<1>2. CASE ReadIndex(p) \/ ReadAttr(p) \/ Refuse(p) \/ Lookup(p) \/ ReadSerial(p)
           \/ CheckUnique(p) \/ WriteCert(p)
  <2>1. UNCHANGED disk /\ fd[p] = "none"
    BY <1>1, <1>2
    DEF ReadIndex, ReadAttr, Refuse, Lookup, ReadSerial, CheckUnique, WriteCert, FdOK
  <2>2. SameNames
    BY <2>1, NamesSame
  <2>3. CASE \E code : Exit(p, code)
    BY <2>2, <2>3, ExitFiles
  <2>4. CASE ~ \E code : Exit(p, code)
    <3>1. PICK l \in {"readAttr", "lookup", "openCrl", "readSerial", "renameIndex",
                      "checkUnique", "writeCert", "saveSerial"} : Goto(p, l) /\ UNCHANGED fd
      <4>1. CASE ReadAttr(p)
        <5>1. op[p] \in {"sign", "revoke", "gencrl"}
          BY <1>1, <4>1 DEF ReadAttr, TypeInv, RunOK, LocalOK
        <5> QED
          BY <2>4, <4>1, <5>1 DEF ReadAttr
      <4> QED
        BY <1>2, <2>4, <4>1 DEF ReadIndex, Refuse, Lookup, ReadSerial, CheckUnique, WriteCert
    <3>2. l \in PCs \ {"createIndex", "createAttr"}
      BY <3>1 DEF PCs
    <3> QED
      BY <2>1, <2>2, <3>1, <3>2, GotoFiles
  <2> QED
    BY <2>3, <2>4
<1>3. CASE OpenCrl(p) \/ OpenSerial(p) \/ CreateIndex(p) \/ CreateAttr(p)
  <2>1. CASE (\E code : Exit(p, code)) /\ UNCHANGED disk
    BY <2>1, NamesSame, ExitFiles
  <2>2. CASE ~((\E code : Exit(p, code)) /\ UNCHANGED disk)
    <3>1. PICK f, l : /\ Truncate(p, f) /\ Goto(p, l)
                      /\ <<pc[p], l, f>> \in {<<"createIndex", "closeIndex", "index">>,
                                              <<"createAttr", "closeAttr", "attr">>,
                                              <<"openSerial", "closeSerial", "serial">>,
                                              <<"openCrl", "closeCrl", "crl">>}
      BY <1>3, <2>2 DEF OpenCrl, OpenSerial, CreateIndex, CreateAttr
    <3>2. l \in PCs
      BY <3>1 DEF PCs
    <3> QED
      BY <3>1, <3>2, Opened
  <2> QED
    BY <2>1, <2>2
<1>4. CASE SaveSerial(p)
  <2>1. SameNames /\ fd[p] = "none"
    <3>1. disk \in Disks
      BY TypeOKSplit DEF FileInv, TypeInv
    <3>2. <<cert[p].serial>> # NoFile
      <4>1. cert[p].serial \in Nat
        BY <1>1 DEF LocalOK, Certs
      <4>2. <<cert[p].serial>> \in Seq(Nat)
        BY <4>1
      <4> QED
        BY <4>2, CAAssumption
    <3> QED
      BY <1>1, <1>4, <3>1, <3>2 DEF SaveSerial, SameNames, Disks, FileNames, FdOK
  <2>2. CASE Exit(p, "failure")
    BY <2>1, <2>2, ExitFiles
  <2>3. CASE Goto(p, "openSerial") /\ UNCHANGED fd
    <3>1. "openSerial" \in PCs \ {"createIndex", "createAttr"}
      BY DEF PCs
    <3> QED
      BY <2>1, <2>3, <3>1, GotoFiles
  <2> QED
    BY <1>4, <2>2, <2>3 DEF SaveSerial
<1>5. CASE RenameIndex(p) \/ RenameAttr(p)
  <2>1. CASE Exit(p, "failure") /\ UNCHANGED disk
    BY <2>1, NamesSame, ExitFiles
  <2>2. CASE ~(Exit(p, "failure") /\ UNCHANGED disk)
    <3>1. fd[p] = "none"
      BY <1>1, <1>5 DEF RenameIndex, RenameAttr, FdOK
    <3>2. PICK l, from, to :
            /\ <<l, from, to>> \in {<<"createIndex", "index", "indexOld">>,
                                    <<"createAttr", "attr", "attrOld">>}
            /\ disk[from] # NoFile /\ Rename(from, to) /\ Goto(p, l)
      <4>1. CASE RenameIndex(p)
        <5>1. disk["index"] # NoFile /\ Rename("index", "indexOld") /\ Goto(p, "createIndex")
          BY <2>2, <4>1 DEF RenameIndex
        <5> QED
          BY <5>1
      <4>2. CASE RenameAttr(p)
        <5>1. disk["attr"] # NoFile /\ Rename("attr", "attrOld") /\ Goto(p, "createAttr")
          BY <2>2, <4>2 DEF RenameAttr
        <5> QED
          BY <5>1
      <4> QED
        BY <1>5, <4>1, <4>2
    <3> QED
      BY <3>1, <3>2, Renamed
  <2> QED
    BY <2>1, <2>2
<1>6. CASE CloseCrl(p) \/ CloseSerial(p) \/ CloseIndex(p) \/ CloseAttr(p)
           \/ DieOnTorn(p) \/ Crash(p)
  <2>1. SameNames
    BY <1>6, FlushNames
  <2>2. CASE \E code : Exit(p, code)
    BY <2>1, <2>2, ExitFiles
  <2>3. CASE ~ \E code : Exit(p, code)
    <3>1. PICK l \in {"renameIndex", "renameAttr"} : Goto(p, l) /\ fd' = [fd EXCEPT ![p] = "none"]
      BY <1>6, <2>3 DEF CloseCrl, CloseSerial, CloseIndex, CloseAttr, DieOnTorn, Crash
    <3>2. l \in PCs \ {"createIndex", "createAttr"}
      BY DEF PCs
    <3> QED
      BY <2>1, <3>1, <3>2, GotoFiles
  <2> QED
    BY <2>2, <2>3
<1> QED
  BY <1>2, <1>3, <1>4, <1>5, <1>6 DEF Step

LEMMA NextFiles == FileInv /\ [Next]_vars => FileInv'
<1> SUFFICES ASSUME FileInv, [Next]_vars PROVE FileInv'
  OBVIOUS
<1>1. TypeInv'
  BY NextType DEF FileInv
<1>2. ASSUME NEW p \in Procs, Step(p) \/ Crash(p) PROVE FdLive' /\ OneRewriter'
  BY <1>1, <1>2, StepFiles
<1>3. ASSUME NEW p \in Procs, Invoke(p) PROVE FdLive' /\ OneRewriter'
  <2>1. /\ pc' = [pc EXCEPT ![p] = "readIndex"] /\ UNCHANGED <<disk, fd>> /\ fd[p] = "none"
        /\ "readIndex" \in PCs \ {"createIndex", "createAttr"}
    BY <1>3 DEF Invoke, FileInv, TypeInv, FdOK, PCs
  <2>2. fd' = [fd EXCEPT ![p] = "none"]
    BY <2>1, TypeOKSplit DEF FileInv, TypeInv, LocalOK
  <2> QED
    BY <1>1, <2>1, <2>2, NamesSame, LetGo
<1>4. ASSUME Restore PROVE FdLive' /\ OneRewriter'
  <2>1. \A q \in Procs : fd'[q] = "none" /\ pc'[q] = "idle"
    BY <1>4 DEF Restore, Rename, FileInv, TypeInv, FdOK
  <2> QED
    BY <2>1 DEF FdLive, OneRewriter
<1>6. ASSUME NEW p \in Procs, FlushIndex(p) PROVE FdLive' /\ OneRewriter'
  <2>1. SameNames /\ UNCHANGED <<pc, fd>>
    BY <1>6, FlushNames DEF FlushIndex
  <2>2. \A q \in Procs : fd[q] \in FileNames \union {"none"}
    BY TypeOKSplit DEF FileInv, TypeInv, LocalOK
  <2> QED
    BY <2>1, <2>2 DEF FileInv, FdLive, OneRewriter, SameNames
<1>5. ASSUME Tick \/ UNCHANGED vars PROVE FdLive' /\ OneRewriter'
  BY <1>5 DEF Tick, vars, local, FileInv, FdLive, OneRewriter
<1> QED
  BY <1>1, <1>2, <1>3, <1>4, <1>5, <1>6 DEF FileInv, Next

\* rename() is all the locking there is, and it is enough for this: a process
\* that creates the database or its attribute file finds the name free, and no
\* two processes ever write the same one, with any number of commands at once,
\* crashes, failing calls, and the operator putting backups in place.
THEOREM OneRewriterAlways == Spec => []OneRewriter
<1>1. Init => FileInv
  BY InitType DEF Init, FileInv, FdLive, OneRewriter
<1>2. FileInv => OneRewriter
  BY DEF FileInv
<1> QED
  BY <1>1, <1>2, NextFiles, PTL DEF Spec

----------------------------------------------------------------------------
(* NoPhantom *)

\* Every line of m that can be read goes back to one of the certificates cs.
BackedBy(m, cs) == \A i \in DOMAIN m : Torn(m[i]) \/ \E c \in cs : TracesTo(m[i], c)

DiskBacked == \A f \in {"index", "indexOld"} : disk[f] # NoFile => BackedBy(disk[f], certs)

\* A sign command that is past write_certificate() carries what it wrote.
InFlight(p) ==
  pc[p] \in {"saveSerial", "openSerial", "closeSerial"} =>
    \E c \in certs : c.serial = cert[p].serial /\ c.dn = cert[p].dn /\ c.expiry = cert[p].expiry

RecordInv ==
  /\ TypeInv
  /\ DiskBacked
  /\ \A p \in Procs : BackedBy(mem[p], certs) /\ InFlight(p)
----------------------------------------------------------------------------
(* What becomes of the lines keeps them backed *)

LEMMA BackedMore ==
  ASSUME NEW m, NEW cs, NEW ds, cs \subseteq ds, BackedBy(m, cs)
  PROVE  BackedBy(m, ds)
  BY DEF BackedBy

LEMMA BackedEmpty == ASSUME NEW cs PROVE BackedBy(<<>>, cs)
  BY DEF BackedBy

LEMMA BackedRefreshed ==
  ASSUME NEW m \in Seq(Entries), NEW now, NEW cs, BackedBy(m, cs)
  PROVE  BackedBy(Refreshed(m, now), cs)
<1> SUFFICES ASSUME NEW i \in DOMAIN Refreshed(m, now), ~Torn(Refreshed(m, now)[i])
             PROVE  \E c \in cs : TracesTo(Refreshed(m, now)[i], c)
  BY DEF BackedBy
<1>1. i \in DOMAIN m /\ m[i] \in Lines
  BY DEF Refreshed, Entries
<1>2. ~Torn(m[i])
  BY <1>1 DEF Refreshed
<1>3. PICK c \in cs : TracesTo(m[i], c)
  BY <1>1, <1>2 DEF BackedBy
<1>4. CASE Refreshed(m, now)[i] = m[i]
  BY <1>3, <1>4
<1>5. CASE Refreshed(m, now)[i] = [m[i] EXCEPT !.status = "E"]
  BY <1>1, <1>3, <1>5 DEF TracesTo, Lines
<1> QED
  BY <1>1, <1>4, <1>5 DEF Refreshed

\* A line that was cut still traces to the certificate it traced to.
LEMMA BackedCut ==
  ASSUME NEW e \in Entries, NEW x \in Cut(e), ~Torn(x),
         NEW c, c.dn \in Names, Torn(e) \/ TracesTo(e, c)
  PROVE  TracesTo(x, c)
<1>1. e \in Lines /\ e.dn \in Names
  BY DEF Entries, Lines
<1>2. x # TornLine
  BY DEF Torn, TornLine
<1>3. CASE \E d \in Beginnings[e.dn] : x = [e EXCEPT !.dn = d]
  <2>1. PICK d \in Beginnings[e.dn] : x = [e EXCEPT !.dn = d]
    BY <1>3
  <2>2. x.serial = e.serial /\ x.expiry = e.expiry /\ x.dn = d /\ x.status = e.status
        /\ x.revoked = e.revoked
    BY <1>1, <2>1 DEF Lines
  <2>3. TracesTo(e, c)
    BY <2>2 DEF Torn
  <2>4. e.dn \in Beginnings[c.dn] => d \in Beginnings[c.dn]
    BY <2>1, CAAssumption
  <2>5. e.dn = Unknown => d = Unknown
    BY <2>1, CAAssumption
  <2> QED
    BY <2>2, <2>3, <2>4, <2>5 DEF TracesTo
<1>4. CASE x = [e EXCEPT !.revoked = NoDate, !.serial = NoSerial, !.dn = Unknown]
  <2>1. /\ x.serial = NoSerial /\ x.expiry = e.expiry /\ x.dn = Unknown
        /\ x.status = e.status /\ x.revoked = NoDate
    BY <1>1, <1>4 DEF Lines
  <2> QED
    BY <2>1 DEF TracesTo, Torn
<1> QED
  BY <1>2, <1>3, <1>4 DEF Cut

LEMMA BackedPartial ==
  ASSUME NEW m \in Seq(Entries), NEW part \in Partial(m), NEW cs, BackedBy(m, cs),
         \A c \in cs : c.dn \in Names
  PROVE  BackedBy(part, cs)
<1> SUFFICES ASSUME NEW i \in DOMAIN part, ~Torn(part[i])
             PROVE  \E c \in cs : TracesTo(part[i], c)
  BY DEF BackedBy
<1>1. i \in DOMAIN m /\ part[i] \in Cut(m[i]) /\ m[i] \in Entries
  BY PartialType
<1>2. ~Torn(m[i])
  <2>1. m[i] \in Lines
    BY <1>1 DEF Entries
  <2>2. \A d : [m[i] EXCEPT !.dn = d].status = m[i].status
    BY <2>1 DEF Lines
  <2>3. [m[i] EXCEPT !.revoked = NoDate, !.serial = NoSerial, !.dn = Unknown].status = m[i].status
    BY <2>1 DEF Lines
  <2>4. TornLine.status = "torn"
    BY DEF TornLine
  <2>5. part[i].status \in {m[i].status, "torn"}
    BY <1>1, <2>2, <2>3, <2>4 DEF Cut
  <2> QED
    BY <2>5 DEF Torn
<1>3. PICK c \in cs : TracesTo(m[i], c)
  BY <1>1, <1>2 DEF BackedBy
<1> QED
  BY <1>1, <1>3, BackedCut

LEMMA BackedRevoked ==
  ASSUME NEW m \in Seq(Entries), NEW i \in DOMAIN m, NEW d \in Dates, NEW cs,
         ~Torn(m[i]), m[i].serial # NoSerial, BackedBy(m, cs)
  PROVE  BackedBy([m EXCEPT ![i].status = "R", ![i].revoked = d], cs)
<1> DEFINE new == [m EXCEPT ![i].status = "R", ![i].revoked = d]
<1>1. m[i] \in Lines
  BY DEF Entries
<1>2. new[i] = [m[i] EXCEPT !.status = "R", !.revoked = d]
  BY <1>1 DEF Lines
<1>3. PICK c \in cs : TracesTo(m[i], c)
  BY DEF BackedBy
<1>4. TracesTo(new[i], c)
  <2> HIDE DEF new
  <2> QED
    BY <1>1, <1>2, <1>3 DEF TracesTo, Lines
<1>5. \A j \in DOMAIN new : j # i => j \in DOMAIN m /\ new[j] = m[j]
  OBVIOUS
<1> HIDE DEF new
<1>6. BackedBy(new, cs)
  BY <1>4, <1>5 DEF BackedBy
<1> QED
  BY <1>6 DEF new

LEMMA BackedRecorded ==
  ASSUME NEW m \in Seq(Entries), NEW c \in Certs, NEW cs, BackedBy(m, cs),
         \E x \in cs : x.serial = c.serial /\ x.dn = c.dn /\ x.expiry = c.expiry
  PROVE  BackedBy(Recorded(m, c), cs)
<1>1. NewEntry(c) \in Entries
  BY NewEntryType
<1>2. PICK x \in cs : x.serial = c.serial /\ x.dn = c.dn /\ x.expiry = c.expiry
  OBVIOUS
<1>3. TracesTo(NewEntry(c), x)
  BY <1>2, CAAssumption DEF TracesTo, NewEntry, Certs
<1>4. \A i \in DOMAIN Append(m, NewEntry(c)) :
        Append(m, NewEntry(c))[i] = NewEntry(c)
        \/ (i \in DOMAIN m /\ Append(m, NewEntry(c))[i] = m[i])
  BY <1>1
<1> QED
  BY <1>3, <1>4 DEF Recorded, BackedBy
----------------------------------------------------------------------------
(* Steps *)

\* One process moves; what it leaves in its memory and in the files is backed.
LEMMA OneMoves ==
  ASSUME RecordInv, TypeInv', NEW p \in Procs, certs \subseteq certs',
         \A q \in Procs : q # p => pc'[q] = pc[q] /\ cert'[q] = cert[q] /\ mem'[q] = mem[q],
         BackedBy(mem'[p], certs'), InFlight(p)', DiskBacked'
  PROVE  RecordInv'
<1>1. ASSUME NEW q \in Procs, q # p
      PROVE  BackedBy(mem'[q], certs') /\ InFlight(q)'
  BY <1>1, BackedMore DEF RecordInv, InFlight
<1> QED
  BY <1>1 DEF RecordInv

LEMMA DiskSame ==
  ASSUME DiskBacked, certs \subseteq certs',
         disk'.index = disk.index, disk'.indexOld = disk.indexOld
  PROVE  DiskBacked'
<1>1. ASSUME NEW f \in {"index", "indexOld"}, disk'[f] # NoFile
      PROVE  BackedBy(disk'[f], certs')
  <2>1. disk'[f] = disk[f]
    BY <1>1
  <2> QED
    BY <1>1, <2>1, BackedMore DEF DiskBacked
<1> QED
  BY <1>1 DEF DiskBacked

\* What is flushed, whole or in part, into the database is backed; nothing else
\* reaches the database.
LEMMA DiskFlushed ==
  ASSUME RecordInv, NEW p \in Procs, UNCHANGED certs,
         \/ CloseCrl(p) \/ CloseSerial(p) \/ CloseIndex(p) \/ CloseAttr(p)
         \/ DieOnTorn(p) \/ Crash(p) \/ FlushIndex(p)
  PROVE  DiskBacked'
<1>1. /\ TypeInv /\ DiskBacked /\ EnvOK /\ LocalOK /\ disk \in Disks /\ FdOK
      /\ mem[p] \in Seq(Entries)
      /\ \A c \in certs : c.dn \in Names
  BY TypeOKSplit DEF RecordInv, TypeInv, LocalOK, PastOK
<1>2. CASE UNCHANGED disk
  BY <1>1, <1>2, DiskSame
<1>3. CASE pc[p] = "closeIndex" /\ ~UNCHANGED disk
  <2>1. Refreshed(mem[p], clock) \in Seq(Entries) /\ BackedBy(Refreshed(mem[p], clock), certs)
    BY <1>1, RefreshedType, BackedRefreshed DEF RecordInv, EnvOK
  <2>2. PICK lines : BackedBy(lines, certs) /\ disk' = Written(p, lines)
    BY <1>1, <1>3, <2>1, BackedPartial
    DEF CloseCrl, CloseSerial, CloseIndex, CloseAttr, DieOnTorn, Crash, FlushIndex
  <2>3. \A f \in {"index", "indexOld"} : disk'[f] \in {disk[f], lines}
    BY <1>1, <2>2 DEF Written, Disks
  <2> QED
    BY <1>1, <2>2, <2>3 DEF DiskBacked
<1>4. CASE pc[p] # "closeIndex" /\ ~UNCHANGED disk
  <2>1. PICK lines : disk' = Written(p, lines)
    BY <1>4 DEF CloseCrl, CloseSerial, CloseIndex, CloseAttr, DieOnTorn, Crash, FlushIndex
  <2>2. fd[p] \notin {"index", "indexOld"}
    BY <1>1, <1>4 DEF CloseCrl, CloseSerial, CloseIndex, CloseAttr, DieOnTorn, Crash, FlushIndex, FdOK
  <2>3. disk'.index = disk.index /\ disk'.indexOld = disk.indexOld
    BY <1>1, <2>1, <2>2 DEF Written, Disks
  <2> QED
    BY <1>1, <2>3, DiskSame
<1> QED
  BY <1>2, <1>3, <1>4

LEMMA DiskTruncated ==
  ASSUME RecordInv, NEW p \in Procs, UNCHANGED certs,
         NEW f \in {"index", "attr", "serial", "crl"}, Truncate(p, f)
  PROVE  DiskBacked'
<1>1. DiskBacked /\ disk \in Disks
  BY TypeOKSplit DEF RecordInv, TypeInv
<1>2. \A g \in {"index", "indexOld"} : disk'[g] \in {disk[g], <<>>}
  BY <1>1 DEF Truncate, Disks
<1> QED
  BY <1>1, <1>2, BackedEmpty DEF DiskBacked

LEMMA DiskRenamed ==
  ASSUME RecordInv, UNCHANGED certs,
         \/ Rename("index", "indexOld") \/ Rename("indexOld", "index")
         \/ Rename("attr", "attrOld")   \/ Rename("attrOld", "attr")
  PROVE  DiskBacked'
<1>1. DiskBacked /\ disk \in Disks
  BY TypeOKSplit DEF RecordInv, TypeInv
<1>2. \A g \in {"index", "indexOld"} : disk'[g] \in {disk.index, disk.indexOld, NoFile}
  BY <1>1 DEF Rename, Disks
<1>3. /\ disk.index # NoFile => BackedBy(disk.index, certs)
      /\ disk.indexOld # NoFile => BackedBy(disk.indexOld, certs)
  BY <1>1 DEF DiskBacked
<1> QED
  BY <1>2, <1>3 DEF DiskBacked

LEMMA ExitBacked ==
  ASSUME RecordInv, TypeInv', NEW p \in Procs, NEW code, Exit(p, code), UNCHANGED certs,
         DiskBacked'
  PROVE  RecordInv'
<1>1. /\ pc'[p] = "idle" /\ mem'[p] = <<>>
      /\ \A q \in Procs : q # p => pc'[q] = pc[q] /\ cert'[q] = cert[q] /\ mem'[q] = mem[q]
  BY TypeOKSplit DEF RecordInv, TypeInv, LocalOK, Exit
<1>2. BackedBy(mem'[p], certs')
  BY <1>1, BackedEmpty
<1>3. InFlight(p)'
  BY <1>1 DEF InFlight
<1> QED
  BY <1>1, <1>2, <1>3, OneMoves

\* Going on with the same memory; a certificate is carried along only from a
\* step where it was carried already.
LEMMA GotoBacked ==
  ASSUME RecordInv, TypeInv', NEW p \in Procs, NEW l, Goto(p, l), UNCHANGED <<certs, mem>>,
         DiskBacked',
         \A q \in Procs : q # p => cert'[q] = cert[q],
         \/ l \notin {"saveSerial", "openSerial", "closeSerial"}
         \/ pc[p] \in {"saveSerial", "openSerial", "closeSerial"} /\ UNCHANGED cert
  PROVE  RecordInv'
<1>1. pc'[p] = l /\ \A q \in Procs : q # p => pc'[q] = pc[q]
  BY TypeOKSplit DEF RecordInv, TypeInv, LocalOK, Goto
<1>2. BackedBy(mem'[p], certs') /\ InFlight(p)'
  BY <1>1 DEF RecordInv, InFlight
<1> QED
  BY <1>1, <1>2, OneMoves

LEMMA LookupBacked ==
  ASSUME RecordInv, TypeInv', NEW p \in Procs, Lookup(p)
  PROVE  RecordInv'
<1>1. /\ DiskBacked /\ EnvOK /\ LocalOK /\ mem[p] \in Seq(Entries) /\ BackedBy(mem[p], certs)
      /\ UNCHANGED <<disk, certs>>
  BY TypeOKSplit DEF RecordInv, TypeInv, LocalOK, Lookup
<1>2. DiskBacked'
  BY <1>1, DiskSame
<1>3. CASE Exit(p, "failure")
  BY <1>1, <1>2, <1>3, ExitBacked
<1>4. CASE ~Exit(p, "failure")
  <2>1. PICK i \in DOMAIN mem[p] :
          /\ FirstMatch(mem[p], cert[p].serial, i)
          /\ mem' = [mem EXCEPT ![p] = [@ EXCEPT ![i].status  = "R",
                                                 ![i].revoked = TwoDigits(clock)]]
          /\ Goto(p, "renameIndex") /\ UNCHANGED cert
    BY <1>4 DEF Lookup
  <2>2. TwoDigits(clock) \in Dates
    BY <1>1, TwoDigitsType DEF EnvOK
  <2>3. ~Torn(mem[p][i]) /\ mem[p][i].serial # NoSerial
    BY <1>1, <2>1, CAAssumption DEF FirstMatch, LocalOK, Certs
  <2>4. BackedBy([mem[p] EXCEPT ![i].status = "R", ![i].revoked = TwoDigits(clock)], certs)
    BY <1>1, <2>2, <2>3, BackedRevoked
  <2>5. /\ mem'[p] = [mem[p] EXCEPT ![i].status = "R", ![i].revoked = TwoDigits(clock)]
        /\ \A q \in Procs : q # p => mem'[q] = mem[q]
    BY <1>1, <2>1 DEF LocalOK
  <2>6. pc'[p] = "renameIndex" /\ \A q \in Procs : q # p => pc'[q] = pc[q]
    BY <1>1, <2>1 DEF LocalOK, Goto
  <2>7. InFlight(p)'
    BY <2>6 DEF InFlight
  <2> QED
    BY <1>1, <1>2, <2>1, <2>4, <2>5, <2>6, <2>7, OneMoves
<1> QED
  BY <1>3, <1>4

LEMMA WriteCertBacked ==
  ASSUME RecordInv, TypeInv', NEW p \in Procs, WriteCert(p)
  PROVE  RecordInv'
<1>1. DiskBacked /\ LocalOK /\ UNCHANGED disk
  BY TypeOKSplit DEF RecordInv, TypeInv, WriteCert
<1>2. CASE Exit(p, "failure") /\ UNCHANGED certs
  BY <1>1, <1>2, DiskSame, ExitBacked
<1>3. CASE ~(Exit(p, "failure") /\ UNCHANGED certs)
  <2> DEFINE new == [run |-> run[p], serial |-> cert[p].serial,
                     dn |-> cert[p].dn, expiry |-> cert[p].expiry]
  <2>1. /\ certs' = certs \union {new}
        /\ Goto(p, "saveSerial") /\ UNCHANGED <<cert, mem>>
    BY <1>3 DEF WriteCert
  <2>2. new.serial = cert[p].serial /\ new.dn = cert[p].dn /\ new.expiry = cert[p].expiry
    OBVIOUS
  <2>3. pc'[p] = "saveSerial" /\ \A q \in Procs : q # p => pc'[q] = pc[q]
    BY <1>1, <2>1 DEF LocalOK, Goto
  <2> HIDE DEF new
  <2>4. InFlight(p)'
    BY <2>1, <2>2 DEF InFlight
  <2>5. BackedBy(mem'[p], certs')
    BY <2>1, BackedMore DEF RecordInv
  <2>6. DiskBacked'
    BY <1>1, <2>1, DiskSame
  <2> QED
    BY <2>1, <2>3, <2>4, <2>5, <2>6, OneMoves
<1> QED
  BY <1>2, <1>3

LEMMA CloseSerialBacked ==
  ASSUME RecordInv, TypeInv', NEW p \in Procs, CloseSerial(p)
  PROVE  RecordInv'
<1>1. /\ LocalOK /\ mem[p] \in Seq(Entries) /\ cert[p] \in Certs /\ BackedBy(mem[p], certs)
      /\ UNCHANGED certs
  BY TypeOKSplit DEF RecordInv, TypeInv, LocalOK, CloseSerial, past
<1>2. DiskBacked'
  BY <1>1, DiskFlushed
<1>3. CASE Exit(p, "failure")
  BY <1>1, <1>2, <1>3, ExitBacked
<1>4. CASE ~Exit(p, "failure")
  <2>1. /\ mem'[p] = Recorded(mem[p], cert[p]) /\ pc'[p] = "renameIndex"
        /\ UNCHANGED cert
        /\ \A q \in Procs : q # p => mem'[q] = mem[q] /\ pc'[q] = pc[q]
    BY <1>1, <1>4 DEF CloseSerial, LocalOK, Goto
  <2>2. \E x \in certs : x.serial = cert[p].serial /\ x.dn = cert[p].dn /\ x.expiry = cert[p].expiry
    BY DEF RecordInv, InFlight, CloseSerial
  <2>3. BackedBy(mem'[p], certs')
    BY <1>1, <2>1, <2>2, BackedRecorded
  <2>4. InFlight(p)'
    BY <2>1 DEF InFlight
  <2> QED
    BY <1>1, <1>2, <2>1, <2>3, <2>4, OneMoves
<1> QED
  BY <1>3, <1>4

LEMMA StepBacked ==
  ASSUME RecordInv, TypeInv', NEW p \in Procs, Step(p) \/ Crash(p)
  PROVE  RecordInv'
<1>1. DiskBacked /\ LocalOK /\ disk \in Disks
  BY TypeOKSplit DEF RecordInv, TypeInv
<1>2. CASE ReadIndex(p)
  <2>1. UNCHANGED <<disk, certs>>
    BY <1>2 DEF ReadIndex, past
  <2>2. CASE Exit(p, "failure")
    BY <1>1, <2>1, <2>2, DiskSame, ExitBacked
  <2>3. CASE ~Exit(p, "failure")
    <3>1. /\ disk.index # NoFile /\ mem'[p] = disk.index /\ pc'[p] = "readAttr"
          /\ UNCHANGED cert
          /\ \A q \in Procs : q # p => mem'[q] = mem[q] /\ pc'[q] = pc[q]
      BY <1>1, <1>2, <2>3 DEF ReadIndex, LocalOK, Goto
    <3>2. BackedBy(mem'[p], certs')
      BY <1>1, <2>1, <3>1 DEF DiskBacked
    <3>3. InFlight(p)'
      BY <3>1 DEF InFlight
    <3> QED
      BY <1>1, <2>1, <3>1, <3>2, <3>3, DiskSame, OneMoves
  <2> QED
    BY <2>2, <2>3
<1>3. CASE ReadAttr(p) \/ Refuse(p) \/ ReadSerial(p) \/ CheckUnique(p)
  <2>1. UNCHANGED <<disk, certs>>
    BY <1>3 DEF ReadAttr, Refuse, ReadSerial, CheckUnique, past
  <2>2. CASE \E code : Exit(p, code)
    BY <1>1, <2>1, <2>2, DiskSame, ExitBacked
  <2>3. CASE ~ \E code : Exit(p, code)
    <3>1. /\ UNCHANGED mem
          /\ \A q \in Procs : q # p => cert'[q] = cert[q]
      BY <1>1, <1>3, <2>3 DEF ReadAttr, Refuse, ReadSerial, CheckUnique, LocalOK
    <3>2. PICK l \in {"lookup", "openCrl", "readSerial", "checkUnique", "writeCert"} : Goto(p, l)
      <4>1. CASE ReadAttr(p)
        <5>1. op[p] \in {"sign", "revoke", "gencrl"}
          BY <1>1, <4>1 DEF ReadAttr, RecordInv, TypeInv, RunOK, LocalOK
        <5> QED
          BY <2>3, <4>1, <5>1 DEF ReadAttr
      <4> QED
        BY <1>3, <2>3, <4>1 DEF Refuse, ReadSerial, CheckUnique
    <3> QED
      BY <1>1, <2>1, <3>1, <3>2, DiskSame, GotoBacked
  <2> QED
    BY <2>2, <2>3
<1>4. CASE OpenCrl(p) \/ OpenSerial(p) \/ CreateIndex(p) \/ CreateAttr(p)
  <2>1. UNCHANGED certs
    BY <1>4 DEF OpenCrl, OpenSerial, CreateIndex, CreateAttr, past
  <2>2. CASE (\E code : Exit(p, code)) /\ UNCHANGED disk
    BY <1>1, <2>1, <2>2, DiskSame, ExitBacked
  <2>3. CASE ~((\E code : Exit(p, code)) /\ UNCHANGED disk)
    <3>1. PICK f \in {"index", "attr", "serial", "crl"},
               l \in {"closeIndex", "closeAttr", "closeSerial", "closeCrl"} :
            /\ Truncate(p, f) /\ Goto(p, l) /\ UNCHANGED <<cert, mem>>
            /\ l = "closeSerial" => pc[p] = "openSerial"
      BY <1>4, <2>3 DEF OpenCrl, OpenSerial, CreateIndex, CreateAttr
    <3>2. DiskBacked'
      BY <2>1, <3>1, DiskTruncated
    <3> QED
      BY <2>1, <3>1, <3>2, GotoBacked
  <2> QED
    BY <2>2, <2>3
<1>5. CASE SaveSerial(p)
  <2>1. DiskBacked' /\ UNCHANGED certs
    <3>1. disk'.index = disk.index /\ disk'.indexOld = disk.indexOld /\ UNCHANGED certs
      BY <1>1, <1>5 DEF SaveSerial, Disks, past
    <3> QED
      BY <1>1, <3>1, DiskSame
  <2> QED
    BY <1>5, <2>1, ExitBacked, GotoBacked DEF SaveSerial
<1>6. CASE RenameIndex(p) \/ RenameAttr(p)
  <2>1. UNCHANGED certs
    BY <1>6 DEF RenameIndex, RenameAttr, past
  <2>2. CASE Exit(p, "failure") /\ UNCHANGED disk
    BY <1>1, <2>1, <2>2, DiskSame, ExitBacked
  <2>3. CASE ~(Exit(p, "failure") /\ UNCHANGED disk)
    <3>1. PICK l \in {"createIndex", "createAttr"} :
            /\ Rename("index", "indexOld") \/ Rename("attr", "attrOld")
            /\ Goto(p, l) /\ UNCHANGED <<cert, mem>>
      BY <1>6, <2>3 DEF RenameIndex, RenameAttr
    <3>2. DiskBacked'
      BY <2>1, <3>1, DiskRenamed
    <3> QED
      BY <2>1, <3>1, <3>2, GotoBacked
  <2> QED
    BY <2>2, <2>3
<1>7. CASE CloseCrl(p) \/ CloseIndex(p) \/ CloseAttr(p) \/ DieOnTorn(p) \/ Crash(p)
  <2>1. UNCHANGED certs
    BY <1>7 DEF CloseCrl, CloseIndex, CloseAttr, DieOnTorn, Crash, past
  <2>2. DiskBacked'
    BY <1>7, <2>1, DiskFlushed
  <2>3. CASE \E code : Exit(p, code)
    BY <2>1, <2>2, <2>3, ExitBacked
  <2>4. CASE ~ \E code : Exit(p, code)
    <3>1. Goto(p, "renameAttr") /\ UNCHANGED <<cert, mem>>
      BY <1>7, <2>4 DEF CloseCrl, CloseIndex, CloseAttr, DieOnTorn, Crash
    <3> QED
      BY <2>1, <2>2, <3>1, GotoBacked
  <2> QED
    BY <2>3, <2>4
<1> QED
  BY <1>2, <1>3, <1>4, <1>5, <1>6, <1>7, LookupBacked, WriteCertBacked, CloseSerialBacked DEF Step

LEMMA NextBacked == RecordInv /\ [Next]_vars => RecordInv'
<1> SUFFICES ASSUME RecordInv, [Next]_vars PROVE RecordInv'
  OBVIOUS
<1>1. TypeInv'
  BY NextType DEF RecordInv
<1>2. ASSUME NEW p \in Procs, Step(p) \/ Crash(p) PROVE RecordInv'
  BY <1>1, <1>2, StepBacked
<1>3. ASSUME NEW p \in Procs, Invoke(p) PROVE RecordInv'
  <2>1. /\ UNCHANGED <<disk, certs, mem>> /\ pc'[p] = "readIndex"
        /\ \A q \in Procs : q # p => pc'[q] = pc[q] /\ cert'[q] = cert[q]
    BY <1>3, TypeOKSplit DEF RecordInv, TypeInv, LocalOK, Invoke
  <2>2. DiskBacked' /\ BackedBy(mem'[p], certs') /\ InFlight(p)'
    BY <2>1, DiskSame DEF RecordInv, InFlight
  <2> QED
    BY <1>1, <2>1, <2>2, OneMoves
<1>4. ASSUME Restore PROVE RecordInv'
  <2>1. UNCHANGED <<certs, mem, pc, cert>>
    BY <1>4 DEF Restore, local
  <2>2. DiskBacked'
    BY <1>4, <2>1, DiskRenamed DEF Restore
  <2> QED
    BY <1>1, <2>1, <2>2 DEF RecordInv, InFlight
<1>6. ASSUME NEW p \in Procs, FlushIndex(p) PROVE RecordInv'
  <2>1. UNCHANGED <<certs, mem, pc, cert>>
    BY <1>6 DEF FlushIndex, past, local
  <2>2. DiskBacked'
    BY <1>6, <2>1, DiskFlushed
  <2> QED
    BY <1>1, <2>1, <2>2 DEF RecordInv, InFlight
<1>5. ASSUME Tick \/ UNCHANGED vars PROVE RecordInv'
  BY <1>1, <1>5 DEF Tick, vars, local, RecordInv, InFlight, DiskBacked
<1> QED
  BY <1>2, <1>3, <1>4, <1>5, <1>6 DEF Next

\* Half-done commands leave lines out of the database, or cut one; they never
\* put one in that no certificate stands behind: with any number of commands
\* at once, crashes, failing calls and torn lines read back.
THEOREM NoPhantomAlways == Spec => []NoPhantom
<1>1. Init => RecordInv
  <2> SUFFICES ASSUME Init PROVE RecordInv
    OBVIOUS
  <2>1. disk.index = <<>> /\ disk.indexOld = NoFile /\ \A p \in Procs : mem[p] = <<>>
    BY DEF Init
  <2>2. DiskBacked
    BY <2>1, BackedEmpty DEF DiskBacked
  <2>3. \A p \in Procs : InFlight(p)
    BY DEF Init, InFlight
  <2> QED
    BY <2>1, <2>2, <2>3, InitType, BackedEmpty DEF RecordInv
<1>2. RecordInv => NoPhantom
  <2> SUFFICES ASSUME RecordInv,
                      NEW m \in {mem[p] : p \in Procs} \union ({disk.index, disk.indexOld} \ {NoFile})
               PROVE  BackedBy(m, certs)
    BY DEF NoPhantom, BackedBy
  <2>1. CASE m \in {mem[p] : p \in Procs}
    BY <2>1 DEF RecordInv
  <2>2. CASE m \in {disk.index, disk.indexOld} \ {NoFile}
    BY <2>2 DEF RecordInv, DiskBacked
  <2> QED
    BY <2>1, <2>2
<1> QED
  BY <1>1, <1>2, NextBacked, PTL DEF Spec
----------------------------------------------------------------------------
(* CrlSound *)

\* Every line of m that says R and since when was marked by one of the
\* revocations rs, with the date of that revocation.
MarkedBy(m, rs) ==
  \A i \in DOMAIN m : m[i].status = "R" /\ m[i].revoked # NoDate =>
    \E r \in rs : r.serial = m[i].serial /\ TwoDigits(r.year) = m[i].revoked

\* What a reader of two digits makes of the revocations rs.
StampedItems(rs) == {[serial |-> r.serial, year |-> StampYear(TwoDigits(r.year))] : r \in rs}

DiskMarked == \A f \in {"index", "indexOld"} : disk[f] # NoFile => MarkedBy(disk[f], revs)
CrlStamped ==
  disk.crl # NoFile => \A n \in DOMAIN disk.crl : disk.crl[n] \subseteq StampedItems(revs)
RevsPast == \A r \in revs : r.year <= clock

CrlInv ==
  /\ TypeInv /\ RevsPast
  /\ DiskMarked /\ CrlStamped
  /\ \A p \in Procs : MarkedBy(mem[p], revs)

LEMMA MarkedMore ==
  ASSUME NEW m, NEW rs, NEW ss, rs \subseteq ss, MarkedBy(m, rs)
  PROVE  MarkedBy(m, ss)
  BY DEF MarkedBy

LEMMA MarkedEmpty == ASSUME NEW rs PROVE MarkedBy(<<>>, rs)
  BY DEF MarkedBy

LEMMA MarkedRefreshed ==
  ASSUME NEW m \in Seq(Entries), NEW now, NEW rs, MarkedBy(m, rs)
  PROVE  MarkedBy(Refreshed(m, now), rs)
<1> SUFFICES ASSUME NEW i \in DOMAIN Refreshed(m, now), Refreshed(m, now)[i].status = "R",
                    Refreshed(m, now)[i].revoked # NoDate
             PROVE  \E r \in rs : /\ r.serial = Refreshed(m, now)[i].serial
                                  /\ TwoDigits(r.year) = Refreshed(m, now)[i].revoked
  BY DEF MarkedBy
<1>1. i \in DOMAIN m /\ m[i] \in Lines
  BY DEF Refreshed, Entries
<1>2. Refreshed(m, now)[i] = m[i]
  BY <1>1 DEF Refreshed, Lines
<1> QED
  BY <1>1, <1>2 DEF MarkedBy

LEMMA MarkedPartial ==
  ASSUME NEW m \in Seq(Entries), NEW part \in Partial(m), NEW rs, MarkedBy(m, rs)
  PROVE  MarkedBy(part, rs)
<1> SUFFICES ASSUME NEW i \in DOMAIN part, part[i].status = "R", part[i].revoked # NoDate
             PROVE  \E r \in rs : r.serial = part[i].serial /\ TwoDigits(r.year) = part[i].revoked
  BY DEF MarkedBy
<1>1. i \in DOMAIN m /\ part[i] \in Cut(m[i]) /\ m[i] \in Entries /\ m[i] \in Lines
  <2>1. i \in DOMAIN m /\ part[i] \in Cut(m[i])
    BY PartialType
  <2> QED
    BY <2>1 DEF Entries
<1>2. PICK d \in Beginnings[m[i].dn] : part[i] = [m[i] EXCEPT !.dn = d]
  <2>1. TornLine.status # "R"
    BY DEF TornLine
  <2>2. [m[i] EXCEPT !.revoked = NoDate, !.serial = NoSerial, !.dn = Unknown].revoked = NoDate
    BY <1>1 DEF Lines
  <2> QED
    BY <1>1, <2>1, <2>2 DEF Cut
<1>3. m[i].status = "R" /\ m[i].revoked = part[i].revoked /\ m[i].serial = part[i].serial
  BY <1>1, <1>2 DEF Lines
<1> QED
  BY <1>1, <1>3 DEF MarkedBy

\* -revoke marks one entry, and remembers that it did.
LEMMA MarkedRevoked ==
  ASSUME NEW m \in Seq(Entries), NEW i \in DOMAIN m, NEW rs, NEW ss, rs \subseteq ss,
         MarkedBy(m, rs), NEW y \in Nat,
         \E r \in ss : r.serial = m[i].serial /\ r.year = y
  PROVE  MarkedBy([m EXCEPT ![i].status = "R", ![i].revoked = TwoDigits(y)], ss)
<1> DEFINE new == [m EXCEPT ![i].status = "R", ![i].revoked = TwoDigits(y)]
<1>1. m[i] \in Lines
  BY DEF Entries
<1>2. new[i].serial = m[i].serial /\ new[i].revoked = TwoDigits(y)
  BY <1>1 DEF Lines
<1>3. \A j \in DOMAIN new : j # i => j \in DOMAIN m /\ new[j] = m[j]
  OBVIOUS
<1> HIDE DEF new
<1>4. MarkedBy(new, ss)
  BY <1>2, <1>3 DEF MarkedBy
<1> QED
  BY <1>4 DEF new

LEMMA MarkedRecorded ==
  ASSUME NEW m \in Seq(Entries), NEW c \in Certs, NEW rs, MarkedBy(m, rs)
  PROVE  MarkedBy(Recorded(m, c), rs)
<1>1. NewEntry(c) \in Entries /\ NewEntry(c).status # "R"
  BY NewEntryType DEF NewEntry
<1>2. \A i \in DOMAIN Append(m, NewEntry(c)) :
        Append(m, NewEntry(c))[i] = NewEntry(c)
        \/ (i \in DOMAIN m /\ Append(m, NewEntry(c))[i] = m[i])
  BY <1>1
<1> QED
  BY <1>1, <1>2 DEF Recorded, MarkedBy

\* Revocations are remembered for ever, and none is dated after today.
LEMMA RevsSteps ==
  ASSUME CrlInv, [Next]_vars
  PROVE  revs \subseteq revs' /\ RevsPast'
<1>1. clock \in Nat /\ \A r \in revs : r.year \in Nat
  BY DEF CrlInv, TypeInv, TypeOK
<1>2. ASSUME NEW p \in Procs, Step(p) \/ Crash(p) \/ Invoke(p) \/ FlushIndex(p)
      PROVE  clock' = clock
  BY <1>2 DEF Step, Crash, Invoke, FlushIndex, ReadIndex, ReadAttr, Refuse, Lookup, OpenCrl,
     CloseCrl, ReadSerial, CheckUnique, WriteCert, SaveSerial, OpenSerial, CloseSerial,
     RenameIndex, CreateIndex, CloseIndex, RenameAttr, CreateAttr, CloseAttr, DieOnTorn,
     NoFault, Fault, env
<1>3. ASSUME NEW p \in Procs, (Step(p) /\ ~Lookup(p)) \/ Crash(p) \/ Invoke(p) \/ FlushIndex(p)
      PROVE  revs' = revs
  BY <1>3 DEF Step, Crash, Invoke, FlushIndex, ReadIndex, ReadAttr, Refuse, OpenCrl,
     CloseCrl, ReadSerial, CheckUnique, WriteCert, SaveSerial, OpenSerial, CloseSerial,
     RenameIndex, CreateIndex, CloseIndex, RenameAttr, CreateAttr, CloseAttr, DieOnTorn, past
<1>4. ASSUME NEW p \in Procs, Lookup(p) PROVE revs \subseteq revs' /\ RevsPast'
  <2>1. clock' = clock
    BY <1>2, <1>4 DEF Step
  <2>2. revs' \in {revs, revs \union {[run |-> run[p], serial |-> cert[p].serial, year |-> clock]}}
    BY <1>4 DEF Lookup
  <2> QED
    BY <1>1, <2>1, <2>2 DEF CrlInv, RevsPast
<1>5. ASSUME Tick PROVE revs' = revs /\ clock <= clock'
  BY <1>1, <1>5 DEF Tick
<1>6. ASSUME Restore \/ UNCHANGED vars PROVE revs' = revs /\ clock' = clock
  BY <1>6 DEF Restore, env, vars
<1>7. CASE revs' = revs /\ (clock' = clock \/ (Tick /\ clock <= clock'))
  BY <1>1, <1>7 DEF CrlInv, RevsPast, Tick
<1> QED
  BY <1>2, <1>3, <1>4, <1>5, <1>6, <1>7 DEF Next

LEMMA MemMarked ==
  ASSUME CrlInv, [Next]_vars, NEW q \in Procs
  PROVE  MarkedBy(mem'[q], revs')
<1>1. /\ mem[q] \in Seq(Entries) /\ cert[q] \in Certs /\ clock \in Nat
      /\ revs \subseteq revs' /\ MarkedBy(mem[q], revs) /\ TypeInv
  BY TypeOKSplit, RevsSteps DEF CrlInv, TypeInv, LocalOK, EnvOK
<1>2. CASE mem'[q] \in {mem[q], <<>>}
  BY <1>1, <1>2, MarkedMore, MarkedEmpty
<1>3. CASE disk.index # NoFile /\ mem'[q] = disk.index
  BY <1>1, <1>3, MarkedMore DEF CrlInv, DiskMarked
<1>4. ASSUME revs' = revs \union {[run |-> run[q], serial |-> cert[q].serial, year |-> clock]},
             NEW i \in DOMAIN mem[q], FirstMatch(mem[q], cert[q].serial, i),
             mem'[q] = [mem[q] EXCEPT ![i].status = "R", ![i].revoked = TwoDigits(clock)]
      PROVE  MarkedBy(mem'[q], revs')
  <2> DEFINE r == [run |-> run[q], serial |-> cert[q].serial, year |-> clock]
  <2>1. r \in revs' /\ r.serial = mem[q][i].serial /\ r.year = clock
    BY <1>4 DEF FirstMatch
  <2> HIDE DEF r
  <2>2. MarkedBy([mem[q] EXCEPT ![i].status = "R", ![i].revoked = TwoDigits(clock)], revs')
    BY <1>1, <2>1, MarkedRevoked
  <2> QED
    BY <1>4, <2>2
<1>5. CASE mem'[q] = Recorded(mem[q], cert[q])
  BY <1>1, <1>5, MarkedMore, MarkedRecorded
<1> QED
  BY <1>1, <1>2, <1>3, <1>4, <1>5, MemSteps

LEMMA IndexMarked == CrlInv /\ [Next]_vars => DiskMarked'
<1> SUFFICES ASSUME CrlInv, [Next]_vars, NEW f \in {"index", "indexOld"}, disk'[f] # NoFile
             PROVE  MarkedBy(disk'[f], revs')
  BY DEF DiskMarked
<1>1. TypeInv /\ revs \subseteq revs' /\ clock \in Nat
  BY RevsSteps DEF CrlInv, TypeInv, TypeOK
<1>2. CASE disk'[f] \in {disk.index, disk.indexOld, NoFile, <<>>}
  BY <1>1, <1>2, MarkedMore, MarkedEmpty DEF CrlInv, DiskMarked
<1>3. ASSUME NEW p \in Procs, Flushed(p, disk'[f]) PROVE MarkedBy(disk'[f], revs')
  <2>1. mem[p] \in Seq(Entries) /\ MarkedBy(mem[p], revs)
    BY TypeOKSplit DEF CrlInv, TypeInv, LocalOK
  <2>2. /\ Refreshed(mem[p], clock) \in Seq(Entries)
        /\ MarkedBy(Refreshed(mem[p], clock), revs)
    BY <1>1, <2>1, RefreshedType, MarkedRefreshed
  <2> QED
    BY <1>1, <1>3, <2>2, MarkedPartial, MarkedMore DEF Flushed
<1> QED
  BY <1>1, <1>2, <1>3, IndexSteps

LEMMA CrlMarked == CrlInv /\ [Next]_vars => CrlStamped'
<1> SUFFICES ASSUME CrlInv, [Next]_vars, disk'.crl # NoFile, NEW n \in DOMAIN disk'.crl
             PROVE  disk'.crl[n] \subseteq StampedItems(revs')
  BY DEF CrlStamped
<1>1. TypeInv /\ StampedItems(revs) \subseteq StampedItems(revs')
  BY RevsSteps DEF CrlInv, StampedItems
<1>2. CASE disk'.crl = disk.crl
  BY <1>1, <1>2 DEF CrlInv, CrlStamped
<1>3. CASE disk'.crl = <<>>
  BY <1>3
<1>4. ASSUME NEW p \in Procs, disk'.crl = <<CrlOf(mem[p])>>
      PROVE  disk'.crl[n] \subseteq StampedItems(revs')
  <2>1. disk'.crl[n] = CrlOf(mem[p]) /\ MarkedBy(mem[p], revs)
    BY <1>4 DEF CrlInv
  <2>2. CrlOf(mem[p]) \subseteq StampedItems(revs)
    BY <2>1 DEF CrlOf, Listed, MarkedBy, StampedItems
  <2> QED
    BY <1>1, <2>1, <2>2
<1> QED
  BY <1>1, <1>2, <1>3, <1>4, CrlSteps

\* A CRL accuses no certificate that no -revoke command named, and dates the
\* revocation in the year it happened: with any number of commands at once,
\* crashes and failing calls, for as long as the years read back as they were
\* (ca.c puts "20" in front of 00..49 only).
THEOREM CrlSoundUntilPivot == Spec => [](clock < StampPivot => CrlSound)
<1>1. Init => CrlInv
  <2> SUFFICES ASSUME Init PROVE CrlInv
    OBVIOUS
  <2>1. /\ disk.index = <<>> /\ disk.indexOld = NoFile /\ disk.crl = NoFile /\ revs = {}
        /\ \A p \in Procs : mem[p] = <<>>
    BY DEF Init
  <2> QED
    BY <2>1, InitType, MarkedEmpty DEF CrlInv, DiskMarked, CrlStamped, RevsPast
<1>2. CrlInv /\ [Next]_vars => CrlInv'
  BY NextType, RevsSteps, MemMarked, IndexMarked, CrlMarked DEF CrlInv
<1>3. CrlInv => (clock < StampPivot => CrlSound)
  <2> SUFFICES ASSUME CrlInv, clock < StampPivot
               PROVE  StampedItems(revs) = {[serial |-> r.serial, year |-> r.year] : r \in revs}
    BY DEF CrlInv, CrlStamped, CrlSound
  <2>1. ASSUME NEW r \in revs PROVE StampYear(TwoDigits(r.year)) = r.year
    <3>1. r.year \in Nat /\ clock \in Nat /\ r.year < StampPivot /\ StampPivot <= Century
      BY DatesAssumption DEF CrlInv, TypeInv, TypeOK, RevsPast
    <3>2. TwoDigits(r.year) = r.year
      BY <3>1, DatesAssumption DEF TwoDigits
    <3> QED
      BY <3>1, <3>2 DEF StampYear
  <2> QED
    BY <2>1 DEF StampedItems
<1> QED
  BY <1>1, <1>2, <1>3, PTL DEF Spec
=============================================================================
