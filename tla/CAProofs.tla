------------------------------ MODULE CAProofs ------------------------------
(***************************************************************************)
(* Theorems about CA, for every number of processes, every bound, and with *)
(* crashes and failing calls.                                              *)
(***************************************************************************)
EXTENDS CAProps, TLAPS

Disks == [index  : IndexFiles,  indexOld  : IndexFiles,
          attr   : AttrFiles,   attrOld   : AttrFiles,
          serial : SerialFiles, serialOld : SerialFiles,
          crl    : CrlFiles]

\* The lines a step writes are lines of a database.
LEMMA TwoDigitsType == ASSUME NEW y \in Nat PROVE TwoDigits(y) \in Dates
  BY DatesAssumption DEF TwoDigits, Dates

LEMMA NewEntryType == ASSUME NEW c \in Certs PROVE NewEntry(c) \in Entries
  BY TwoDigitsType, CAAssumption DEF NewEntry, Entries, Lines, Certs

LEMMA RefreshedType ==
  ASSUME NEW m \in Seq(Entries), NEW now \in Nat
  PROVE  /\ Refreshed(m, now) \in Seq(Entries)
         /\ Len(Refreshed(m, now)) = Len(m)
<1>1. \A i \in DOMAIN m : m[i] \in Entries
  OBVIOUS
<1>2. \A i \in DOMAIN m : Refreshed(m, now)[i] \in Entries
  BY <1>1 DEF Refreshed, Entries, Lines
<1>3. DOMAIN Refreshed(m, now) = 1 .. Len(m)
  BY DEF Refreshed
<1>4. Refreshed(m, now) \in [1 .. Len(m) -> Entries]
  BY <1>2, <1>3 DEF Refreshed
<1> QED
  BY <1>3, <1>4

\* A cut leaves a line of a database, and may leave the whole line.
LEMMA CutType ==
  ASSUME NEW e \in Entries
  PROVE  Cut(e) \subseteq Entries /\ e \in Cut(e)
<1>1. e \in Lines /\ e.dn \in Names
  BY DEF Entries, Lines
<1>2. e = [e EXCEPT !.dn = e.dn] /\ e.dn \in Beginnings[e.dn] /\ Beginnings[e.dn] \subseteq Names
  BY <1>1, CAAssumption DEF Lines
<1>3. TornLine \in Entries
  BY CAAssumption, DatesAssumption DEF TornLine, Entries, Lines, Dates
<1>4. \A d \in Names : [e EXCEPT !.dn = d] \in Entries
  BY DEF Entries, Lines
<1>5. [e EXCEPT !.revoked = NoDate, !.serial = NoSerial, !.dn = Unknown] \in Entries
  BY CAAssumption DEF Entries, Lines
<1> QED
  BY <1>2, <1>3, <1>4, <1>5 DEF Cut

\* A part of a database is made of its first lines, the last one cut at most.
LEMMA PartialType ==
  ASSUME NEW m \in Seq(Entries), NEW part \in Partial(m)
  PROVE  /\ part \in Seq(Entries)
         /\ \A i \in DOMAIN part : i \in DOMAIN m /\ part[i] \in Cut(m[i])
<1>1. CASE \E k \in 0 .. Len(m) : part = SubSeq(m, 1, k)
  <2>1. part \in Seq(Entries) /\ \A i \in DOMAIN part : i \in DOMAIN m /\ part[i] = m[i]
    BY <1>1
  <2>2. ASSUME NEW i \in DOMAIN part PROVE i \in DOMAIN m /\ part[i] \in Cut(m[i])
    <3>1. m[i] \in Entries /\ i \in DOMAIN m /\ part[i] = m[i]
      BY <2>1
    <3> QED
      BY <3>1, CutType
  <2> QED
    BY <2>1, <2>2
<1>2. CASE \E k \in 1 .. Len(m) : \E e \in Cut(m[k]) : part = Append(SubSeq(m, 1, k - 1), e)
  <2>1. PICK k \in 1 .. Len(m) : \E e \in Cut(m[k]) : part = Append(SubSeq(m, 1, k - 1), e)
    BY <1>2
  <2>2. PICK e \in Cut(m[k]) : part = Append(SubSeq(m, 1, k - 1), e)
    BY <2>1
  <2>3. m[k] \in Entries /\ SubSeq(m, 1, k - 1) \in Seq(Entries)
    BY <2>1
  <2>4. e \in Entries
    BY <2>2, <2>3, CutType
  <2>5. \A i \in DOMAIN part : i \in DOMAIN m /\ (part[i] = m[i] \/ (i = k /\ part[i] = e))
    BY <2>1, <2>2, <2>3, <2>4
  <2>6. ASSUME NEW i \in DOMAIN part PROVE i \in DOMAIN m /\ part[i] \in Cut(m[i])
    <3>1. i \in DOMAIN m /\ m[i] \in Entries
      BY <2>5
    <3> QED
      BY <2>2, <2>5, <3>1, CutType
  <2> QED
    BY <2>2, <2>3, <2>4, <2>6
<1> QED
  BY <1>1, <1>2 DEF Partial

LEMMA CertType ==
  ASSUME NEW c \in Certs, NEW n \in Nat
  PROVE  [c EXCEPT !.serial = n] \in Certs /\ [c EXCEPT !.expiry = n] \in Certs
  BY DEF Certs

LEMMA BlankType == Blank \in Certs
  BY CAAssumption DEF Blank, Certs
----------------------------------------------------------------------------
(* Type correctness *)

\* What a process keeps in memory.
LocalOK ==
  /\ result \in [1 .. MaxRuns -> {"running", "success", "failure", "killed"}]
  /\ pc \in [Procs -> PCs]
  /\ op \in [Procs -> {"none", "sign", "revoke", "gencrl"}]
  /\ run \in [Procs -> 0 .. MaxRuns]
  /\ cert \in [Procs -> Certs]
  /\ mem \in [Procs -> Seq(Entries)]
  /\ uniq \in [Procs -> AttrValues]
  /\ fd \in [Procs -> FileNames \union {"none"}]

EnvOK  == clock \in Nat /\ faults \in Nat /\ runs \in 0 .. MaxRuns
PastOK ==
  /\ certs \subseteq [run : 1 .. MaxRuns, serial : Nat, dn : Names, expiry : Nat]
  /\ revs \subseteq [run : 1 .. MaxRuns, serial : Nat, year : Nat]

\* A process that runs has a mode, and a number by which what it leaves behind
\* can be told apart.
RunOK == \A p \in Procs : pc[p] # "idle" => run[p] \in 1 .. runs /\ op[p] # "none"

\* A descriptor is open only where the file it was opened for is being written;
\* a rename by another process may have moved that file or taken it away.
FdOK ==
  \A p \in Procs :
    /\ pc[p] \notin {"closeIndex", "closeAttr", "closeSerial", "closeCrl"} => fd[p] = "none"
    /\ pc[p] = "closeIndex"  => fd[p] \in {"none", "index", "indexOld"}
    /\ pc[p] = "closeAttr"   => fd[p] \in {"none", "attr", "attrOld"}
    /\ pc[p] = "closeSerial" => fd[p] \in {"none", "serial"}
    /\ pc[p] = "closeCrl"    => fd[p] \in {"none", "crl"}

TypeInv == TypeOK /\ RunOK /\ FdOK

LEMMA TypeOKSplit == TypeOK <=> EnvOK /\ PastOK /\ LocalOK /\ disk \in Disks
  BY DEF TypeOK, EnvOK, PastOK, LocalOK, Disks

LEMMA ExitType ==
  ASSUME LocalOK, RunOK, NEW p \in Procs, pc[p] # "idle",
         NEW code \in {"success", "failure", "killed"},
         Exit(p, code), runs' = runs, runs \in 0 .. MaxRuns
  PROVE  LocalOK' /\ RunOK'
<1>1. run[p] \in 1 .. MaxRuns
  BY CAAssumption DEF RunOK
<1>2. result' \in [1 .. MaxRuns -> {"running", "success", "failure", "killed"}]
  BY <1>1 DEF Exit, LocalOK
<1>3. pc' \in [Procs -> PCs] /\ \A q \in Procs : pc'[q] # "idle" => q # p /\ pc[q] # "idle"
  BY DEF Exit, LocalOK, PCs
<1>4. /\ op' \in [Procs -> {"none", "sign", "revoke", "gencrl"}]
      /\ \A q \in Procs : q # p => op'[q] = op[q]
  BY DEF Exit, LocalOK
<1>5. run' \in [Procs -> 0 .. MaxRuns] /\ \A q \in Procs : q # p => run'[q] = run[q]
  BY CAAssumption DEF Exit, LocalOK
<1>6. cert' \in [Procs -> Certs]
  BY BlankType DEF Exit, LocalOK
<1>7. mem' \in [Procs -> Seq(Entries)]
  BY DEF Exit, LocalOK
<1>8. uniq' \in [Procs -> AttrValues]
  BY DEF Exit, LocalOK, AttrValues
<1>9. fd' \in [Procs -> FileNames \union {"none"}]
  BY DEF Exit, LocalOK
<1>10. RunOK'
  BY <1>3, <1>4, <1>5 DEF RunOK
<1> QED
  BY <1>2, <1>3, <1>4, <1>5, <1>6, <1>7, <1>8, <1>9, <1>10 DEF LocalOK

LEMMA GotoType ==
  ASSUME LocalOK, RunOK, NEW p \in Procs, NEW l \in PCs, pc[p] # "idle",
         Goto(p, l), runs' = runs
  PROVE  /\ pc' \in [Procs -> PCs]
         /\ op' = op /\ run' = run /\ result' = result
         /\ RunOK'
  BY DEF LocalOK, RunOK, Goto

LEMMA WrittenType ==
  ASSUME disk \in Disks, NEW p \in Procs, NEW lines,
         \/ fd[p] \in {"none", "index", "indexOld"} /\ lines \in Seq(Entries)
         \/ fd[p] \in {"none", "attr", "attrOld"} /\ lines \in Seq(AttrValues)
         \/ fd[p] \in {"none", "serial"} /\ lines \in Seq(Nat)
         \/ fd[p] \in {"none", "crl"} /\ lines \in Seq(SUBSET CrlItems)
  PROVE  Written(p, lines) \in Disks
  BY DEF Written, Disks, IndexFiles, AttrFiles, SerialFiles, CrlFiles

LEMMA TruncateType ==
  ASSUME disk \in Disks, LocalOK, NEW p \in Procs,
         NEW f \in {"index", "attr", "serial", "crl"}, Truncate(p, f)
  PROVE  disk' \in Disks /\ fd' \in [Procs -> FileNames \union {"none"}]
<1>1. fd' \in [Procs -> FileNames \union {"none"}]
  BY DEF Truncate, LocalOK, FileNames
<1>6. <<>> \in IndexFiles /\ <<>> \in AttrFiles /\ <<>> \in SerialFiles /\ <<>> \in CrlFiles
  BY DEF IndexFiles, AttrFiles, SerialFiles, CrlFiles
<1>2. CASE f = "index"
  <2>1. disk' = [disk EXCEPT !.index = <<>>]
    BY <1>2 DEF Truncate
  <2>2. disk' \in Disks
    BY <1>6, <2>1 DEF Disks
  <2> QED
    BY <1>1, <2>2
<1>3. CASE f = "attr"
  <2>1. disk' = [disk EXCEPT !.attr = <<>>]
    BY <1>3 DEF Truncate
  <2>2. disk' \in Disks
    BY <1>6, <2>1 DEF Disks
  <2> QED
    BY <1>1, <2>2
<1>4. CASE f = "serial"
  <2>1. disk' = [disk EXCEPT !.serial = <<>>]
    BY <1>4 DEF Truncate
  <2>2. disk' \in Disks
    BY <1>6, <2>1 DEF Disks
  <2> QED
    BY <1>1, <2>2
<1>5. CASE f = "crl"
  <2>1. disk' = [disk EXCEPT !.crl = <<>>]
    BY <1>5 DEF Truncate
  <2>2. disk' \in Disks
    BY <1>6, <2>1 DEF Disks
  <2> QED
    BY <1>1, <2>2
<1> QED
  BY <1>2, <1>3, <1>4, <1>5

LEMMA RenameType ==
  ASSUME disk \in Disks, LocalOK,
         \/ Rename("index", "indexOld") \/ Rename("indexOld", "index")
         \/ Rename("attr", "attrOld")   \/ Rename("attrOld", "attr")
  PROVE  disk' \in Disks /\ fd' \in [Procs -> FileNames \union {"none"}]
<1>1. CASE Rename("index", "indexOld")
  <2>1. fd' \in [Procs -> FileNames \union {"none"}]
    BY <1>1 DEF Rename, LocalOK, FileNames
  <2>2. disk' \in Disks
    BY <1>1 DEF Rename, Disks, IndexFiles
  <2> QED
    BY <2>1, <2>2
<1>2. CASE Rename("indexOld", "index")
  <2>1. fd' \in [Procs -> FileNames \union {"none"}]
    BY <1>2 DEF Rename, LocalOK, FileNames
  <2>2. disk' \in Disks
    BY <1>2 DEF Rename, Disks, IndexFiles
  <2> QED
    BY <2>1, <2>2
<1>3. CASE Rename("attr", "attrOld")
  <2>1. fd' \in [Procs -> FileNames \union {"none"}]
    BY <1>3 DEF Rename, LocalOK, FileNames
  <2>2. disk' \in Disks
    BY <1>3 DEF Rename, Disks, AttrFiles
  <2> QED
    BY <2>1, <2>2
<1>4. CASE Rename("attrOld", "attr")
  <2>1. fd' \in [Procs -> FileNames \union {"none"}]
    BY <1>4 DEF Rename, LocalOK, FileNames
  <2>2. disk' \in Disks
    BY <1>4 DEF Rename, Disks, AttrFiles
  <2> QED
    BY <2>1, <2>2
<1> QED
  BY <1>1, <1>2, <1>3, <1>4

\* A command may meet one more fault, or none; no step starts another command.
LEMMA EnvType ==
  ASSUME EnvOK, NoFault \/ Fault
  PROVE  EnvOK' /\ runs' = runs
  BY DEF EnvOK, NoFault, Fault, env

LEMMA PastType == ASSUME PastOK, UNCHANGED past PROVE PastOK'
  BY DEF PastOK, past

\* A process that ends holds nothing.
LEMMA ExitInv ==
  ASSUME TypeInv, NEW p \in Procs, pc[p] # "idle",
         NEW code \in {"success", "failure", "killed"}, Exit(p, code),
         NoFault \/ Fault, PastOK', disk' \in Disks
  PROVE  TypeInv'
<1>1. EnvOK /\ LocalOK
  BY TypeOKSplit DEF TypeInv
<1>2. EnvOK' /\ runs' = runs
  BY <1>1, EnvType
<1>3. LocalOK' /\ RunOK'
  BY <1>1, <1>2, ExitType DEF TypeInv, EnvOK
<1>4. FdOK'
  <2>1. fd'[p] = "none" /\ \A q \in Procs : q # p => pc'[q] = pc[q] /\ fd'[q] = fd[q]
    BY <1>1 DEF Exit, LocalOK
  <2> QED
    BY <2>1 DEF TypeInv, FdOK
<1>5. TypeOK'
  BY <1>2, <1>3 DEF TypeOK, EnvOK, PastOK, LocalOK, Disks
<1> QED
  BY <1>3, <1>4, <1>5 DEF TypeInv

\* A process that goes on keeps its command and its number.
LEMMA GotoInv ==
  ASSUME TypeInv, NEW p \in Procs, pc[p] # "idle", NEW l \in PCs, Goto(p, l),
         NoFault \/ Fault, PastOK', disk' \in Disks,
         cert' \in [Procs -> Certs], mem' \in [Procs -> Seq(Entries)],
         uniq' \in [Procs -> AttrValues],
         fd' \in [Procs -> FileNames \union {"none"}], FdOK'
  PROVE  TypeInv'
<1>1. EnvOK /\ LocalOK
  BY TypeOKSplit DEF TypeInv
<1>2. EnvOK' /\ runs' = runs
  BY <1>1, EnvType
<1>3. /\ pc' \in [Procs -> PCs]
      /\ op' = op /\ run' = run /\ result' = result
      /\ RunOK'
  BY <1>1, <1>2, GotoType DEF TypeInv
<1>4. LocalOK'
  BY <1>1, <1>3 DEF LocalOK
<1>5. TypeOK'
  BY <1>2, <1>4 DEF TypeOK, EnvOK, PastOK, LocalOK, Disks
<1> QED
  BY <1>3, <1>5 DEF TypeInv

\* Descriptors, when a process without one goes on, opens a file or renames one.
LEMMA FdKept ==
  ASSUME LocalOK, FdOK, NEW p \in Procs, NEW l \in PCs, Goto(p, l),
         fd' = [fd EXCEPT ![p] = "none"],
         l \notin {"closeIndex", "closeAttr", "closeSerial", "closeCrl"}
  PROVE  FdOK' /\ fd' \in [Procs -> FileNames \union {"none"}]
<1>1. /\ fd'[p] = "none" /\ pc'[p] = l
      /\ \A q \in Procs : q # p => pc'[q] = pc[q] /\ fd'[q] = fd[q]
  BY DEF Goto, LocalOK
<1>2. fd' \in [Procs -> FileNames \union {"none"}]
  BY DEF LocalOK
<1> QED
  BY <1>1, <1>2 DEF FdOK

LEMMA FdSame ==
  ASSUME LocalOK, FdOK, NEW p \in Procs, UNCHANGED fd,
         pc[p] \notin {"closeIndex", "closeAttr", "closeSerial", "closeCrl"}
  PROVE  fd' = [fd EXCEPT ![p] = "none"]
  BY DEF LocalOK, FdOK

LEMMA FdOpened ==
  ASSUME LocalOK, FdOK, NEW p \in Procs, NEW f, NEW l \in PCs, Goto(p, l), Truncate(p, f),
         <<l, f>> \in {<<"closeIndex", "index">>, <<"closeAttr", "attr">>,
                      <<"closeSerial", "serial">>, <<"closeCrl", "crl">>}
  PROVE  FdOK'
<1>1. /\ fd'[p] = f /\ pc'[p] = l
      /\ \A q \in Procs : q # p => pc'[q] = pc[q] /\ fd'[q] = fd[q]
  BY DEF Goto, Truncate, LocalOK
<1> QED
  BY <1>1 DEF FdOK

LEMMA FdRenamed ==
  ASSUME LocalOK, FdOK, NEW p \in Procs, NEW l \in {"createIndex", "createAttr"},
         fd[p] = "none", Goto(p, l),
         Rename("index", "indexOld") \/ Rename("attr", "attrOld")
  PROVE  FdOK'
<1>1. /\ pc'[p] = l /\ fd'[p] = "none"
      /\ \A q \in Procs : q # p => pc'[q] = pc[q]
  BY DEF Goto, Rename, LocalOK
<1>2. CASE Rename("index", "indexOld")
  BY <1>1, <1>2 DEF FdOK, Rename
<1>3. CASE Rename("attr", "attrOld")
  BY <1>1, <1>3 DEF FdOK, Rename
<1> QED
  BY <1>2, <1>3

LEMMA InitType == Init => TypeInv
<1> SUFFICES ASSUME Init PROVE TypeInv
  OBVIOUS
<1>1. EnvOK /\ PastOK
  BY CAAssumption DEF Init, EnvOK, PastOK
<1>2. LocalOK
  <2>1. mem \in [Procs -> Seq(Entries)]
    <3>1. <<>> \in Seq(Entries)
      OBVIOUS
    <3> QED
      BY <3>1 DEF Init
  <2>2. cert \in [Procs -> Certs]
    BY BlankType DEF Init
  <2>3. /\ pc \in [Procs -> PCs] /\ uniq \in [Procs -> AttrValues]
        /\ run \in [Procs -> 0 .. MaxRuns]
    BY CAAssumption DEF Init, PCs, AttrValues
  <2> QED
    BY <2>1, <2>2, <2>3 DEF Init, LocalOK
<1>3. disk \in Disks
  <2>1. PICK a \in InitAttr :
          disk = [index  |-> <<>>,            indexOld  |-> NoFile,
                  attr   |-> <<a>>,           attrOld   |-> NoFile,
                  serial |-> <<FirstSerial>>, serialOld |-> NoFile,
                  crl    |-> NoFile]
    BY DEF Init
  <2>2. <<>> \in Seq(Entries) /\ <<a>> \in Seq(AttrValues) /\ <<FirstSerial>> \in Seq(Nat)
    BY CAAssumption
  <2> QED
    BY <2>1, <2>2 DEF Disks, IndexFiles, AttrFiles, SerialFiles, CrlFiles
<1>4. RunOK /\ FdOK
  BY DEF Init, RunOK, FdOK
<1> QED
  BY <1>1, <1>2, <1>3, <1>4, TypeOKSplit DEF TypeInv

LEMMA InvokeType ==
  ASSUME TypeInv, NEW p \in Procs, Invoke(p)
  PROVE  TypeInv'
<1>1. EnvOK /\ PastOK /\ LocalOK /\ disk \in Disks
  BY TypeOKSplit DEF TypeInv
<1>2. runs \in Nat /\ runs + 1 \in 1 .. MaxRuns
  BY <1>1, CAAssumption DEF EnvOK, Invoke
<1>3. EnvOK' /\ PastOK' /\ disk' \in Disks
  BY <1>1, <1>2 DEF EnvOK, PastOK, Invoke
<1>4. run' \in [Procs -> 0 .. MaxRuns] /\ pc' \in [Procs -> PCs]
  BY <1>1, <1>2 DEF Invoke, LocalOK, PCs
<1>5. op' \in [Procs -> {"none", "sign", "revoke", "gencrl"}] /\ cert' \in [Procs -> Certs]
  <2>1. CASE \E d \in Subjects : /\ op' = [op EXCEPT ![p] = "sign"]
                                 /\ cert' = [cert EXCEPT ![p] = [Blank EXCEPT !.dn = d]]
    <3>1. \A d \in Subjects : [Blank EXCEPT !.dn = d] \in Certs
      BY BlankType, CAAssumption DEF Certs
    <3> QED
      BY <1>1, <2>1, <3>1 DEF LocalOK
  <2>2. CASE \E n \in Presented : /\ op' = [op EXCEPT ![p] = "revoke"]
                                  /\ cert' = [cert EXCEPT ![p] = [Blank EXCEPT !.serial = n]]
    <3>1. \A n \in Presented : [Blank EXCEPT !.serial = n] \in Certs
      BY BlankType, CAAssumption DEF Certs
    <3> QED
      BY <1>1, <2>2, <3>1 DEF LocalOK
  <2>3. CASE op' = [op EXCEPT ![p] = "gencrl"] /\ UNCHANGED cert
    BY <1>1, <2>3 DEF LocalOK
  <2> QED
    BY <2>1, <2>2, <2>3 DEF Invoke
<1>6. LocalOK'
  BY <1>1, <1>4, <1>5 DEF Invoke, LocalOK
<1>7. RunOK' /\ FdOK'
  <2>1. /\ run'[p] = runs + 1 /\ pc'[p] = "readIndex" /\ fd' = fd /\ runs' = runs + 1
        /\ \A q \in Procs : q # p => run'[q] = run[q] /\ pc'[q] = pc[q]
        /\ pc[p] = "idle"
    BY <1>1 DEF Invoke, LocalOK
  <2>4. op'[p] # "none" /\ \A q \in Procs : q # p => op'[q] = op[q]
    BY <1>1 DEF Invoke, LocalOK
  <2>2. RunOK'
    BY <1>1, <1>2, <2>1, <2>4 DEF TypeInv, RunOK, LocalOK
  <2>3. FdOK'
    BY <2>1 DEF TypeInv, FdOK
  <2> QED
    BY <2>2, <2>3
<1> QED
  BY <1>3, <1>6, <1>7 DEF TypeInv, TypeOK, EnvOK, PastOK, LocalOK, Disks

LEMMA TickType ==
  ASSUME TypeInv, Tick
  PROVE  TypeInv'
<1>1. clock' \in Nat
  BY DEF TypeInv, TypeOK, Tick
<1> QED
  BY <1>1 DEF TypeInv, TypeOK, RunOK, FdOK, Tick, local

LEMMA RestoreType ==
  ASSUME TypeInv, Restore
  PROVE  TypeInv'
<1>1. EnvOK /\ PastOK /\ LocalOK /\ disk \in Disks
  BY TypeOKSplit DEF TypeInv
<1>2. Rename("indexOld", "index") \/ Rename("attrOld", "attr")
  BY DEF Restore
<1>3. disk' \in Disks /\ fd' \in [Procs -> FileNames \union {"none"}]
  BY <1>1, <1>2, RenameType
<1>4. \A q \in Procs : fd[q] = "none" /\ pc[q] = "idle"
  BY DEF Restore, TypeInv, FdOK
<1>5. \A q \in Procs : fd'[q] = "none"
  BY <1>2, <1>4 DEF Rename
<1>6. RunOK' /\ FdOK'
  BY <1>4, <1>5 DEF Restore, local, RunOK, FdOK
<1> QED
  BY <1>1, <1>3, <1>6 DEF TypeInv, TypeOK, EnvOK, PastOK, LocalOK, Disks, Restore, env, local

LEMMA StutterType ==
  ASSUME TypeInv, UNCHANGED vars
  PROVE  TypeInv'
  BY DEF TypeInv, TypeOK, RunOK, FdOK, vars
----------------------------------------------------------------------------
(* One lemma for each group of steps that end or go on in the same way *)

\* The steps that read: they end the command, or go on with what they read.
LEMMA ReadType ==
  ASSUME TypeInv, NEW p \in Procs,
         ReadIndex(p) \/ ReadAttr(p) \/ Refuse(p) \/ ReadSerial(p)
  PROVE  TypeInv'
<1>1. EnvOK /\ PastOK /\ LocalOK /\ disk \in Disks /\ FdOK
  BY TypeOKSplit DEF TypeInv
<1>2. NoFault /\ PastOK' /\ disk' \in Disks /\ pc[p] # "idle"
  BY <1>1, PastType DEF ReadIndex, ReadAttr, Refuse, ReadSerial, NoFault
<1>3. CASE \E code \in {"failure", "killed"} : Exit(p, code)
  BY <1>2, <1>3, ExitInv
<1>4. CASE ReadIndex(p) /\ disk.index # NoFile
  <2>1. /\ mem' = [mem EXCEPT ![p] = disk.index]
        /\ Goto(p, "readAttr") /\ UNCHANGED <<cert, uniq, fd>>
    BY <1>4 DEF ReadIndex
  <2>2. disk.index \in Seq(Entries)
    BY <1>1, <1>4 DEF Disks, IndexFiles
  <2>3. fd' = [fd EXCEPT ![p] = "none"]
    BY <1>1, <1>4, <2>1, FdSame DEF ReadIndex
  <2>4. "readAttr" \in PCs
    BY DEF PCs
  <2>5. FdOK' /\ fd' \in [Procs -> FileNames \union {"none"}]
    BY <1>1, <2>1, <2>3, <2>4, FdKept
  <2> QED
    BY <1>1, <1>2, <2>1, <2>2, <2>4, <2>5, GotoInv DEF LocalOK
<1>5. CASE ReadAttr(p) /\ disk.attr \notin {NoFile, <<>>}
  <2>1. PICK l \in {"lookup", "openCrl", "readSerial"} :
          /\ Goto(p, l) /\ uniq' = [uniq EXCEPT ![p] = disk.attr[1]]
          /\ UNCHANGED <<cert, mem, fd>>
    <3>1. op[p] \in {"sign", "revoke", "gencrl"}
      BY <1>1, <1>5 DEF ReadAttr, TypeInv, RunOK, LocalOK
    <3> QED
      BY <1>5, <3>1 DEF ReadAttr
  <2>2. disk.attr[1] \in AttrValues
    <3>1. disk.attr \in Seq(AttrValues) /\ disk.attr # <<>>
      BY <1>1, <1>5 DEF Disks, AttrFiles
    <3> QED
      BY <3>1
  <2>3. fd' = [fd EXCEPT ![p] = "none"]
    BY <1>1, <1>5, <2>1, FdSame DEF ReadAttr
  <2>4. l \in PCs
    BY DEF PCs
  <2>5. FdOK' /\ fd' \in [Procs -> FileNames \union {"none"}]
    BY <1>1, <2>1, <2>3, <2>4, FdKept
  <2> QED
    BY <1>1, <1>2, <2>1, <2>2, <2>4, <2>5, GotoInv DEF LocalOK
<1>6. CASE ReadSerial(p) /\ disk.serial \notin {NoFile, <<>>}
  <2>1. /\ cert' = [cert EXCEPT ![p].serial = disk.serial[1]]
        /\ Goto(p, "checkUnique") /\ UNCHANGED <<mem, uniq, fd>>
    BY <1>6 DEF ReadSerial
  <2>2. disk.serial[1] \in Nat
    <3>1. disk.serial \in Seq(Nat) /\ disk.serial # <<>>
      BY <1>1, <1>6 DEF Disks, SerialFiles
    <3> QED
      BY <3>1
  <2>3. cert' \in [Procs -> Certs]
    <3>1. [cert[p] EXCEPT !.serial = disk.serial[1]] \in Certs
      BY <1>1, <2>2, CertType DEF LocalOK
    <3> QED
      BY <1>1, <2>1, <3>1 DEF LocalOK
  <2>4. "checkUnique" \in PCs
    BY DEF PCs
  <2>5. fd' = [fd EXCEPT ![p] = "none"]
    BY <1>1, <1>6, <2>1, FdSame DEF ReadSerial
  <2>6. FdOK' /\ fd' \in [Procs -> FileNames \union {"none"}]
    BY <1>1, <2>1, <2>4, <2>5, FdKept
  <2> QED
    BY <1>1, <1>2, <2>1, <2>3, <2>4, <2>6, GotoInv DEF LocalOK
<1> QED
  BY <1>3, <1>4, <1>5, <1>6 DEF ReadIndex, ReadAttr, Refuse, ReadSerial

LEMMA LookupType ==
  ASSUME TypeInv, NEW p \in Procs, Lookup(p)
  PROVE  TypeInv'
<1>1. EnvOK /\ PastOK /\ LocalOK /\ disk \in Disks /\ FdOK
  BY TypeOKSplit DEF TypeInv
<1>2. NoFault /\ disk' \in Disks /\ pc[p] = "lookup"
  BY <1>1 DEF Lookup, NoFault
<1>3. CASE Exit(p, "failure") /\ UNCHANGED revs
  <2>1. PastOK'
    BY <1>1, <1>3 DEF PastOK, Lookup
  <2> QED
    BY <1>2, <1>3, <2>1, ExitInv
<1>4. CASE ~(Exit(p, "failure") /\ UNCHANGED revs)
  <2>1. PICK i \in DOMAIN mem[p] :
          /\ mem' = [mem EXCEPT ![p] = [@ EXCEPT ![i].status  = "R",
                                                 ![i].revoked = TwoDigits(clock)]]
          /\ revs' = revs \union {[run |-> run[p], serial |-> cert[p].serial, year |-> clock]}
          /\ Goto(p, "renameIndex") /\ UNCHANGED <<cert, uniq, fd>>
          /\ mem[p][i].serial = cert[p].serial
    BY <1>4 DEF Lookup, FirstMatch
  <2>2. TwoDigits(clock) \in Dates
    BY <1>1, TwoDigitsType DEF EnvOK
  <2>3. mem' \in [Procs -> Seq(Entries)]
    <3>1. mem[p] \in Seq(Entries) /\ mem[p][i] \in Entries
      BY <1>1, <2>1 DEF LocalOK
    <3>4. TwoDigits(clock) # NoDate /\ mem[p][i].serial # NoSerial
      BY <1>1, <2>1, <2>2, CAAssumption DEF LocalOK, Certs
    <3>2. [mem[p][i] EXCEPT !.status = "R", !.revoked = TwoDigits(clock)] \in Entries
      BY <3>1, <2>2, <3>4 DEF Entries, Lines
    <3>3. mem' = [mem EXCEPT ![p] = [mem[p] EXCEPT ![i] =
                    [mem[p][i] EXCEPT !.status = "R", !.revoked = TwoDigits(clock)]]]
      BY <1>1, <2>1, <3>1 DEF LocalOK, Entries, Lines
    <3> QED
      BY <1>1, <3>1, <3>2, <3>3 DEF LocalOK
  <2>4. PastOK'
    <3>1. run[p] \in 1 .. MaxRuns /\ cert[p].serial \in Nat /\ clock \in Nat
      BY <1>1, <1>2, CAAssumption DEF TypeInv, RunOK, LocalOK, EnvOK, Certs
    <3> QED
      BY <1>1, <2>1, <3>1 DEF PastOK, Lookup
  <2>5. "renameIndex" \in PCs
    BY DEF PCs
  <2>6. FdOK' /\ fd' \in [Procs -> FileNames \union {"none"}]
    BY <1>1, <1>2, <2>1, <2>5, FdSame, FdKept
  <2> QED
    BY <1>1, <1>2, <2>1, <2>3, <2>4, <2>5, <2>6, GotoInv DEF LocalOK
<1> QED
  BY <1>3, <1>4

LEMMA CheckUniqueType ==
  ASSUME TypeInv, NEW p \in Procs, CheckUnique(p)
  PROVE  TypeInv'
<1>1. EnvOK /\ PastOK /\ LocalOK /\ disk \in Disks /\ FdOK
  BY TypeOKSplit DEF TypeInv
<1>2. NoFault /\ PastOK' /\ disk' \in Disks /\ pc[p] = "checkUnique"
  BY <1>1, PastType DEF CheckUnique, NoFault
<1>3. CASE \E code \in {"failure", "killed"} : Exit(p, code)
  BY <1>2, <1>3, ExitInv
<1>4. CASE ~ \E code \in {"failure", "killed"} : Exit(p, code)
  <2>1. PICK life \in Lifetimes :
          /\ cert' = [cert EXCEPT ![p].expiry = clock + life]
          /\ Goto(p, "writeCert") /\ UNCHANGED <<mem, uniq, fd>>
    BY <1>4 DEF CheckUnique
  <2>2. cert' \in [Procs -> Certs]
    <3>1. clock + life \in Nat
      BY <1>1, CAAssumption DEF EnvOK
    <3>2. [cert[p] EXCEPT !.expiry = clock + life] \in Certs
      BY <1>1, <3>1, CertType DEF LocalOK
    <3> QED
      BY <1>1, <2>1, <3>2 DEF LocalOK
  <2>3. "writeCert" \in PCs
    BY DEF PCs
  <2>4. FdOK' /\ fd' \in [Procs -> FileNames \union {"none"}]
    BY <1>1, <1>2, <2>1, <2>3, FdSame, FdKept
  <2> QED
    BY <1>1, <1>2, <2>1, <2>2, <2>3, <2>4, GotoInv DEF LocalOK
<1> QED
  BY <1>3, <1>4

LEMMA WriteCertType ==
  ASSUME TypeInv, NEW p \in Procs, WriteCert(p)
  PROVE  TypeInv'
<1>1. EnvOK /\ PastOK /\ LocalOK /\ disk \in Disks /\ FdOK
  BY TypeOKSplit DEF TypeInv
<1>2. disk' \in Disks /\ pc[p] = "writeCert" /\ UNCHANGED revs
  BY <1>1 DEF WriteCert
<1>3. CASE Fault /\ Exit(p, "failure") /\ UNCHANGED certs
  <2>1. PastOK'
    BY <1>1, <1>2, <1>3 DEF PastOK
  <2> QED
    BY <1>2, <1>3, <2>1, ExitInv
<1>4. CASE ~(Fault /\ Exit(p, "failure") /\ UNCHANGED certs)
  <2>1. /\ certs' = certs \union {[run |-> run[p], serial |-> cert[p].serial,
                                   dn |-> cert[p].dn, expiry |-> cert[p].expiry]}
        /\ NoFault \/ Fault
        /\ Goto(p, "saveSerial") /\ UNCHANGED <<cert, mem, uniq, fd>>
    BY <1>4 DEF WriteCert
  <2>2. PastOK'
    <3>1. run[p] \in 1 .. MaxRuns /\ cert[p] \in Certs
      BY <1>1, <1>2, CAAssumption DEF TypeInv, RunOK, LocalOK, EnvOK
    <3> QED
      BY <1>1, <1>2, <2>1, <3>1 DEF PastOK, Certs
  <2>3. "saveSerial" \in PCs
    BY DEF PCs
  <2>4. FdOK' /\ fd' \in [Procs -> FileNames \union {"none"}]
    BY <1>1, <1>2, <2>1, <2>3, FdSame, FdKept
  <2> QED
    BY <1>1, <1>2, <2>1, <2>2, <2>3, <2>4, GotoInv DEF LocalOK
<1> QED
  BY <1>3, <1>4

\* The steps that open a file: they end the command, or truncate the file.
LEMMA OpenType ==
  ASSUME TypeInv, NEW p \in Procs,
         OpenCrl(p) \/ OpenSerial(p) \/ CreateIndex(p) \/ CreateAttr(p)
  PROVE  TypeInv'
<1>1. EnvOK /\ PastOK /\ LocalOK /\ disk \in Disks /\ FdOK
  BY TypeOKSplit DEF TypeInv
<1>2. PastOK' /\ (NoFault \/ Fault) /\ pc[p] # "idle"
  BY <1>1, PastType DEF OpenCrl, OpenSerial, CreateIndex, CreateAttr
<1>3. CASE (\E code \in {"success", "failure", "killed"} : Exit(p, code)) /\ UNCHANGED disk
  BY <1>1, <1>2, <1>3, ExitInv
<1>4. CASE ~((\E code \in {"success", "failure", "killed"} : Exit(p, code)) /\ UNCHANGED disk)
  <2>1. PICK f, l : /\ <<l, f>> \in {<<"closeIndex", "index">>, <<"closeAttr", "attr">>,
                                     <<"closeSerial", "serial">>, <<"closeCrl", "crl">>}
                    /\ Truncate(p, f) /\ Goto(p, l) /\ UNCHANGED <<cert, mem, uniq>>
    BY <1>4 DEF OpenCrl, OpenSerial, CreateIndex, CreateAttr
  <2>2. f \in {"index", "attr", "serial", "crl"} /\ l \in PCs
    BY <2>1 DEF PCs
  <2>3. disk' \in Disks /\ fd' \in [Procs -> FileNames \union {"none"}]
    BY <1>1, <2>1, <2>2, TruncateType
  <2>4. FdOK'
    BY <1>1, <2>1, <2>2, FdOpened
  <2> QED
    BY <1>1, <1>2, <2>1, <2>2, <2>3, <2>4, GotoInv DEF LocalOK
<1> QED
  BY <1>3, <1>4

LEMMA SaveSerialType ==
  ASSUME TypeInv, NEW p \in Procs, SaveSerial(p)
  PROVE  TypeInv'
<1>1. EnvOK /\ PastOK /\ LocalOK /\ disk \in Disks /\ FdOK
  BY TypeOKSplit DEF TypeInv
<1>2. PastOK' /\ (NoFault \/ Fault) /\ pc[p] = "saveSerial"
  BY <1>1, PastType DEF SaveSerial
<1>3. CASE Exit(p, "failure") /\ UNCHANGED disk
  BY <1>1, <1>2, <1>3, ExitInv
<1>4. CASE ~(Exit(p, "failure") /\ UNCHANGED disk)
  <2>1. /\ disk' = [disk EXCEPT !.serialOld = <<cert[p].serial>>]
        /\ Goto(p, "openSerial") /\ UNCHANGED <<cert, mem, uniq, fd>>
    BY <1>4 DEF SaveSerial
  <2>2. disk' \in Disks
    <3>1. cert[p].serial \in Nat
      BY <1>1 DEF LocalOK, Certs
    <3>2. <<cert[p].serial>> \in SerialFiles
      BY <3>1 DEF SerialFiles
    <3> QED
      BY <1>1, <2>1, <3>2 DEF Disks
  <2>3. "openSerial" \in PCs
    BY DEF PCs
  <2>4. FdOK' /\ fd' \in [Procs -> FileNames \union {"none"}]
    BY <1>1, <1>2, <2>1, <2>3, FdSame, FdKept
  <2> QED
    BY <1>1, <1>2, <2>1, <2>2, <2>3, <2>4, GotoInv DEF LocalOK
<1> QED
  BY <1>3, <1>4

LEMMA RenameStepType ==
  ASSUME TypeInv, NEW p \in Procs, RenameIndex(p) \/ RenameAttr(p)
  PROVE  TypeInv'
<1>1. EnvOK /\ PastOK /\ LocalOK /\ disk \in Disks /\ FdOK
  BY TypeOKSplit DEF TypeInv
<1>2. PastOK' /\ (NoFault \/ Fault) /\ pc[p] \in {"renameIndex", "renameAttr"}
  BY <1>1, PastType DEF RenameIndex, RenameAttr
<1>3. CASE Exit(p, "failure") /\ UNCHANGED disk
  BY <1>1, <1>2, <1>3, ExitInv
<1>4. CASE ~(Exit(p, "failure") /\ UNCHANGED disk)
  <2>1. PICK l \in {"createIndex", "createAttr"} :
          /\ Rename("index", "indexOld") \/ Rename("attr", "attrOld")
          /\ Goto(p, l) /\ UNCHANGED <<cert, mem, uniq>>
    BY <1>4 DEF RenameIndex, RenameAttr
  <2>2. l \in PCs /\ fd[p] = "none"
    BY <1>1, <1>2 DEF PCs, FdOK
  <2>3. disk' \in Disks /\ fd' \in [Procs -> FileNames \union {"none"}]
    BY <1>1, <2>1, RenameType
  <2>4. FdOK'
    BY <1>1, <2>1, <2>2, FdRenamed
  <2> QED
    BY <1>1, <1>2, <2>1, <2>2, <2>3, <2>4, GotoInv DEF LocalOK
<1> QED
  BY <1>3, <1>4

\* What a process has to write when it closes a file, whole or in part.
LEMMA CrlType ==
  ASSUME NEW m \in Seq(Entries)
  PROVE  CrlOf(m) \in SUBSET CrlItems
<1>1. ASSUME NEW i \in Listed(m)
      PROVE  [serial |-> m[i].serial, year |-> StampYear(m[i].revoked)] \in CrlItems
  <2>1. m[i] \in Entries /\ m[i].revoked # NoDate
    BY DEF Listed
  <2>2. m[i].serial \in Nat /\ m[i].revoked \in Dates
    BY <2>1 DEF Entries, Lines
  <2>3. StampYear(m[i].revoked) \in Int
    BY <2>2, DatesAssumption DEF StampYear, Dates
  <2> QED
    BY <2>2, <2>3 DEF CrlItems
<1> QED
  BY <1>1 DEF CrlOf

\* The lines flushed to the database, all or part of them, by a command that
\* closes it, is killed or crashes.
LEMMA FlushedType ==
  ASSUME TypeInv, NEW p \in Procs, pc[p] = "closeIndex",
         \/ disk' = Written(p, Refreshed(mem[p], clock))
         \/ \E part \in Partial(Refreshed(mem[p], clock)) : disk' = Written(p, part)
  PROVE  disk' \in Disks
<1>1. EnvOK /\ LocalOK /\ disk \in Disks
  BY TypeOKSplit DEF TypeInv
<1>2. Refreshed(mem[p], clock) \in Seq(Entries)
  BY <1>1, RefreshedType DEF LocalOK, EnvOK
<1>3. PICK lines \in Seq(Entries) : disk' = Written(p, lines)
  BY <1>2, PartialType
<1>4. fd[p] \in {"none", "index", "indexOld"}
  BY DEF TypeInv, FdOK
<1> QED
  BY <1>1, <1>3, <1>4, WrittenType

LEMMA CloseIndexType ==
  ASSUME TypeInv, NEW p \in Procs, CloseIndex(p)
  PROVE  TypeInv'
<1>1. EnvOK /\ PastOK /\ LocalOK /\ FdOK
  BY TypeOKSplit DEF TypeInv
<1>2. PastOK' /\ (NoFault \/ Fault) /\ pc[p] = "closeIndex"
  BY <1>1, PastType DEF CloseIndex
<1>3. disk' \in Disks
  BY <1>2, FlushedType DEF CloseIndex
<1>4. CASE Exit(p, "success")
  BY <1>2, <1>3, <1>4, ExitInv
<1>5. CASE ~Exit(p, "success")
  <2>1. fd' = [fd EXCEPT ![p] = "none"] /\ Goto(p, "renameAttr") /\ UNCHANGED <<cert, mem, uniq>>
    BY <1>5 DEF CloseIndex
  <2>2. "renameAttr" \in PCs
    BY DEF PCs
  <2>3. FdOK' /\ fd' \in [Procs -> FileNames \union {"none"}]
    BY <1>1, <2>1, <2>2, FdKept
  <2> QED
    BY <1>1, <1>2, <1>3, <2>1, <2>2, <2>3, GotoInv DEF LocalOK
<1> QED
  BY <1>4, <1>5

LEMMA CloseSerialType ==
  ASSUME TypeInv, NEW p \in Procs, CloseSerial(p)
  PROVE  TypeInv'
<1>1. EnvOK /\ PastOK /\ LocalOK /\ disk \in Disks /\ FdOK
  BY TypeOKSplit DEF TypeInv
<1>2. PastOK' /\ (NoFault \/ Fault) /\ pc[p] = "closeSerial"
  BY <1>1, PastType DEF CloseSerial
<1>3. cert[p] \in Certs /\ mem[p] \in Seq(Entries)
  BY <1>1 DEF LocalOK
<1>4. disk' \in Disks
  <2>1. <<NextSerial(cert[p].serial)>> \in Seq(Nat)
    BY <1>3 DEF NextSerial, Certs
  <2>2. fd[p] \in {"none", "serial"}
    BY <1>1, <1>2 DEF FdOK
  <2>3. Written(p, <<NextSerial(cert[p].serial)>>) \in Disks
    BY <1>1, <2>1, <2>2, WrittenType
  <2> QED
    BY <1>1, <2>3 DEF CloseSerial
<1>5. CASE Exit(p, "failure")
  BY <1>2, <1>4, <1>5, ExitInv
<1>6. CASE ~Exit(p, "failure")
  <2>1. /\ fd' = [fd EXCEPT ![p] = "none"] /\ Goto(p, "renameIndex")
        /\ mem' = [mem EXCEPT ![p] = Recorded(mem[p], cert[p])] /\ UNCHANGED <<cert, uniq>>
    BY <1>1, <1>6 DEF CloseSerial
  <2>2. mem' \in [Procs -> Seq(Entries)]
    <3>1. Recorded(mem[p], cert[p]) \in Seq(Entries)
      BY <1>3, NewEntryType DEF Recorded
    <3> QED
      BY <1>1, <2>1, <3>1 DEF LocalOK
  <2>3. "renameIndex" \in PCs
    BY DEF PCs
  <2>4. FdOK' /\ fd' \in [Procs -> FileNames \union {"none"}]
    BY <1>1, <2>1, <2>3, FdKept
  <2> QED
    BY <1>1, <1>2, <1>4, <2>1, <2>2, <2>3, <2>4, GotoInv DEF LocalOK
<1> QED
  BY <1>5, <1>6

\* The last step of -gencrl and of sign: the file is closed, the command ends.
LEMMA CloseLastType ==
  ASSUME TypeInv, NEW p \in Procs, CloseCrl(p) \/ CloseAttr(p)
  PROVE  TypeInv'
<1>1. EnvOK /\ PastOK /\ LocalOK /\ disk \in Disks /\ FdOK
  BY TypeOKSplit DEF TypeInv
<1>2. /\ PastOK' /\ (NoFault \/ Fault) /\ pc[p] # "idle"
      /\ \E code \in {"success", "failure"} : Exit(p, code)
  BY <1>1, PastType DEF CloseCrl, CloseAttr
<1>3. CASE CloseCrl(p)
  <2>1. CrlOf(mem[p]) \in SUBSET CrlItems
    BY <1>1, CrlType DEF LocalOK
  <2>2. <<CrlOf(mem[p])>> \in Seq(SUBSET CrlItems)
    BY <2>1
  <2>3. Written(p, <<CrlOf(mem[p])>>) \in Disks
    <3>1. fd[p] \in {"none", "crl"}
      BY <1>1, <1>3 DEF FdOK, CloseCrl
    <3> QED
      BY <1>1, <2>2, <3>1, WrittenType
  <2>4. disk' \in Disks
    BY <1>1, <1>3, <2>3 DEF CloseCrl
  <2> QED
    BY <1>2, <2>4, ExitInv
<1>4. CASE CloseAttr(p)
  <2>1. <<uniq[p]>> \in Seq(AttrValues)
    BY <1>1 DEF LocalOK
  <2>2. Written(p, <<uniq[p]>>) \in Disks
    <3>1. fd[p] \in {"none", "attr", "attrOld"}
      BY <1>1, <1>4 DEF FdOK, CloseAttr
    <3> QED
      BY <1>1, <2>1, <3>1, WrittenType
  <2>3. disk' \in Disks
    BY <1>1, <1>4, <2>2 DEF CloseAttr
  <2> QED
    BY <1>2, <2>3, ExitInv
<1> QED
  BY <1>3, <1>4

LEMMA DeathType ==
  ASSUME TypeInv, NEW p \in Procs, DieOnTorn(p) \/ Crash(p)
  PROVE  TypeInv'
<1>1. EnvOK /\ PastOK /\ LocalOK /\ disk \in Disks
  BY TypeOKSplit DEF TypeInv
<1>2. PastOK' /\ (NoFault \/ Fault) /\ pc[p] # "idle" /\ Exit(p, "killed")
  BY <1>1, PastType DEF DieOnTorn, Crash, UsesTorn, NoFault, past
<1>3. disk' \in Disks
  BY <1>1, FlushedType DEF DieOnTorn, Crash
<1> QED
  BY <1>2, <1>3, ExitInv

LEMMA FlushIndexType ==
  ASSUME TypeInv, NEW p \in Procs, FlushIndex(p)
  PROVE  TypeInv'
<1>1. disk' \in Disks
  BY FlushedType DEF FlushIndex
<1> QED
  BY <1>1 DEF FlushIndex, TypeInv, TypeOK, RunOK, FdOK, Disks, env, past, local

LEMMA NextType == TypeInv /\ [Next]_vars => TypeInv'
<1> SUFFICES ASSUME TypeInv, [Next]_vars PROVE TypeInv'
  OBVIOUS
<1>1. ASSUME NEW p \in Procs, Step(p) PROVE TypeInv'
  BY <1>1, ReadType, LookupType, OpenType, CloseLastType, CheckUniqueType, WriteCertType,
     SaveSerialType, CloseSerialType, RenameStepType, CloseIndexType, DeathType DEF Step
<1>2. ASSUME NEW p \in Procs, Crash(p) PROVE TypeInv'
  BY <1>2, DeathType
<1> QED
  BY <1>1, <1>2, InvokeType, FlushIndexType, TickType, RestoreType, StutterType DEF Next

\* Whatever the number of processes and whatever goes wrong, the files hold
\* lines of their own formats and every revoked line has its date.
THEOREM TypeCorrect == Spec => []TypeOK
<1>1. TypeInv => TypeOK
  BY DEF TypeInv
<1> QED
  BY <1>1, InitType, NextType, PTL DEF Spec
----------------------------------------------------------------------------
(* What a step can do to the lines, whichever step it is *)

\* The entries in memory: read from the database, one of them revoked, one
\* added for a certificate just signed, or gone with the process.
LEMMA MemSteps ==
  ASSUME TypeInv, [Next]_vars, NEW q \in Procs
  PROVE  \/ mem'[q] = mem[q]
         \/ mem'[q] = <<>> /\ pc'[q] = "idle"
         \/ ReadIndex(q) /\ disk.index # NoFile /\ mem'[q] = disk.index
         \/ /\ Lookup(q)
            /\ revs' = revs \union {[run |-> run[q], serial |-> cert[q].serial, year |-> clock]}
            /\ \E i \in DOMAIN mem[q] :
                 /\ FirstMatch(mem[q], cert[q].serial, i)
                 /\ mem'[q] = [mem[q] EXCEPT ![i].status = "R", ![i].revoked = TwoDigits(clock)]
         \/ CloseSerial(q) /\ mem'[q] = Recorded(mem[q], cert[q])
<1>1. mem \in [Procs -> Seq(Entries)] /\ pc \in [Procs -> PCs]
  BY TypeOKSplit DEF TypeInv, LocalOK
<1>2. ASSUME NEW p \in Procs, \E code : Exit(p, code)
      PROVE  mem'[q] = mem[q] \/ (mem'[q] = <<>> /\ pc'[q] = "idle")
  BY <1>1, <1>2 DEF Exit
<1>3. ASSUME NEW p \in Procs, Step(p) \/ Crash(p), ~ \E code : Exit(p, code), mem'[q] # mem[q]
      PROVE  ReadIndex(p) \/ Lookup(p) \/ CloseSerial(p)
  <2>1. CASE ReadAttr(p) \/ Refuse(p) \/ OpenCrl(p) \/ CloseCrl(p) \/ ReadSerial(p)
             \/ CheckUnique(p) \/ WriteCert(p) \/ SaveSerial(p) \/ OpenSerial(p)
    BY <1>3, <2>1 DEF ReadAttr, Refuse, OpenCrl, CloseCrl, ReadSerial, CheckUnique, WriteCert,
                      SaveSerial, OpenSerial
  <2>2. CASE RenameIndex(p) \/ CreateIndex(p) \/ CloseIndex(p) \/ RenameAttr(p)
             \/ CreateAttr(p) \/ CloseAttr(p) \/ DieOnTorn(p) \/ Crash(p)
    BY <1>3, <2>2 DEF RenameIndex, CreateIndex, CloseIndex, RenameAttr, CreateAttr, CloseAttr,
                      DieOnTorn, Crash
  <2> QED
    BY <1>3, <2>1, <2>2 DEF Step
<1>4. ASSUME NEW p \in Procs, ReadIndex(p), ~ \E code : Exit(p, code), mem'[q] # mem[q]
      PROVE  q = p /\ disk.index # NoFile /\ mem'[q] = disk.index
  BY <1>1, <1>4 DEF ReadIndex
<1>5. ASSUME NEW p \in Procs, Lookup(p), ~ \E code : Exit(p, code), mem'[q] # mem[q]
      PROVE  /\ q = p
             /\ revs' = revs \union {[run |-> run[q], serial |-> cert[q].serial, year |-> clock]}
             /\ \E i \in DOMAIN mem[q] :
                 /\ FirstMatch(mem[q], cert[q].serial, i)
                 /\ mem'[q] = [mem[q] EXCEPT ![i].status = "R", ![i].revoked = TwoDigits(clock)]
  BY <1>1, <1>5 DEF Lookup
<1>6. ASSUME NEW p \in Procs, CloseSerial(p), ~ \E code : Exit(p, code), mem'[q] # mem[q]
      PROVE  q = p /\ mem'[q] = Recorded(mem[q], cert[q])
  BY <1>1, <1>6 DEF CloseSerial
<1>7. ASSUME \/ \E p \in Procs : Invoke(p) \/ FlushIndex(p)
             \/ Tick \/ Restore \/ UNCHANGED vars
      PROVE  mem'[q] = mem[q]
  BY <1>7 DEF Invoke, FlushIndex, Tick, Restore, vars, local
<1> QED
  BY <1>2, <1>3, <1>4, <1>5, <1>6, <1>7 DEF Next

\* The lines that reach a file: what a process refreshed, or a part of it.
Flushed(p, lines) ==
  /\ pc[p] = "closeIndex"
  /\ \/ lines = Refreshed(mem[p], clock)
     \/ lines \in Partial(Refreshed(mem[p], clock))

\* The database and its backup: kept, put aside, created again, put back by the
\* operator, or flushed by the one process that has the file open.
LEMMA IndexSteps ==
  ASSUME TypeInv, [Next]_vars, NEW f \in {"index", "indexOld"}
  PROVE  \/ disk'[f] = disk[f]
         \/ \E p \in Procs : /\ RenameIndex(p) /\ pc'[p] = "createIndex" /\ disk.index # NoFile
                             /\ disk'.index = NoFile /\ disk'.indexOld = disk.index
         \/ f = "index" /\ \E p \in Procs : CreateIndex(p) /\ disk'.index = <<>>
         \/ /\ Restore /\ disk.index = NoFile
            /\ disk'.index = disk.indexOld /\ disk'.indexOld = NoFile
         \/ \E p \in Procs : fd[p] = f /\ Flushed(p, disk'[f])
<1>1. disk \in Disks /\ FdOK /\ pc \in [Procs -> PCs]
  BY TypeOKSplit DEF TypeInv, LocalOK
<1>2. ASSUME NEW p \in Procs,
             CloseIndex(p) \/ DieOnTorn(p) \/ Crash(p) \/ FlushIndex(p), ~UNCHANGED disk
      PROVE  disk'[f] = disk[f] \/ (fd[p] = f /\ Flushed(p, disk'[f]))
  <2>1. PICK lines : Flushed(p, lines) /\ disk' = Written(p, lines)
    BY <1>2 DEF CloseIndex, DieOnTorn, Crash, FlushIndex, Flushed
  <2> QED
    BY <1>1, <2>1 DEF Written, Disks
<1>3. ASSUME NEW p \in Procs, CloseCrl(p) \/ CloseSerial(p) \/ CloseAttr(p)
      PROVE  disk'[f] = disk[f]
  <2>1. fd[p] \notin {"index", "indexOld"}
    BY <1>1, <1>3 DEF CloseCrl, CloseSerial, CloseAttr, FdOK
  <2>2. UNCHANGED disk \/ \E lines : disk' = Written(p, lines)
    BY <1>3 DEF CloseCrl, CloseSerial, CloseAttr
  <2> QED
    BY <1>1, <2>1, <2>2 DEF Written, Disks
<1>4. ASSUME NEW p \in Procs, OpenCrl(p) \/ OpenSerial(p) \/ CreateAttr(p)
      PROVE  disk'[f] = disk[f]
  <2>1. UNCHANGED disk \/ \E g \in {"crl", "serial", "attr"} : Truncate(p, g)
    BY <1>4 DEF OpenCrl, OpenSerial, CreateAttr
  <2> QED
    BY <1>1, <2>1 DEF Truncate, Disks
<1>5. ASSUME NEW p \in Procs, CreateIndex(p)
      PROVE  disk'[f] = disk[f] \/ (f = "index" /\ disk'.index = <<>>)
  BY <1>1, <1>5 DEF CreateIndex, Truncate, Disks
<1>6. ASSUME NEW p \in Procs, RenameIndex(p)
      PROVE  \/ disk'[f] = disk[f]
             \/ /\ pc'[p] = "createIndex" /\ disk.index # NoFile
                /\ disk'.index = NoFile /\ disk'.indexOld = disk.index
  BY <1>1, <1>6 DEF RenameIndex, Rename, Goto, Disks
<1>7. ASSUME NEW p \in Procs, RenameAttr(p) PROVE disk'[f] = disk[f]
  BY <1>1, <1>7 DEF RenameAttr, Rename, Disks
<1>8. ASSUME Restore
      PROVE  \/ disk'[f] = disk[f]
             \/ disk.index = NoFile /\ disk'.index = disk.indexOld /\ disk'.indexOld = NoFile
  <2>1. \/ disk.index = NoFile /\ Rename("indexOld", "index")
        \/ Rename("attrOld", "attr")
    BY <1>8 DEF Restore
  <2> QED
    BY <1>1, <2>1 DEF Rename, Disks
<1>9. ASSUME NEW p \in Procs, SaveSerial(p) PROVE disk'[f] = disk[f]
  BY <1>1, <1>9 DEF SaveSerial, Disks
<1>10. ASSUME NEW p \in Procs,
             ReadIndex(p) \/ ReadAttr(p) \/ Refuse(p) \/ Lookup(p) \/ ReadSerial(p)
             \/ CheckUnique(p) \/ WriteCert(p) \/ Invoke(p)
      PROVE  UNCHANGED disk
  BY <1>10 DEF ReadIndex, ReadAttr, Refuse, Lookup, ReadSerial, CheckUnique, WriteCert, Invoke
<1>11. ASSUME Tick \/ UNCHANGED vars PROVE UNCHANGED disk
  BY <1>11 DEF Tick, vars
<1>12. CASE UNCHANGED disk
  BY <1>12
<1> QED
  BY <1>2, <1>3, <1>4, <1>5, <1>6, <1>7, <1>8, <1>9, <1>10, <1>11, <1>12 DEF Next, Step

\* The attributes and their backup, likewise.
LEMMA AttrSteps ==
  ASSUME TypeInv, [Next]_vars, NEW f \in {"attr", "attrOld"}
  PROVE  \/ disk'[f] = disk[f]
         \/ \E p \in Procs : /\ RenameAttr(p) /\ pc'[p] = "createAttr" /\ disk.attr # NoFile
                             /\ disk'.attr = NoFile /\ disk'.attrOld = disk.attr
         \/ f = "attr" /\ \E p \in Procs : CreateAttr(p) /\ disk'.attr = <<>>
         \/ /\ Restore /\ disk.attr = NoFile
            /\ disk'.attr = disk.attrOld /\ disk'.attrOld = NoFile
         \/ \E p \in Procs : CloseAttr(p) /\ fd[p] = f /\ disk'[f] = <<uniq[p]>>
<1>1. disk \in Disks /\ FdOK /\ pc \in [Procs -> PCs]
  BY TypeOKSplit DEF TypeInv, LocalOK
<1>2. CASE UNCHANGED disk
  BY <1>2
<1>3. ASSUME NEW p \in Procs,
             CloseIndex(p) \/ DieOnTorn(p) \/ Crash(p) \/ FlushIndex(p)
             \/ CloseSerial(p) \/ CloseCrl(p)
      PROVE  disk'[f] = disk[f]
  <2>1. CASE UNCHANGED disk
    BY <2>1
  <2>2. CASE ~UNCHANGED disk
    <3>1. pc[p] \in {"closeIndex", "closeSerial", "closeCrl"}
          /\ \E lines : disk' = Written(p, lines)
      BY <1>3, <2>2 DEF CloseIndex, DieOnTorn, Crash, FlushIndex, CloseSerial, CloseCrl
    <3>2. fd[p] \notin {"attr", "attrOld"}
      BY <1>1, <3>1 DEF FdOK
    <3> QED
      BY <1>1, <3>1, <3>2 DEF Written, Disks
  <2> QED
    BY <2>1, <2>2
<1>4. ASSUME NEW p \in Procs, CloseAttr(p)
      PROVE  disk'[f] = disk[f] \/ (fd[p] = f /\ disk'[f] = <<uniq[p]>>)
  <2>1. UNCHANGED disk \/ disk' = Written(p, <<uniq[p]>>)
    BY <1>4 DEF CloseAttr
  <2> QED
    BY <1>1, <2>1 DEF Written, Disks
<1>5. ASSUME NEW p \in Procs, OpenCrl(p) \/ OpenSerial(p) \/ CreateIndex(p)
      PROVE  disk'[f] = disk[f]
  <2>1. UNCHANGED disk \/ \E g \in {"crl", "serial", "index"} : Truncate(p, g)
    BY <1>5 DEF OpenCrl, OpenSerial, CreateIndex
  <2> QED
    BY <1>1, <2>1 DEF Truncate, Disks
<1>6. ASSUME NEW p \in Procs, CreateAttr(p)
      PROVE  disk'[f] = disk[f] \/ (f = "attr" /\ disk'.attr = <<>>)
  BY <1>1, <1>6 DEF CreateAttr, Truncate, Disks
<1>7. ASSUME NEW p \in Procs, RenameAttr(p)
      PROVE  \/ disk'[f] = disk[f]
             \/ /\ pc'[p] = "createAttr" /\ disk.attr # NoFile
                /\ disk'.attr = NoFile /\ disk'.attrOld = disk.attr
  BY <1>1, <1>7 DEF RenameAttr, Rename, Goto, Disks
<1>8. ASSUME NEW p \in Procs, RenameIndex(p) PROVE disk'[f] = disk[f]
  BY <1>1, <1>8 DEF RenameIndex, Rename, Disks
<1>9. ASSUME Restore
      PROVE  \/ disk'[f] = disk[f]
             \/ disk.attr = NoFile /\ disk'.attr = disk.attrOld /\ disk'.attrOld = NoFile
  <2>1. \/ disk.attr = NoFile /\ Rename("attrOld", "attr")
        \/ Rename("indexOld", "index")
    BY <1>9 DEF Restore
  <2> QED
    BY <1>1, <2>1 DEF Rename, Disks
<1>10. ASSUME NEW p \in Procs, SaveSerial(p) PROVE disk'[f] = disk[f]
  BY <1>1, <1>10 DEF SaveSerial, Disks
<1>11. ASSUME NEW p \in Procs,
             ReadIndex(p) \/ ReadAttr(p) \/ Refuse(p) \/ Lookup(p) \/ ReadSerial(p)
             \/ CheckUnique(p) \/ WriteCert(p) \/ Invoke(p)
      PROVE  UNCHANGED disk
  BY <1>11 DEF ReadIndex, ReadAttr, Refuse, Lookup, ReadSerial, CheckUnique, WriteCert, Invoke
<1>12. ASSUME Tick \/ UNCHANGED vars PROVE UNCHANGED disk
  BY <1>12 DEF Tick, vars
<1> QED
  BY <1>2, <1>3, <1>4, <1>5, <1>6, <1>7, <1>8, <1>9, <1>10, <1>11, <1>12 DEF Next, Step

\* The CRL: kept, emptied, or written from the entries of one process.
LEMMA CrlSteps ==
  ASSUME TypeInv, [Next]_vars
  PROVE  \/ disk'.crl = disk.crl
         \/ \E p \in Procs : OpenCrl(p) /\ disk'.crl = <<>>
         \/ \E p \in Procs : CloseCrl(p) /\ disk'.crl = <<CrlOf(mem[p])>>
<1>1. disk \in Disks /\ FdOK
  BY TypeOKSplit DEF TypeInv
<1>2. CASE UNCHANGED disk
  BY <1>2
<1>3. ASSUME NEW p \in Procs,
             CloseIndex(p) \/ DieOnTorn(p) \/ Crash(p) \/ FlushIndex(p)
             \/ CloseSerial(p) \/ CloseAttr(p)
      PROVE  disk'.crl = disk.crl
  <2>1. CASE UNCHANGED disk
    BY <2>1
  <2>2. CASE ~UNCHANGED disk
    <3>1. pc[p] \in {"closeIndex", "closeSerial", "closeAttr"}
          /\ \E lines : disk' = Written(p, lines)
      BY <1>3, <2>2 DEF CloseIndex, DieOnTorn, Crash, FlushIndex, CloseSerial, CloseAttr
    <3>2. fd[p] # "crl"
      BY <1>1, <3>1 DEF FdOK
    <3> QED
      BY <1>1, <3>1, <3>2 DEF Written, Disks
  <2> QED
    BY <2>1, <2>2
<1>4. ASSUME NEW p \in Procs, CloseCrl(p)
      PROVE  disk'.crl = disk.crl \/ disk'.crl = <<CrlOf(mem[p])>>
  <2>1. UNCHANGED disk \/ disk' = Written(p, <<CrlOf(mem[p])>>)
    BY <1>4 DEF CloseCrl
  <2>2. fd[p] \in {"none", "crl"}
    BY <1>1, <1>4 DEF CloseCrl, FdOK
  <2> QED
    BY <1>1, <2>1, <2>2 DEF Written, Disks
<1>5. ASSUME NEW p \in Procs, OpenSerial(p) \/ CreateIndex(p) \/ CreateAttr(p)
      PROVE  disk'.crl = disk.crl
  <2>1. UNCHANGED disk \/ \E g \in {"serial", "index", "attr"} : Truncate(p, g)
    BY <1>5 DEF OpenSerial, CreateIndex, CreateAttr
  <2> QED
    BY <1>1, <2>1 DEF Truncate, Disks
<1>6. ASSUME NEW p \in Procs, OpenCrl(p)
      PROVE  disk'.crl \in {disk.crl, <<>>}
  BY <1>1, <1>6 DEF OpenCrl, Truncate, Disks
<1>7. ASSUME \/ Restore
             \/ \E p \in Procs : RenameIndex(p) \/ RenameAttr(p)
      PROVE  disk'.crl = disk.crl
  <2>1. \/ UNCHANGED disk
        \/ Rename("index", "indexOld") \/ Rename("indexOld", "index")
        \/ Rename("attr", "attrOld")   \/ Rename("attrOld", "attr")
    BY <1>7 DEF Restore, RenameIndex, RenameAttr
  <2> QED
    BY <1>1, <2>1 DEF Rename, Disks
<1>8. ASSUME NEW p \in Procs, SaveSerial(p) PROVE disk'.crl = disk.crl
  BY <1>1, <1>8 DEF SaveSerial, Disks
<1>9. ASSUME NEW p \in Procs,
             ReadIndex(p) \/ ReadAttr(p) \/ Refuse(p) \/ Lookup(p) \/ ReadSerial(p)
             \/ CheckUnique(p) \/ WriteCert(p) \/ Invoke(p)
      PROVE  UNCHANGED disk
  BY <1>9 DEF ReadIndex, ReadAttr, Refuse, Lookup, ReadSerial, CheckUnique, WriteCert, Invoke
<1>10. ASSUME Tick \/ UNCHANGED vars PROVE UNCHANGED disk
  BY <1>10 DEF Tick, vars
<1> QED
  BY <1>2, <1>3, <1>4, <1>5, <1>6, <1>7, <1>8, <1>9, <1>10 DEF Next, Step

\* The serial file: kept, emptied, or handed the next serial.
LEMMA SerialSteps ==
  ASSUME TypeInv, [Next]_vars
  PROVE  \/ disk'.serial = disk.serial
         \/ \E p \in Procs : OpenSerial(p) /\ disk'.serial = <<>>
         \/ \E p \in Procs : CloseSerial(p) /\ disk'.serial = <<NextSerial(cert[p].serial)>>
<1>1. disk \in Disks /\ FdOK
  BY TypeOKSplit DEF TypeInv
<1>2. CASE UNCHANGED disk
  BY <1>2
<1>3. ASSUME NEW p \in Procs,
             CloseIndex(p) \/ DieOnTorn(p) \/ Crash(p) \/ FlushIndex(p)
             \/ CloseCrl(p) \/ CloseAttr(p)
      PROVE  disk'.serial = disk.serial
  <2>1. CASE UNCHANGED disk
    BY <2>1
  <2>2. CASE ~UNCHANGED disk
    <3>1. pc[p] \in {"closeIndex", "closeCrl", "closeAttr"}
          /\ \E lines : disk' = Written(p, lines)
      BY <1>3, <2>2 DEF CloseIndex, DieOnTorn, Crash, FlushIndex, CloseCrl, CloseAttr
    <3>2. fd[p] # "serial"
      BY <1>1, <3>1 DEF FdOK
    <3> QED
      BY <1>1, <3>1, <3>2 DEF Written, Disks
  <2> QED
    BY <2>1, <2>2
<1>4. ASSUME NEW p \in Procs, CloseSerial(p)
      PROVE  disk'.serial = disk.serial \/ disk'.serial = <<NextSerial(cert[p].serial)>>
  <2>1. UNCHANGED disk \/ disk' = Written(p, <<NextSerial(cert[p].serial)>>)
    BY <1>4 DEF CloseSerial
  <2>2. fd[p] \in {"none", "serial"}
    BY <1>1, <1>4 DEF CloseSerial, FdOK
  <2> QED
    BY <1>1, <2>1, <2>2 DEF Written, Disks
<1>5. ASSUME NEW p \in Procs, OpenCrl(p) \/ CreateIndex(p) \/ CreateAttr(p)
      PROVE  disk'.serial = disk.serial
  <2>1. UNCHANGED disk \/ \E g \in {"crl", "index", "attr"} : Truncate(p, g)
    BY <1>5 DEF OpenCrl, CreateIndex, CreateAttr
  <2> QED
    BY <1>1, <2>1 DEF Truncate, Disks
<1>6. ASSUME NEW p \in Procs, OpenSerial(p)
      PROVE  disk'.serial \in {disk.serial, <<>>}
  BY <1>1, <1>6 DEF OpenSerial, Truncate, Disks
<1>7. ASSUME \/ Restore
             \/ \E p \in Procs : RenameIndex(p) \/ RenameAttr(p)
      PROVE  disk'.serial = disk.serial
  <2>1. \/ UNCHANGED disk
        \/ Rename("index", "indexOld") \/ Rename("indexOld", "index")
        \/ Rename("attr", "attrOld")   \/ Rename("attrOld", "attr")
    BY <1>7 DEF Restore, RenameIndex, RenameAttr
  <2> QED
    BY <1>1, <2>1 DEF Rename, Disks
<1>8. ASSUME NEW p \in Procs, SaveSerial(p) PROVE disk'.serial = disk.serial
  BY <1>1, <1>8 DEF SaveSerial, Disks
<1>9. ASSUME NEW p \in Procs,
             ReadIndex(p) \/ ReadAttr(p) \/ Refuse(p) \/ Lookup(p) \/ ReadSerial(p)
             \/ CheckUnique(p) \/ WriteCert(p) \/ Invoke(p)
      PROVE  UNCHANGED disk
  BY <1>9 DEF ReadIndex, ReadAttr, Refuse, Lookup, ReadSerial, CheckUnique, WriteCert, Invoke
<1>10. ASSUME Tick \/ UNCHANGED vars PROVE UNCHANGED disk
  BY <1>10 DEF Tick, vars
<1> QED
  BY <1>2, <1>3, <1>4, <1>5, <1>6, <1>7, <1>8, <1>9, <1>10 DEF Next, Step
\* Faults add up to their bound, and so does the time that passes.
LEMMA EnvSteps ==
  ASSUME TypeInv, [Next]_vars
  PROVE  /\ faults' = faults \/ (faults' = faults + 1 /\ faults' <= MaxFaults)
         /\ clock' = clock \/ (clock' = clock + 1 /\ clock' <= MaxClock)
         /\ runs' = runs \/ (runs' = runs + 1 /\ \E p \in Procs : Invoke(p))
<1>1. faults \in Nat /\ clock \in Nat /\ MaxFaults \in Nat /\ MaxClock \in Nat
  BY CAAssumption, TypeOKSplit DEF TypeInv, EnvOK
<1>2. ASSUME NoFault \/ Fault
      PROVE  /\ clock' = clock /\ runs' = runs
             /\ faults' = faults \/ (faults' = faults + 1 /\ faults' <= MaxFaults)
  BY <1>1, <1>2 DEF NoFault, Fault, env
<1>3. ASSUME NEW p \in Procs, Step(p) \/ FlushIndex(p) \/ Crash(p) PROVE NoFault \/ Fault
  <2>1. CASE ReadIndex(p) \/ ReadAttr(p) \/ Refuse(p) \/ Lookup(p) \/ ReadSerial(p)
             \/ CheckUnique(p) \/ DieOnTorn(p) \/ FlushIndex(p) \/ Crash(p)
    BY <2>1 DEF ReadIndex, ReadAttr, Refuse, Lookup, ReadSerial, CheckUnique, DieOnTorn,
       FlushIndex, Crash, NoFault
  <2>2. CASE OpenCrl(p) \/ CloseCrl(p) \/ WriteCert(p) \/ SaveSerial(p) \/ OpenSerial(p)
             \/ CloseSerial(p) \/ RenameIndex(p) \/ CreateIndex(p) \/ CloseIndex(p)
             \/ RenameAttr(p) \/ CreateAttr(p) \/ CloseAttr(p)
    BY <2>2 DEF OpenCrl, CloseCrl, WriteCert, SaveSerial, OpenSerial, CloseSerial, RenameIndex,
       CreateIndex, CloseIndex, RenameAttr, CreateAttr, CloseAttr
  <2> QED
    BY <1>3, <2>1, <2>2 DEF Step
<1>4. ASSUME \/ \E p \in Procs : Invoke(p)
             \/ Restore \/ UNCHANGED vars
      PROVE  /\ faults' = faults /\ clock' = clock
             /\ runs' = runs \/ (runs' = runs + 1 /\ \E p \in Procs : Invoke(p))
  BY <1>4 DEF Invoke, Restore, vars, env
<1>5. ASSUME Tick
      PROVE  faults' = faults /\ runs' = runs /\ clock' = clock + 1 /\ clock' <= MaxClock
  BY <1>1, <1>5 DEF Tick
<1> QED
  BY <1>2, <1>3, <1>4, <1>5 DEF Next
----------------------------------------------------------------------------
(* How a command ends, or goes on *)

\* The order of the steps.
Flow == {<<"readIndex", "readAttr">>,
         <<"readAttr", "lookup">>, <<"readAttr", "openCrl">>, <<"readAttr", "readSerial">>,
         <<"lookup", "renameIndex">>, <<"openCrl", "closeCrl">>,
         <<"readSerial", "checkUnique">>, <<"checkUnique", "writeCert">>,
         <<"writeCert", "saveSerial">>, <<"saveSerial", "openSerial">>,
         <<"openSerial", "closeSerial">>, <<"closeSerial", "renameIndex">>,
         <<"renameIndex", "createIndex">>, <<"createIndex", "closeIndex">>,
         <<"closeIndex", "renameAttr">>, <<"renameAttr", "createAttr">>,
         <<"createAttr", "closeAttr">>}

LEMMA ExitSteps ==
  ASSUME TypeInv, NEW p \in Procs, Step(p) \/ Crash(p), \E code : Exit(p, code)
  PROVE  /\ pc[p] # "idle" /\ UNCHANGED <<past, runs, clock>>
         /\ \E code \in {"success", "failure", "killed"} :
              /\ Exit(p, code)
              /\ code = "success" =>
                   /\ pc[p] \in {"closeCrl", "createIndex", "closeIndex", "createAttr", "closeAttr"}
                   /\ pc[p] = "closeIndex" => op[p] = "revoke"
                   /\ pc[p] \in {"createIndex", "createAttr"} => Fault
<1>1. pc'[p] = "idle"
  BY TypeOKSplit DEF TypeInv, LocalOK, Exit
<1>2. ASSUME NEW l, Goto(p, l) PROVE l = "idle"
  BY <1>1, <1>2, TypeOKSplit DEF TypeInv, LocalOK, Goto
<1>3. CASE ReadIndex(p) \/ Refuse(p) \/ Lookup(p) \/ ReadSerial(p) \/ CheckUnique(p)
  BY <1>2, <1>3 DEF ReadIndex, Refuse, Lookup, ReadSerial, CheckUnique, past, env
<1>4. CASE ReadAttr(p)
  <2>1. op[p] \in {"sign", "revoke", "gencrl"}
    BY <1>4, TypeOKSplit DEF ReadAttr, TypeInv, RunOK, LocalOK
  <2> QED
    BY <1>2, <1>4, <2>1 DEF ReadAttr, past, env
<1>5. CASE OpenCrl(p) \/ CloseCrl(p) \/ WriteCert(p) \/ SaveSerial(p) \/ OpenSerial(p) \/ CloseSerial(p)
  BY <1>2, <1>5 DEF OpenCrl, CloseCrl, WriteCert, SaveSerial, OpenSerial, CloseSerial,
     NoFault, Fault, past, env
<1>6. CASE RenameIndex(p) \/ CreateIndex(p) \/ CloseIndex(p)
  BY <1>2, <1>6 DEF RenameIndex, CreateIndex, CloseIndex, NoFault, Fault, past, env
<1>7. CASE RenameAttr(p) \/ CreateAttr(p) \/ CloseAttr(p)
  BY <1>2, <1>7 DEF RenameAttr, CreateAttr, CloseAttr, NoFault, Fault, past, env
<1>8. CASE DieOnTorn(p) \/ Crash(p)
  BY <1>8 DEF DieOnTorn, Crash, UsesTorn, Fault, past, env
<1> QED
  BY <1>3, <1>4, <1>5, <1>6, <1>7, <1>8 DEF Step

LEMMA GotoSteps ==
  ASSUME TypeInv, NEW p \in Procs, Step(p) \/ Crash(p), ~ \E code : Exit(p, code)
  PROVE  /\ UNCHANGED <<runs, clock>>
         /\ \E l : /\ Goto(p, l) /\ <<pc[p], l>> \in Flow
                   /\ l = "lookup" => op[p] = "revoke"
                   /\ l = "openCrl" => op[p] = "gencrl"
                   /\ l \in {"readSerial", "renameAttr"} => op[p] = "sign"
         /\ \/ pc[p] \notin {"readSerial", "checkUnique"} /\ UNCHANGED cert
            \/ pc[p] = "readSerial" /\ disk.serial \notin {NoFile, <<>>}
               /\ cert' = [cert EXCEPT ![p].serial = disk.serial[1]]
            \/ pc[p] = "checkUnique"
               /\ \E life \in Lifetimes : cert' = [cert EXCEPT ![p].expiry = clock + life]
         /\ \/ pc[p] # "readAttr" /\ UNCHANGED uniq
            \/ pc[p] = "readAttr" /\ uniq' = [uniq EXCEPT ![p] = disk.attr[1]]
         /\ \/ pc[p] # "writeCert" /\ UNCHANGED certs
            \/ pc[p] = "writeCert"
               /\ certs' = certs \union {[run |-> run[p], serial |-> cert[p].serial,
                                          dn |-> cert[p].dn, expiry |-> cert[p].expiry]}
         /\ \/ pc[p] # "lookup" /\ UNCHANGED revs
            \/ pc[p] = "lookup"
               /\ revs' = revs \union {[run |-> run[p], serial |-> cert[p].serial, year |-> clock]}
<1>1. CASE ReadIndex(p) \/ Refuse(p)
  BY <1>1 DEF ReadIndex, Refuse, past, env, Flow
<1>2. CASE Lookup(p)
  <2>1. pc[p] = "lookup" /\ Goto(p, "renameIndex") /\ UNCHANGED <<runs, clock, cert, uniq, certs>>
        /\ revs' = revs \union {[run |-> run[p], serial |-> cert[p].serial, year |-> clock]}
    BY <1>2 DEF Lookup, env
  <2> QED
    BY <2>1 DEF Flow
<1>3. CASE ReadSerial(p) \/ CheckUnique(p)
  BY <1>3 DEF ReadSerial, CheckUnique, past, env, Flow
<1>4. CASE ReadAttr(p)
  <2>1. op[p] \in {"sign", "revoke", "gencrl"}
    BY <1>4, TypeOKSplit DEF ReadAttr, TypeInv, RunOK, LocalOK
  <2> QED
    BY <1>4, <2>1 DEF ReadAttr, past, env, Flow
<1>5. CASE OpenCrl(p) \/ CloseCrl(p) \/ WriteCert(p) \/ SaveSerial(p) \/ OpenSerial(p) \/ CloseSerial(p)
  BY <1>5 DEF OpenCrl, CloseCrl, WriteCert, SaveSerial, OpenSerial, CloseSerial,
     NoFault, Fault, past, env, Flow
<1>6. CASE RenameIndex(p) \/ CreateIndex(p) \/ CloseIndex(p)
  BY <1>6 DEF RenameIndex, CreateIndex, CloseIndex, NoFault, Fault, past, env, Flow
<1>7. CASE RenameAttr(p) \/ CreateAttr(p) \/ CloseAttr(p)
  BY <1>7 DEF RenameAttr, CreateAttr, CloseAttr, NoFault, Fault, past, env, Flow
<1>8. CASE DieOnTorn(p) \/ Crash(p)
  BY <1>8 DEF DieOnTorn, Crash
<1> QED
  BY <1>1, <1>2, <1>3, <1>4, <1>5, <1>6, <1>7, <1>8 DEF Step
=============================================================================
