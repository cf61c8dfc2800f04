------------------------- MODULE CARefinementProofs -------------------------
(***************************************************************************)
(* ImplementsLedger as a theorem: commands that run one after the other    *)
(* and meet no fault implement the ledger, for any number of commands, any *)
(* names and any dates in which no two-digit year is read wrongly.         *)
(***************************************************************************)
EXTENDS CARefinement, CASoloProofs

----------------------------------------------------------------------------
(* What relates the files to the ledger *)

\* A line that says what it says for a reason: a revocation that happened, and
\* an expiry date that has passed.
LineOK(e, now) ==
  /\ ~Torn(e) /\ e.serial # NoSerial
  /\ e.revoked # NoDate => e.revoked <= now
  /\ e.status = "V" => e.revoked = NoDate
  /\ e.status = "E" => Expired(e.expiry, now)

LinesOK(m, now) == \A i \in DOMAIN m : LineOK(m[i], now)

\* A command works on the database as it is until it has changed its memory.
Reading == {"readAttr", "lookup", "openCrl", "closeCrl", "readSerial", "checkUnique",
            "writeCert", "saveSerial", "openSerial", "closeSerial"}

Edited(p) ==
  \/ op[p] = "sign" /\ mem[p] = Recorded(CurrentIndex, cert[p])
  \/ /\ op[p] = "revoke"
     /\ \E i \in DOMAIN CurrentIndex, y \in 0 .. clock :
          LineOK(CurrentIndex[i], y) /\ mem[p] = Marked(CurrentIndex, i, y)

MemKept ==
  \A p \in Procs :
    /\ pc[p] \in Reading => mem[p] = CurrentIndex
    /\ pc[p] \in Rewriting => Edited(p)

\* The subject a command checked is still free when its line is written.
SubjectFree ==
  \A p \in Procs :
    /\ op[p] = "sign" /\ CurrentAttr = <<"yes">>
    /\ pc[p] \in {"writeCert", "saveSerial", "openSerial", "closeSerial"} \union Rewriting
    => ~SubjectTaken(CurrentIndex, cert[p].dn)

\* The attributes a command read are still those of the database.
AttrKept ==
  /\ \E a \in AttrValues : CurrentAttr = <<a>>
  /\ \A p \in Procs :
       /\ pc[p] \notin {"idle", "readIndex", "readAttr"} => CurrentAttr = <<uniq[p]>>
       /\ pc[p] = "closeAttr" => fd[p] = "attr"

\* Each command uses one serial.
SerialRange ==
  /\ disk.serial # <<>> => disk.serial[1] \in FirstSerial .. FirstSerial + runs
  /\ \A p \in Procs :
       /\ pc[p] # "idle" /\ pc[p] \notin Recording /\ disk.serial # <<>>
            => disk.serial[1] < FirstSerial + runs
       /\ pc[p] = "closeSerial" \/ (pc[p] \in Rewriting /\ op[p] = "sign")
            => cert[p].serial \in FirstSerial .. FirstSerial + runs - 1

LedgerInv ==
  /\ SerialInv /\ DurableInv /\ faults = 0 /\ CertsNear
  /\ LinesOK(CurrentIndex, clock)
  /\ MemKept /\ SubjectFree /\ AttrKept /\ SerialRange
----------------------------------------------------------------------------
(* The database a reader would use *)

\* What is known in a state that LedgerInv describes.
LEMMA LedgerFacts ==
  ASSUME LedgerInv
  PROVE  /\ BookInv /\ TypeInv /\ LocalOK /\ EnvOK /\ disk \in Disks /\ IndexOpen
         /\ FilesGood /\ DurableInv /\ SerialInv
         /\ \A p \in Procs : cert[p] \in Certs /\ mem[p] \in Seq(Entries)
  BY TypeOKSplit DEF LedgerInv, DurableInv, BookInv, TypeInv, LocalOK

LEMMA CurrentGood ==
  ASSUME LedgerInv
  PROVE  /\ CurrentIndex \in Seq(Entries) /\ Good(CurrentIndex) /\ Distinct(CurrentIndex)
         /\ \A p \in Procs : pc[p] \notin Replacing /\ pc[p] # "idle" => CurrentIndex = disk.index
         /\ \A p \in Procs : pc[p] \in Replacing => CurrentIndex = disk.indexOld
         /\ (\A p \in Procs : pc[p] \notin Replacing) => CurrentIndex = disk.index
<1>1. BookInv /\ FilesGood /\ disk \in Disks
  BY LedgerFacts
<1>2. CASE \A p \in Procs : pc[p] \notin Replacing
  <2>1. CurrentIndex = disk.index
    BY <1>2 DEF CurrentIndex, Current, Replacing
  <2>2. Good(disk.index) /\ disk.index # NoFile
    BY <1>1, <1>2 DEF FilesGood, Good, Complete
  <2>3. disk.index \in Seq(Entries) /\ Distinct(disk.index)
    BY <1>1, <2>2 DEF Disks, IndexFiles, LedgerInv, SerialInv
  <2> QED
    BY <1>2, <2>1, <2>2, <2>3
<1>3. ASSUME NEW p \in Procs, pc[p] \in Replacing
      PROVE  /\ CurrentIndex = disk.indexOld /\ CurrentIndex \in Seq(Entries)
             /\ Good(CurrentIndex) /\ Distinct(CurrentIndex)
             /\ \A q \in Procs : pc[q] # "idle" => q = p
  <2>1. CurrentIndex = disk.indexOld
    BY <1>3 DEF CurrentIndex, Current, Replacing
  <2>2. Good(disk.indexOld) /\ disk.indexOld # NoFile
    BY <1>1, <1>3 DEF FilesGood, Good, Complete
  <2>3. disk.indexOld \in Seq(Entries) /\ Distinct(disk.indexOld)
    BY <1>1, <2>2 DEF Disks, IndexFiles, LedgerInv, SerialInv
  <2>4. pc[p] # "idle"
    BY <1>3 DEF Replacing
  <2> QED
    BY <1>1, <2>1, <2>2, <2>3, <2>4, OthersIdle
<1> QED
  BY <1>2, <1>3

\* A file or its backup is always there for the operator to read; he has
\* nothing to restore.
LEMMA NoRestore == ASSUME LedgerInv PROVE ~Restore
<1> SUFFICES ASSUME Restore PROVE FALSE
  OBVIOUS
<1>1. \A p \in Procs : pc[p] = "idle"
  BY DEF Restore
<1>2. disk.index # NoFile
  BY <1>1, LedgerFacts DEF FilesGood, Replacing, Good, Complete
<1>3. disk.attr # NoFile
  <2>1. CurrentAttr = disk.attr
    BY <1>1 DEF CurrentAttr, Current
  <2>2. PICK a \in AttrValues : disk.attr = <<a>>
    BY <2>1 DEF LedgerInv, AttrKept
  <2>3. <<a>> \in Seq(AttrValues)
    OBVIOUS
  <2> QED
    BY <2>2, <2>3, CAAssumption
<1> QED
  BY <1>2, <1>3 DEF Restore

\* The database changes when a rewrite is closed, and at no other step.
LEMMA CurrentIndexSteps ==
  ASSUME Solo, LedgerInv, [Next]_vars, faults' = faults
  PROVE  \/ CurrentIndex' = CurrentIndex
         \/ \E p \in Procs :
              /\ CloseIndex(p) /\ pc'[p] # "closeIndex"
              /\ CurrentIndex' = Refreshed(mem[p], clock)
<1>1. BookInv /\ TypeInv /\ LocalOK /\ IndexOpen /\ FilesGood /\ BookInv' /\ disk \in Disks
  BY LedgerFacts, NextBook
<1>2. CASE \A p \in Procs : pc[p] \notin Replacing
  <2>1. CurrentIndex = disk.index /\ disk.index # NoFile
    BY <1>2, CurrentGood DEF Good, Complete
  <2>2. CASE \A p \in Procs : pc'[p] \notin Replacing
    <3>1. CurrentIndex' = disk'.index
      BY <2>2 DEF CurrentIndex, Current, Replacing
    <3> QED
      BY <1>1, <1>2, <2>1, <2>2, <3>1, IndexKept DEF Replacing
  <2>3. ASSUME NEW p \in Procs, pc'[p] \in Replacing PROVE CurrentIndex' = CurrentIndex
    <3>1. CurrentIndex' = disk'.indexOld
      BY <2>3 DEF CurrentIndex, Current, Replacing
    <3>2. pc[p] = "renameIndex" /\ Step(p)
      BY <1>1, <1>2, <2>3, Moves DEF Flow, Replacing
    <3>3. RenameIndex(p)
      BY <3>2, StepAt DEF UsesTorn
    <3>4. disk'.indexOld = disk.index
      BY <1>1, <2>3, <3>3 DEF RenameIndex, Rename, Exit, LocalOK, Disks, Replacing
    <3> QED
      BY <2>1, <3>1, <3>4
  <2> QED
    BY <2>2, <2>3
<1>3. ASSUME NEW p \in Procs, pc[p] \in Replacing
      PROVE  \/ CurrentIndex' = CurrentIndex
             \/ /\ CloseIndex(p) /\ pc'[p] # "closeIndex"
                /\ CurrentIndex' = Refreshed(mem[p], clock)
  <2>1. CurrentIndex = disk.indexOld /\ pc[p] # "idle"
    BY <1>3, CurrentGood DEF Replacing
  <2>2. CASE pc'[p] \in Replacing
    <3>1. CurrentIndex' = disk'.indexOld
      BY <2>2 DEF CurrentIndex, Current, Replacing
    <3> QED
      BY <1>1, <1>3, <2>1, <3>1, BackupStays
  <2>3. CASE pc'[p] \notin Replacing
    <3>1. pc[p] = "closeIndex"
      BY <1>1, <1>3, <2>3, IndexOpened DEF Replacing
    <3>2. CloseIndex(p)
      BY <1>1, <2>1, <2>3, <3>1, OwnStep, StepAt DEF UsesTorn, Replacing, FilesGood, Good
    <3>3. disk'.index = Refreshed(mem[p], clock)
      BY <1>1, <2>3, <3>1, IndexClosed DEF Replacing, FilesGood, Good
    <3>4. \A q \in Procs : q # p => pc'[q] = "idle"
      <4>1. \A q \in Procs : q # p => pc'[q] = pc[q]
        BY <1>1, <3>2 DEF CloseIndex, Exit, Goto, LocalOK
      <4> QED
        BY <1>1, <2>1, <4>1, OthersIdle
    <3>5. CurrentIndex' = disk'.index
      BY <2>3, <3>4 DEF CurrentIndex, Current, Replacing
    <3> QED
      BY <2>3, <3>2, <3>3, <3>5 DEF Replacing
  <2> QED
    BY <2>2, <2>3
<1> QED
  BY <1>2, <1>3

\* The attributes never change.
LEMMA CurrentAttrSteps ==
  ASSUME Solo, LedgerInv, [Next]_vars, faults' = faults
  PROVE  CurrentAttr' = CurrentAttr
<1> DEFINE phase == {"createAttr", "closeAttr"}
<1>1. BookInv /\ TypeInv /\ LocalOK /\ BookInv' /\ disk \in Disks /\ ~Restore
  BY LedgerFacts, NextBook, NoRestore
<1>2. "attr" \in {"attr", "attrOld"} /\ "attrOld" \in {"attr", "attrOld"}
  OBVIOUS
<1>3. CASE \A p \in Procs : pc[p] \notin phase
  <2>1. CurrentAttr = disk.attr
    BY <1>3 DEF CurrentAttr, Current
  <2>2. \A p \in Procs : ~CreateAttr(p) /\ ~CloseAttr(p)
    BY <1>3 DEF CreateAttr, CloseAttr
  <2>3. CASE \A p \in Procs : pc'[p] \notin phase
    <3>1. CurrentAttr' = disk'.attr
      BY <2>3 DEF CurrentAttr, Current
    <3> QED
      BY <1>1, <1>2, <2>1, <2>2, <2>3, <3>1, AttrSteps
  <2>4. ASSUME NEW p \in Procs, pc'[p] \in phase PROVE CurrentAttr' = CurrentAttr
    <3>1. CurrentAttr' = disk'.attrOld
      BY <2>4 DEF CurrentAttr, Current
    <3>2. pc[p] = "renameAttr" /\ Step(p)
      BY <1>1, <1>3, <2>4, Moves DEF Flow
    <3>3. RenameAttr(p)
      BY <3>2, StepAt DEF UsesTorn
    <3>4. disk'.attrOld = disk.attr
      BY <1>1, <2>4, <3>3 DEF RenameAttr, Rename, Exit, LocalOK, Disks
    <3> QED
      BY <2>1, <3>1, <3>4
  <2> QED
    BY <2>3, <2>4
<1>4. ASSUME NEW p \in Procs, pc[p] \in phase PROVE CurrentAttr' = CurrentAttr
  <2>1. /\ CurrentAttr = disk.attrOld /\ CurrentAttr = <<uniq[p]>>
        /\ pc[p] = "closeAttr" => fd[p] = "attr"
    BY <1>4 DEF CurrentAttr, Current, LedgerInv, AttrKept
  <2>2. \A q \in Procs : q # p => pc[q] = "idle"
    BY <1>1, <1>4, OthersIdle
  <2>3. CASE pc'[p] \in phase
    <3>1. CurrentAttr' = disk'.attrOld
      BY <2>3 DEF CurrentAttr, Current
    <3>2. \A q \in Procs : ~RenameAttr(q) /\ (CloseAttr(q) => fd[q] # "attrOld")
      BY <1>4, <2>1, <2>2 DEF RenameAttr, CloseAttr
    <3> QED
      BY <1>1, <1>2, <2>1, <3>1, <3>2, AttrSteps
  <2>4. CASE pc'[p] \notin phase
    <3>1. Step(p)
      BY <1>1, <1>4, <2>4, OwnStep
    <3>2. pc[p] # "createAttr"
      <4>1. ASSUME CreateAttr(p) PROVE FALSE
        BY <1>1, <2>4, <4>1, Calm DEF CreateAttr, Goto, LocalOK
      <4> QED
        BY <3>1, <4>1, StepAt DEF UsesTorn
    <3>3. CloseAttr(p)
      BY <1>4, <3>1, <3>2, StepAt DEF UsesTorn
    <3>4. disk'.attr = <<uniq[p]>>
      <4>1. disk' = Written(p, <<uniq[p]>>)
        BY <1>1, <3>3, Calm DEF CloseAttr
      <4> QED
        BY <1>1, <1>4, <2>1, <3>2, <4>1 DEF Written, Disks
    <3>5. \A q \in Procs : q # p => pc'[q] = "idle"
      BY <1>1, <2>2, <3>3 DEF CloseAttr, Exit, LocalOK
    <3>6. CurrentAttr' = disk'.attr
      BY <2>4, <3>5 DEF CurrentAttr, Current
    <3> QED
      BY <2>1, <3>4, <3>6
  <2> QED
    BY <2>3, <2>4
<1> QED
  BY <1>3, <1>4
----------------------------------------------------------------------------
(* Lines *)

LEMMA LineLater ==
  ASSUME NEW e \in Entries, NEW now \in Nat, NEW later \in Nat, now <= later, LineOK(e, now)
  PROVE  LineOK(e, later)
<1>1. e.expiry \in Dates /\ (e.revoked # NoDate => e.revoked \in Dates)
  BY DEF Entries, Lines
<1>2. ExpiryYear(e.expiry) \in Int
  BY <1>1, DatesAssumption DEF ExpiryYear, Dates
<1> QED
  BY <1>1, <1>2 DEF LineOK, Expired, Dates

LEMMA LinesLater ==
  ASSUME NEW m \in Seq(Entries), NEW now \in Nat, NEW later \in Nat, now <= later, LinesOK(m, now)
  PROVE  LinesOK(m, later)
<1>1. \A i \in DOMAIN m : m[i] \in Entries
  OBVIOUS
<1> QED
  BY <1>1, LineLater DEF LinesOK

\* What -revoke makes of a line.
Struck(e, d) == [e EXCEPT !.status = "R", !.revoked = d]

LEMMA MarkedLines ==
  ASSUME NEW m \in Seq(Entries), NEW i \in DOMAIN m, NEW d
  PROVE  /\ DOMAIN Marked(m, i, d) = DOMAIN m
         /\ Marked(m, i, d)[i] = Struck(m[i], d)
         /\ \A j \in DOMAIN m : j # i => Marked(m, i, d)[j] = m[j]
<1>1. m[i] \in Lines
  BY DEF Entries
<1> QED
  BY <1>1 DEF Marked, Struck, Lines

LEMMA RecordedLines ==
  ASSUME NEW m \in Seq(Entries), NEW c \in Certs
  PROVE  /\ Recorded(m, c) \in Seq(Entries)
         /\ DOMAIN Recorded(m, c) = 1 .. Len(m) + 1 /\ DOMAIN m = 1 .. Len(m) /\ Len(m) \in Nat
         /\ \A i \in DOMAIN m : Recorded(m, c)[i] = m[i]
         /\ Recorded(m, c)[Len(m) + 1] = NewEntry(c)
  BY NewEntryType DEF Recorded

LEMMA LinesMarked ==
  ASSUME NEW m \in Seq(Entries), NEW i \in DOMAIN m, NEW now \in Nat, NEW y \in 0 .. now,
         LinesOK(m, now)
  PROVE  LinesOK(Marked(m, i, y), now)
<1>1. m[i] \in Lines /\ ~Torn(m[i]) /\ m[i].serial # NoSerial
  BY DEF Entries, LinesOK, LineOK
<1>2. LineOK(Struck(m[i], y), now)
  <2>1. PICK e : e = Struck(m[i], y)
    OBVIOUS
  <2>2. e.status = "R" /\ e.revoked = y /\ e.serial = m[i].serial
    BY <1>1, <2>1 DEF Struck, Lines
  <2>3. LineOK(e, now)
    BY <1>1, <2>2 DEF LineOK, Torn
  <2> QED
    BY <2>1, <2>3
<1>3. /\ DOMAIN Marked(m, i, y) = DOMAIN m
      /\ Marked(m, i, y)[i] = Struck(m[i], y)
      /\ \A j \in DOMAIN m : j # i => Marked(m, i, y)[j] = m[j]
  BY MarkedLines
<1>4. LineOK(Marked(m, i, y)[i], now)
  BY <1>2, <1>3
<1>5. \A j \in DOMAIN Marked(m, i, y) : j # i => LineOK(Marked(m, i, y)[j], now)
  BY <1>3 DEF LinesOK
<1> QED
  BY <1>3, <1>4, <1>5 DEF LinesOK

LEMMA LinesRecorded ==
  ASSUME NEW m \in Seq(Entries), NEW c \in Certs, NEW now, LinesOK(m, now)
  PROVE  LinesOK(Recorded(m, c), now)
<1>1. LineOK(NewEntry(c), now)
  <2>1. c.serial # NoSerial
    BY CAAssumption DEF Certs
  <2> QED
    BY <2>1 DEF LineOK, NewEntry, Torn
<1>2. \A i \in DOMAIN Recorded(m, c) :
        Recorded(m, c)[i] = NewEntry(c) \/ (i \in DOMAIN m /\ Recorded(m, c)[i] = m[i])
  BY RecordedLines
<1> QED
  BY <1>1, <1>2 DEF LinesOK

LEMMA LinesRefreshed ==
  ASSUME NEW m \in Seq(Entries), NEW now, LinesOK(m, now)
  PROVE  LinesOK(Refreshed(m, now), now)
<1> SUFFICES ASSUME NEW i \in DOMAIN m PROVE LineOK(Refreshed(m, now)[i], now)
  BY DEF LinesOK, Refreshed
<1>1. m[i] \in Lines /\ LineOK(m[i], now)
  BY DEF LinesOK, Entries
<1>2. CASE Refreshed(m, now)[i] = m[i]
  BY <1>1, <1>2
<1>3. CASE Expired(m[i].expiry, now) /\ Refreshed(m, now)[i] = [m[i] EXCEPT !.status = "E"]
  BY <1>1, <1>3 DEF LineOK, Torn, Lines
<1> QED
  BY <1>2, <1>3 DEF Refreshed
----------------------------------------------------------------------------
(* Steps preserve LedgerInv *)

\* Dates up to the bound of the clock can be told from their two digits.
Dated ==
  /\ Horizon \in Nat
  /\ MaxClock < StampPivot
  /\ \A life \in Lifetimes : MaxClock + life < ExpiryPivot
  /\ ExpiryPivot <= Horizon + 1

LEMMA StampKept ==
  ASSUME Dated, CertsNear, clock \in Nat, NEW y \in 0 .. clock
  PROVE  TwoDigits(y) = y /\ StampYear(y) = y /\ y \in Dates
<1>1. y \in Nat /\ y < StampPivot /\ y < Century
  BY CAAssumption, DatesAssumption DEF Dated, CertsNear
<1> QED
  BY <1>1, DatesAssumption DEF TwoDigits, StampYear, Dates

\* Which step a process that goes on takes.
LEMMA GoesAt ==
  ASSUME LocalOK, NEW p \in Procs, Step(p), pc'[p] # "idle"
  PROVE  /\ pc[p] = "readIndex" => ReadIndex(p) /\ mem'[p] = disk.index
         /\ pc[p] = "readAttr" => ReadAttr(p)
         /\ pc[p] = "lookup" => Lookup(p) /\ pc'[p] = "renameIndex"
         /\ pc[p] = "checkUnique" => CheckUnique(p)
         /\ pc[p] = "closeSerial" => CloseSerial(p) /\ mem'[p] = Recorded(mem[p], cert[p])
         /\ pc[p] = "createAttr" => CreateAttr(p) /\ fd'[p] = "attr"
<1>1. \A code : ~Exit(p, code)
  BY DEF Exit, LocalOK
<1>2. /\ pc[p] = "readIndex" => ReadIndex(p)
      /\ pc[p] = "readAttr" => ReadAttr(p)
      /\ pc[p] = "lookup" => Lookup(p)
      /\ pc[p] = "checkUnique" => CheckUnique(p)
      /\ pc[p] = "closeSerial" => CloseSerial(p)
      /\ pc[p] = "createAttr" => CreateAttr(p)
  BY <1>1 DEF Step, ReadIndex, ReadAttr, Refuse, Lookup, OpenCrl, CloseCrl, ReadSerial,
     CheckUnique, WriteCert, SaveSerial, OpenSerial, CloseSerial, RenameIndex, CreateIndex,
     CloseIndex, RenameAttr, CreateAttr, CloseAttr, DieOnTorn
<1>3. ReadIndex(p) => mem'[p] = disk.index
  BY <1>1 DEF ReadIndex, LocalOK
<1>4. Lookup(p) => pc'[p] = "renameIndex"
  BY <1>1 DEF Lookup, Goto, LocalOK
<1>5. CloseSerial(p) => mem'[p] = Recorded(mem[p], cert[p])
  BY <1>1 DEF CloseSerial, LocalOK
<1>6. CreateAttr(p) => fd'[p] = "attr"
  BY <1>1 DEF CreateAttr, Truncate, LocalOK
<1> QED
  BY <1>2, <1>3, <1>4, <1>5, <1>6

\* The first steps of a proof about a step of commands that run alone.
LEMMA StepFacts ==
  ASSUME Solo, LedgerInv, [Next]_vars, faults' = faults
  PROVE  /\ BookInv /\ TypeInv /\ LocalOK /\ LedgerInv /\ clock \in Nat /\ clock' \in Nat
         /\ clock <= clock' /\ CurrentAttr' = CurrentAttr /\ runs \in Nat
         /\ BookInv' /\ TypeInv' /\ LocalOK'
         /\ \A p \in Procs : cert[p] \in Certs /\ mem[p] \in Seq(Entries)
         /\ CurrentIndex \in Seq(Entries)
<1>1. BookInv' /\ TypeInv'
  BY NextBook, LedgerFacts DEF BookInv
<1>2. LocalOK'
  BY <1>1 DEF TypeInv, TypeOK, LocalOK
<1> QED
  BY <1>1, <1>2, LedgerFacts, EnvSteps, CurrentAttrSteps, CurrentGood DEF EnvOK

\* What a step that keeps a process running leaves alone.
LEMMA CurrentSame ==
  ASSUME Solo, LedgerInv, [Next]_vars, faults' = faults, NEW p \in Procs,
         pc[p] # "idle", pc[p] # "closeIndex" \/ pc'[p] = "closeIndex"
  PROVE  CurrentIndex' = CurrentIndex
<1>1. \A q \in Procs : q # p => pc[q] = "idle"
  BY LedgerFacts, OthersIdle
<1> QED
  BY <1>1, CurrentIndexSteps DEF CloseIndex

\* The lines a rewrite writes are those of the database, one of them marked or
\* one more.
LEMMA EditedLines ==
  ASSUME LedgerInv, NEW p \in Procs, pc[p] \in Rewriting
  PROVE  LinesOK(mem[p], clock)
<1>1. /\ Edited(p) /\ LinesOK(CurrentIndex, clock) /\ clock \in Nat
      /\ CurrentIndex \in Seq(Entries) /\ cert[p] \in Certs
  BY LedgerFacts, CurrentGood DEF LedgerInv, MemKept, EnvOK
<1> QED
  BY <1>1, LinesMarked, LinesRecorded DEF Edited

LEMMA NextLines ==
  ASSUME Solo, LedgerInv, [Next]_vars, faults' = faults
  PROVE  LinesOK(CurrentIndex, clock)'
<1>1. /\ clock \in Nat /\ clock' \in Nat /\ clock <= clock'
      /\ CurrentIndex \in Seq(Entries) /\ LinesOK(CurrentIndex, clock)
      /\ \A p \in Procs : mem[p] \in Seq(Entries)
  BY StepFacts DEF LedgerInv
<1>2. CASE CurrentIndex' = CurrentIndex
  BY <1>1, <1>2, LinesLater DEF LinesOK
<1>3. ASSUME NEW p \in Procs, CloseIndex(p), CurrentIndex' = Refreshed(mem[p], clock)
      PROVE  LinesOK(CurrentIndex, clock)'
  <2>1. LinesOK(mem[p], clock)
    BY <1>3, EditedLines DEF CloseIndex, Rewriting
  <2>2. LinesOK(Refreshed(mem[p], clock), clock) /\ Refreshed(mem[p], clock) \in Seq(Entries)
    BY <1>1, <2>1, LinesRefreshed, RefreshedType
  <2>3. LinesOK(Refreshed(mem[p], clock), clock')
    BY <1>1, <2>2, LinesLater
  <2> QED
    BY <1>3, <2>3 DEF LinesOK
<1> QED
  BY <1>2, <1>3, CurrentIndexSteps

LEMMA NextReading ==
  ASSUME Solo, LedgerInv, [Next]_vars, faults' = faults, NEW p \in Procs, pc'[p] \in Reading
  PROVE  mem'[p] = CurrentIndex'
<1>1. /\ BookInv /\ TypeInv /\ LocalOK /\ pc'[p] # "idle" /\ pc'[p] # "readIndex"
  BY StepFacts DEF Reading
<1>2. CASE Step(p) /\ pc[p] = "readIndex"
  <2>1. mem'[p] = disk.index
    BY <1>1, <1>2, GoesAt
  <2>2. CurrentIndex = disk.index
    BY <1>2, CurrentGood DEF Replacing
  <2>3. CurrentIndex' = CurrentIndex
    BY <1>2, CurrentSame
  <2> QED
    BY <2>1, <2>2, <2>3
<1>3. CASE pc[p] \in Reading
  <2>1. mem[p] = CurrentIndex
    BY <1>3 DEF LedgerInv, MemKept
  <2>2. CurrentIndex' = CurrentIndex
    BY <1>3, CurrentSame DEF Reading
  <2>3. ASSUME Lookup(p) \/ CloseSerial(p) PROVE FALSE
    <3>1. Step(p) /\ pc[p] \in {"lookup", "closeSerial"}
      BY <2>3 DEF Step, Lookup, CloseSerial
    <3>2. pc'[p] = "renameIndex"
      BY <1>1, <2>3 DEF Lookup, CloseSerial, Exit, Goto, LocalOK
    <3> QED
      BY <3>2 DEF Reading
  <2>4. mem'[p] = mem[p]
    BY <1>1, <1>3, <2>3, MemSteps DEF ReadIndex, Reading
  <2> QED
    BY <2>1, <2>2, <2>4
<1>4. \/ Step(p) /\ pc[p] = "readIndex"
      \/ pc[p] \in Reading
  BY <1>1, Moves DEF Flow, Reading
<1> QED
  BY <1>2, <1>3, <1>4

LEMMA NextEdited ==
  ASSUME Solo, Dated, LedgerInv, [Next]_vars, faults' = faults, NEW p \in Procs,
         pc'[p] \in Rewriting
  PROVE  Edited(p)'
<1>1. /\ BookInv /\ TypeInv /\ LocalOK /\ pc'[p] \notin {"idle", "readIndex"}
      /\ clock \in Nat /\ clock' \in Nat /\ clock <= clock' /\ CertsNear
      /\ cert[p] \in Certs /\ mem[p] \in Seq(Entries) /\ CurrentIndex \in Seq(Entries)
  BY StepFacts DEF Rewriting, LedgerInv
<1>2. \/ pc[p] = "lookup" /\ Step(p) /\ UNCHANGED <<cert, op, clock>>
      \/ pc[p] = "closeSerial" /\ Step(p) /\ UNCHANGED <<cert, op>>
      \/ pc[p] \in Rewriting /\ UNCHANGED <<cert, op>>
  BY <1>1, Moves DEF Flow, Rewriting, local
<1>3. CurrentIndex' = CurrentIndex
  <2>1. pc[p] # "idle" /\ (pc[p] # "closeIndex" \/ pc'[p] = "closeIndex")
    BY <1>1, <1>2, Moves DEF Flow, Rewriting
  <2> QED
    BY <2>1, CurrentSame
<1>4. CASE pc[p] = "lookup" /\ Step(p) /\ UNCHANGED <<cert, op, clock>>
  <2>1. Lookup(p) /\ op[p] = "revoke" /\ mem[p] = CurrentIndex
    BY <1>1, <1>4, GoesAt DEF BookInv, PhaseOK, LedgerInv, MemKept, Reading
  <2>2. PICK i \in DOMAIN mem[p] :
          mem'[p] = [mem[p] EXCEPT ![i].status = "R", ![i].revoked = TwoDigits(clock)]
    BY <1>1, <2>1 DEF Lookup, Exit, LocalOK
  <2>3. mem'[p] = Marked(CurrentIndex, i, clock) /\ i \in DOMAIN CurrentIndex
    <3>1. clock \in 0 .. clock
      BY <1>1
    <3>2. TwoDigits(clock) = clock
      BY <1>1, <3>1, StampKept
    <3>3. mem'[p] = Marked(mem[p], i, TwoDigits(clock))
      BY <2>2 DEF Marked
    <3> QED
      BY <2>1, <2>2, <3>2, <3>3
  <2>4. LineOK(CurrentIndex[i], clock) /\ clock \in 0 .. clock'
    BY <1>1, <2>3 DEF LedgerInv, LinesOK
  <2> QED
    BY <1>3, <1>4, <2>1, <2>3, <2>4 DEF Edited
<1>5. CASE pc[p] = "closeSerial" /\ Step(p) /\ UNCHANGED <<cert, op>>
  <2>1. mem'[p] = Recorded(mem[p], cert[p]) /\ op[p] = "sign" /\ mem[p] = CurrentIndex
    BY <1>1, <1>5, GoesAt DEF BookInv, PhaseOK, LedgerInv, MemKept, Reading
  <2> QED
    BY <1>3, <1>5, <2>1 DEF Edited
<1>6. CASE pc[p] \in Rewriting /\ UNCHANGED <<cert, op>>
  <2>1. mem'[p] = mem[p] /\ Edited(p)
    BY <1>1, <1>6, MemSteps DEF ReadIndex, Lookup, CloseSerial, Rewriting, LedgerInv, MemKept
  <2>2. \A y \in 0 .. clock : y \in 0 .. clock'
    BY <1>1
  <2> QED
    BY <1>3, <1>6, <2>1, <2>2 DEF Edited
<1> QED
  BY <1>2, <1>4, <1>5, <1>6

LEMMA NextMemKept ==
  ASSUME Solo, Dated, LedgerInv, [Next]_vars, faults' = faults
  PROVE  MemKept'
<1>1. ASSUME NEW p \in Procs, pc'[p] \in Reading PROVE mem'[p] = CurrentIndex'
  BY <1>1, NextReading
<1>2. ASSUME NEW p \in Procs, pc'[p] \in Rewriting PROVE Edited(p)'
  BY <1>2, NextEdited
<1> QED
  BY <1>1, <1>2 DEF MemKept

\* What a step leaves of the process that takes it, and which one it was.
LEMMA StepKeeps ==
  ASSUME Solo, BookInv, [Next]_vars, NEW p \in Procs, pc'[p] \notin {"idle", "readIndex"}
  PROVE  \/ /\ Step(p) /\ <<pc[p], pc'[p]>> \in Flow /\ op'[p] = op[p]
            /\ \/ pc[p] # "readAttr" /\ uniq'[p] = uniq[p]
               \/ pc[p] = "readAttr" /\ uniq'[p] = disk.attr[1]
            /\ pc[p] \notin {"readSerial", "checkUnique"} => cert'[p] = cert[p]
         \/ pc'[p] = pc[p] /\ UNCHANGED <<local, fd>>
<1>1. TypeInv /\ LocalOK
  BY TypeOKSplit DEF BookInv, TypeInv
<1>2. CASE /\ Step(p) /\ UNCHANGED <<clock, op>> /\ <<pc[p], pc'[p]>> \in Flow
           /\ pc[p] \notin {"readSerial", "checkUnique"} => UNCHANGED cert
  <2>1. ~ \E code : Exit(p, code)
    BY <1>1 DEF Exit, LocalOK
  <2>2. \/ pc[p] # "readAttr" /\ UNCHANGED uniq
        \/ pc[p] = "readAttr" /\ uniq' = [uniq EXCEPT ![p] = disk.attr[1]]
    BY <1>1, <1>2, <2>1, GotoSteps
  <2> QED
    BY <1>1, <1>2, <2>2 DEF LocalOK
<1>3. CASE UNCHANGED <<pc, local, fd>>
  BY <1>3
<1> QED
  BY <1>2, <1>3, Moves

LEMMA NextAttrKept ==
  ASSUME Solo, LedgerInv, [Next]_vars, faults' = faults
  PROVE  AttrKept'
<1>1. BookInv /\ TypeInv /\ LocalOK /\ AttrKept /\ CurrentAttr' = CurrentAttr
  BY StepFacts DEF LedgerInv
<1>2. ASSUME NEW p \in Procs, pc'[p] \notin {"idle", "readIndex", "readAttr"}
      PROVE  CurrentAttr = <<uniq'[p]>>
  <2>1. CASE Step(p) /\ pc[p] = "readAttr" /\ uniq'[p] = disk.attr[1]
    <3>1. \A q \in Procs : pc[q] \notin {"createAttr", "closeAttr"}
      BY <1>1, <2>1, OthersIdle
    <3>2. CurrentAttr = disk.attr
      BY <3>1 DEF CurrentAttr, Current
    <3>3. PICK a \in AttrValues : disk.attr = <<a>>
      BY <1>1, <3>2 DEF AttrKept
    <3> QED
      BY <2>1, <3>2, <3>3
  <2>2. CASE pc[p] \notin {"idle", "readIndex", "readAttr"} /\ uniq'[p] = uniq[p]
    BY <1>1, <2>2 DEF AttrKept
  <2> QED
    BY <1>1, <1>2, <2>1, <2>2, StepKeeps DEF Flow, local
<1>3. ASSUME NEW p \in Procs, pc'[p] = "closeAttr" PROVE fd'[p] = "attr"
  <2>1. CASE Step(p) /\ pc[p] = "createAttr"
    BY <1>1, <1>3, <2>1, GoesAt
  <2>2. CASE pc[p] = "closeAttr" /\ UNCHANGED fd
    BY <1>1, <2>2 DEF AttrKept
  <2> QED
    BY <1>1, <1>3, <2>1, <2>2, StepKeeps DEF Flow
<1> QED
  BY <1>1, <1>2, <1>3 DEF AttrKept

LEMMA NextSubjectFree ==
  ASSUME Solo, LedgerInv, [Next]_vars, faults' = faults
  PROVE  SubjectFree'
<1> DEFINE late == {"writeCert", "saveSerial", "openSerial", "closeSerial"} \union Rewriting
<1>1. /\ BookInv /\ TypeInv /\ LocalOK /\ PhaseOK /\ SubjectFree /\ AttrKept
      /\ CurrentAttr' = CurrentAttr
  BY StepFacts DEF LedgerInv, BookInv
<1>2. ASSUME NEW p \in Procs, op'[p] = "sign", CurrentAttr' = <<"yes">>, pc'[p] \in late
      PROVE  ~SubjectTaken(CurrentIndex', cert'[p].dn)
  <2>1. \/ pc[p] = "checkUnique" /\ Step(p)
        \/ pc[p] \in late /\ op[p] = "sign" /\ cert'[p] = cert[p]
    BY <1>1, <1>2, StepKeeps DEF Flow, Rewriting, local, PhaseOK
  <2>2. CurrentIndex' = CurrentIndex
    <3>1. pc[p] # "idle" /\ (pc[p] # "closeIndex" \/ pc'[p] = "closeIndex")
      BY <1>1, <1>2, StepKeeps DEF Flow, Rewriting
    <3> QED
      BY <3>1, CurrentSame
  <2>3. CASE pc[p] = "checkUnique" /\ Step(p)
    <3>1. CheckUnique(p) /\ pc'[p] # "idle"
      BY <1>1, <1>2, <2>3, GoesAt DEF Rewriting
    <3>2. uniq[p] = "yes"
      <4>1. <<uniq[p]>> = <<"yes">>
        BY <1>1, <1>2, <2>3 DEF AttrKept
      <4> QED
        BY <4>1
    <3>3. /\ ~SubjectTaken(mem[p], cert[p].dn)
          /\ \E life \in Lifetimes : cert' = [cert EXCEPT ![p].expiry = clock + life]
      BY <1>1, <3>1, <3>2 DEF CheckUnique, Exit, LocalOK
    <3>4. cert'[p].dn = cert[p].dn
      BY <1>1, <3>3 DEF LocalOK, Certs
    <3>5. mem[p] = CurrentIndex
      BY <2>3 DEF LedgerInv, MemKept, Reading
    <3> QED
      BY <2>2, <3>3, <3>4, <3>5
  <2>4. CASE pc[p] \in late /\ op[p] = "sign" /\ cert'[p] = cert[p]
    <3>1. ~SubjectTaken(CurrentIndex, cert[p].dn)
      BY <1>1, <1>2, <2>4 DEF SubjectFree
    <3> QED
      BY <2>2, <2>4, <3>1
  <2> QED
    BY <2>1, <2>3, <2>4
<1> QED
  BY <1>2 DEF SubjectFree, SubjectTaken

LEMMA NextSerialRange ==
  ASSUME Solo, LedgerInv, [Next]_vars, faults' = faults
  PROVE  SerialRange'
<1>1. /\ BookInv /\ TypeInv /\ LocalOK /\ PhaseOK /\ SerialRange /\ FirstSerial \in Nat
      /\ runs \in Nat /\ runs' \in {runs, runs + 1}
      /\ disk.serial \in Seq(Nat) /\ \A p \in Procs : SerialInUse(p) /\ cert[p] \in Certs
  <2>1. BookInv /\ TypeInv /\ LocalOK /\ runs \in Nat /\ \A p \in Procs : cert[p] \in Certs
    BY StepFacts
  <2>2. PhaseOK /\ SerialRange /\ \A p \in Procs : SerialInUse(p)
    BY DEF LedgerInv, BookInv, SerialInv
  <2>3. disk.serial \in Seq(Nat)
    <3>1. disk \in Disks /\ disk.serial # NoFile
      BY LedgerFacts DEF SerialInv, FileAhead
    <3> QED
      BY <3>1 DEF Disks, SerialFiles
  <2> QED
    BY <2>1, <2>2, <2>3, EnvSteps, CAAssumption
<1>2. \/ disk'.serial = disk.serial
      \/ disk'.serial = <<>>
      \/ \E p \in Procs : CloseSerial(p) /\ disk'.serial = <<cert[p].serial + 1>>
  BY <1>1, SerialSteps DEF NextSerial
<1>3. disk'.serial # <<>> => disk'.serial[1] \in FirstSerial .. FirstSerial + runs'
  <2>1. ASSUME NEW p \in Procs, CloseSerial(p)
        PROVE  cert[p].serial + 1 \in FirstSerial .. FirstSerial + runs'
    BY <1>1, <2>1 DEF CloseSerial, SerialRange, Certs
  <2> QED
    BY <1>1, <1>2, <2>1 DEF SerialRange
<1>4. ASSUME NEW p \in Procs, pc'[p] # "idle", pc'[p] \notin Recording, disk'.serial # <<>>
      PROVE  disk'.serial[1] < FirstSerial + runs'
  <2>1. CASE Invoke(p)
    BY <1>1, <1>4, <2>1 DEF Invoke, SerialRange
  <2>2. CASE pc[p] # "idle" /\ pc[p] \notin Recording
    <3>1. ASSUME NEW q \in Procs, CloseSerial(q) PROVE FALSE
      <4>1. q = p
        BY <1>1, <2>2, <3>1, OthersIdle DEF CloseSerial
      <4> QED
        BY <1>1, <1>4, <3>1, <4>1 DEF CloseSerial, Exit, Goto, LocalOK, Recording, Rewriting
    <3> QED
      BY <1>1, <1>2, <1>4, <2>2, <3>1 DEF SerialRange
  <2> QED
    BY <1>1, <1>4, <2>1, <2>2, Moves DEF Flow, Recording, Rewriting
<1>5. ASSUME NEW p \in Procs, pc'[p] = "closeSerial" \/ (pc'[p] \in Rewriting /\ op'[p] = "sign")
      PROVE  cert'[p].serial \in FirstSerial .. FirstSerial + runs' - 1
  <2>1. \/ pc[p] = "openSerial"
        \/ pc[p] = "closeSerial" \/ (pc[p] \in Rewriting /\ op[p] = "sign")
    BY <1>1, <1>5, StepKeeps DEF Flow, Rewriting, PhaseOK, local
  <2>2. cert'[p] = cert[p]
    BY <1>1, <1>5, <2>1, StepKeeps DEF Rewriting, local
  <2>3. cert[p].serial \in FirstSerial .. FirstSerial + runs - 1
    <3>1. CASE pc[p] = "openSerial"
      <4>1. disk.serial # <<>> /\ disk.serial[1] = cert[p].serial
        BY <1>1, <3>1 DEF SerialInUse
      <4>2. /\ disk.serial[1] \in FirstSerial .. FirstSerial + runs
            /\ disk.serial[1] < FirstSerial + runs
        BY <1>1, <3>1, <4>1 DEF SerialRange, Recording, Rewriting
      <4> QED
        BY <1>1, <4>1, <4>2
    <3>2. CASE pc[p] # "openSerial"
      <4>1. pc[p] = "closeSerial" \/ (pc[p] \in Rewriting /\ op[p] = "sign")
        BY <2>1, <3>2
      <4>2. SerialRange
        BY <1>1
      <4> QED
        BY <4>1, <4>2 DEF SerialRange
    <3> QED
      BY <3>1, <3>2
  <2> QED
    BY <1>1, <2>2, <2>3
<1> QED
  BY <1>3, <1>4, <1>5 DEF SerialRange

LEMMA NextLedger ==
  ASSUME Solo, MaxFaults = 0, Dated, LedgerInv, [Next]_vars
  PROVE  LedgerInv' /\ faults' = faults
<1>1. faults = 0 /\ faults' = faults
  BY LedgerFacts, EnvSteps DEF LedgerInv
<1>2. SerialInv' /\ DurableInv'
  BY LedgerFacts, StepSerial, NextDurable
<1>3. CertsNear'
  BY LedgerFacts, NextNear DEF LedgerInv, Dated
<1> QED
  BY <1>1, <1>2, <1>3, NextLines, NextMemKept, NextSubjectFree, NextAttrKept, NextSerialRange
     DEF LedgerInv

LEMMA InitLedger == Init => LedgerInv
<1> SUFFICES ASSUME Init PROVE LedgerInv
  OBVIOUS
<1>1. /\ SerialInv /\ DurableInv /\ CertsNear /\ faults = 0 /\ runs = 0
      /\ \A p \in Procs : pc[p] = "idle"
  BY InitSerial, InitDurable, InitNear DEF Init
<1>2. /\ CurrentIndex = disk.index /\ disk.index = <<>>
      /\ CurrentAttr = disk.attr /\ \E a \in InitAttr : disk.attr = <<a>>
      /\ disk.serial = <<FirstSerial>>
  BY <1>1 DEF Init, CurrentIndex, CurrentAttr, Current
<1>3. LinesOK(CurrentIndex, clock)
  BY <1>2 DEF LinesOK
<1>4. MemKept /\ SubjectFree
  BY <1>1 DEF MemKept, SubjectFree, Reading, Rewriting
<1>5. AttrKept
  BY <1>1, <1>2, CAAssumption DEF AttrKept
<1>6. SerialRange
  BY <1>1, <1>2, CAAssumption DEF SerialRange, Rewriting
<1> QED
  BY <1>1, <1>3, <1>4, <1>5, <1>6 DEF LedgerInv
----------------------------------------------------------------------------
(* What the lines say, taken together *)

LinesOf(m) == {Line(m[i]) : i \in DOMAIN m}

LEMMA LinesOfRefreshed ==
  ASSUME NEW m \in Seq(Entries), NEW now
  PROVE  LinesOf(Refreshed(m, now)) = LinesOf(m)
<1>1. ASSUME NEW i \in DOMAIN m PROVE Line(Refreshed(m, now)[i]) = Line(m[i])
  <2>1. PICK e : e = Refreshed(m, now)[i]
    OBVIOUS
  <2>2. m[i] \in Lines
    BY DEF Entries
  <2>3. e.serial = m[i].serial /\ e.dn = m[i].dn /\ e.expiry = m[i].expiry /\ e.revoked = m[i].revoked
    BY <2>1, <2>2 DEF Refreshed, Lines
  <2> QED
    BY <2>1, <2>3 DEF Line
<1>2. DOMAIN Refreshed(m, now) = DOMAIN m
  BY DEF Refreshed
<1> QED
  BY <1>1, <1>2 DEF LinesOf

LEMMA LinesOfRecorded ==
  ASSUME NEW m \in Seq(Entries), NEW c \in Certs
  PROVE  LinesOf(Recorded(m, c)) = LinesOf(m) \union {Line(NewEntry(c))}
<1>1. /\ DOMAIN Recorded(m, c) = 1 .. Len(m) + 1 /\ DOMAIN m = 1 .. Len(m) /\ Len(m) \in Nat
      /\ \A i \in DOMAIN m : Recorded(m, c)[i] = m[i]
      /\ Recorded(m, c)[Len(m) + 1] = NewEntry(c)
  BY RecordedLines
<1>2. DOMAIN Recorded(m, c) = DOMAIN m \union {Len(m) + 1}
  BY <1>1
<1> QED
  BY <1>1, <1>2 DEF LinesOf

LEMMA LinesOfMarked ==
  ASSUME NEW m \in Seq(Entries), NEW i \in DOMAIN m, NEW y, Distinct(m), m[i].serial # NoSerial
  PROVE  LinesOf(Marked(m, i, y)) = (LinesOf(m) \ {Line(m[i])}) \union {Line(Struck(m[i], y))}
<1>1. /\ DOMAIN Marked(m, i, y) = DOMAIN m
      /\ Marked(m, i, y)[i] = Struck(m[i], y)
      /\ \A j \in DOMAIN m : j # i => Marked(m, i, y)[j] = m[j]
  BY MarkedLines
<1>2. ASSUME NEW j \in DOMAIN m, j # i PROVE Line(m[j]) # Line(m[i])
  BY <1>2 DEF Line, Distinct
<1> QED
  BY <1>1, <1>2 DEF LinesOf

\* What the line of a certificate that was just signed says.
LEMMA LineOfNew ==
  ASSUME NEW c \in Certs, c.expiry < ExpiryPivot
  PROVE  Line(NewEntry(c)) = [serial |-> c.serial, dn |-> c.dn, expiry |-> c.expiry, revoked |-> NoDate]
<1>1. ExpiryYear(TwoDigits(c.expiry)) = c.expiry
  BY YearKept DEF Certs
<1> QED
  BY <1>1 DEF Line, NewEntry

\* What the line of a certificate says once it was revoked.
LEMMA LineOfStruck ==
  ASSUME NEW e \in Entries, NEW y \in Dates, StampYear(y) = y
  PROVE  Line(Struck(e, y)) = [Line(e) EXCEPT !.revoked = y]
<1>1. PICK x : x = Struck(e, y)
  OBVIOUS
<1>2. x.serial = e.serial /\ x.dn = e.dn /\ x.expiry = e.expiry /\ x.revoked = y /\ y # NoDate
  BY <1>1, CAAssumption DEF Struck, Entries, Lines
<1> QED
  BY <1>1, <1>2 DEF Line

\* What a line says of its revocation is what was written.
LEMMA LineRevoked ==
  ASSUME Dated, CertsNear, clock \in Nat, NEW e \in Entries, NEW now \in 0 .. clock, LineOK(e, now)
  PROVE  /\ Line(e).revoked = e.revoked
         /\ e.revoked # NoDate => Line(e).revoked \in 0 .. now
<1>1. CASE e.revoked = NoDate
  BY <1>1 DEF Line
<1>2. CASE e.revoked # NoDate
  <2>1. e.revoked \in 0 .. now
    BY <1>2 DEF LineOK, Entries, Lines, Dates
  <2>2. StampYear(e.revoked) = e.revoked
    BY <2>1, StampKept
  <2> QED
    BY <1>2, <2>1, <2>2 DEF Line
<1> QED
  BY <1>1, <1>2
----------------------------------------------------------------------------
(* Steps map to steps of the ledger, or to none *)

\* A sign command that closes the database issues its certificate.
LEMMA IssueStep ==
  ASSUME Dated, LedgerInv, NEW p \in Procs, pc[p] = "closeIndex", op[p] = "sign",
         CurrentIndex' = Refreshed(mem[p], clock),
         UNCHANGED <<CrlNow, CurrentAttr, clock>>
  PROVE  L!Issue
<1>1. /\ CurrentIndex \in Seq(Entries) /\ mem[p] \in Seq(Entries) /\ cert[p] \in Certs
      /\ mem[p] = Recorded(CurrentIndex, cert[p]) /\ Distinct(mem[p])
      /\ LinesOK(CurrentIndex, clock) /\ runs \in 0 .. MaxRuns /\ MaxRuns \in Nat /\ FirstSerial \in Nat
      /\ cert[p].serial \in FirstSerial .. FirstSerial + runs - 1
      /\ cert[p].expiry < ExpiryPivot
  <2>1. Edited(p) /\ \A q \in Procs : Distinct(mem[q])
    BY DEF LedgerInv, MemKept, Rewriting, SerialInv
  <2>2. LinesOK(CurrentIndex, clock) /\ CertsNear /\ SerialRange
    BY DEF LedgerInv
  <2> QED
    BY <2>1, <2>2, LedgerFacts, CurrentGood, CAAssumption
       DEF Edited, EnvOK, CertsNear, SerialRange, Rewriting
<1>2. PICK c \in Certs : c = cert[p]
  BY <1>1
<1>3. LedgerNow' = LedgerNow \union
        {[serial |-> c.serial, dn |-> c.dn, expiry |-> c.expiry, revoked |-> NoDate]}
  <2>1. LinesOf(CurrentIndex') = LinesOf(mem[p])
    BY <1>1, LinesOfRefreshed
  <2>2. LinesOf(mem[p]) = LinesOf(CurrentIndex) \union {Line(NewEntry(c))}
    BY <1>1, <1>2, LinesOfRecorded
  <2>3. LedgerNow' = LinesOf(CurrentIndex') /\ LedgerNow = LinesOf(CurrentIndex)
    BY DEF LedgerNow, LinesOf, Line
  <2> QED
    BY <1>1, <1>2, <2>1, <2>2, <2>3, LineOfNew
<1>4. \A e \in LedgerNow : e.serial # c.serial
  <2>1. ASSUME NEW i \in DOMAIN CurrentIndex PROVE CurrentIndex[i].serial # c.serial
    <3>1. /\ DOMAIN mem[p] = 1 .. Len(CurrentIndex) + 1
          /\ DOMAIN CurrentIndex = 1 .. Len(CurrentIndex) /\ Len(CurrentIndex) \in Nat
          /\ mem[p][i] = CurrentIndex[i] /\ mem[p][Len(CurrentIndex) + 1] = NewEntry(c)
      BY <1>1, <1>2, RecordedLines
    <3>2. NewEntry(c).serial = c.serial /\ CurrentIndex[i].serial # NoSerial
      BY <1>1 DEF NewEntry, LinesOK, LineOK
    <3>3. i \in DOMAIN mem[p] /\ Len(CurrentIndex) + 1 \in DOMAIN mem[p] /\ i # Len(CurrentIndex) + 1
      BY <3>1
    <3> QED
      BY <1>1, <3>1, <3>2, <3>3 DEF Distinct
  <2> QED
    BY <2>1 DEF LedgerNow, Line
<1>5. CurrentAttr = <<"yes">> => \A e \in LedgerNow : e.dn # c.dn
  <2>1. ASSUME CurrentAttr = <<"yes">>, NEW i \in DOMAIN CurrentIndex
        PROVE  CurrentIndex[i].dn # c.dn
    <3>1. ~SubjectTaken(CurrentIndex, c.dn)
      BY <1>2, <2>1 DEF LedgerInv, SubjectFree, Rewriting
    <3>2. ~Torn(CurrentIndex[i])
      BY <1>1 DEF LinesOK, LineOK
    <3> QED
      BY <3>1, <3>2 DEF SubjectTaken
  <2> QED
    BY <2>1 DEF LedgerNow, Line
<1>6. /\ c.serial \in FirstSerial .. FirstSerial + MaxRuns /\ c.dn \in Names
      /\ c.expiry \in 0 .. Horizon
  BY <1>1, <1>2, DatesAssumption DEF Dated, Certs
<1> QED
  BY <1>3, <1>4, <1>5, <1>6 DEF L!Issue

\* A -revoke command that closes the database revokes its certificate.
LEMMA RevokeStep ==
  ASSUME Dated, LedgerInv, NEW p \in Procs, pc[p] = "closeIndex", op[p] = "revoke",
         CurrentIndex' = Refreshed(mem[p], clock),
         UNCHANGED <<CrlNow, CurrentAttr, clock>>
  PROVE  L!Revoke
<1>1. /\ CurrentIndex \in Seq(Entries) /\ mem[p] \in Seq(Entries) /\ Distinct(CurrentIndex)
      /\ clock \in Nat /\ CertsNear
  BY LedgerFacts, CurrentGood DEF EnvOK, LedgerInv
<1>2. PICK i \in DOMAIN CurrentIndex, y \in 0 .. clock :
        LineOK(CurrentIndex[i], y) /\ mem[p] = Marked(CurrentIndex, i, y)
  <2>1. Edited(p)
    BY DEF LedgerInv, MemKept, Rewriting
  <2> QED
    BY <2>1 DEF Edited
<1>3. CurrentIndex[i] \in Entries /\ y \in Dates /\ StampYear(y) = y
  BY <1>1, StampKept
<1>4. LedgerNow' = (LedgerNow \ {Line(CurrentIndex[i])})
                     \union {[Line(CurrentIndex[i]) EXCEPT !.revoked = y]}
  <2>1. LinesOf(CurrentIndex') = LinesOf(mem[p])
    BY <1>1, LinesOfRefreshed
  <2>2. LinesOf(mem[p]) = (LinesOf(CurrentIndex) \ {Line(CurrentIndex[i])})
                            \union {Line(Struck(CurrentIndex[i], y))}
    <3>1. CurrentIndex[i].serial # NoSerial
      BY <1>2 DEF LineOK
    <3> QED
      BY <1>1, <1>2, <3>1, LinesOfMarked
  <2>3. LedgerNow' = LinesOf(CurrentIndex') /\ LedgerNow = LinesOf(CurrentIndex)
    BY DEF LedgerNow, LinesOf, Line
  <2> QED
    BY <1>3, <2>1, <2>2, <2>3, LineOfStruck
<1>5. Line(CurrentIndex[i]).revoked # NoDate => Line(CurrentIndex[i]).revoked <= y
  BY <1>1, <1>2, <1>3, LineRevoked
<1>6. Line(CurrentIndex[i]) \in LedgerNow
  BY DEF LedgerNow
<1> QED
  BY <1>4, <1>5, <1>6 DEF L!Revoke, L!Revoked

\* A -gencrl command that closes the CRL publishes it.
LEMMA PublishStep ==
  ASSUME Dated, NoFile \notin SUBSET CrlItems, LedgerInv, NEW p \in Procs, pc[p] = "closeCrl",
         disk'.crl = <<CrlOf(mem[p])>>, UNCHANGED <<LedgerNow, CurrentAttr, clock>>
  PROVE  L!Publish
<1>1. /\ CurrentIndex \in Seq(Entries) /\ mem[p] = CurrentIndex
      /\ clock \in Nat /\ CertsNear /\ LinesOK(CurrentIndex, clock)
  BY LedgerFacts, CurrentGood DEF EnvOK, LedgerInv, MemKept, Reading
<1>2. CrlNow' = CrlOf(CurrentIndex) /\ CrlOf(CurrentIndex) # NoFile
  <2>1. CrlOf(CurrentIndex) \in SUBSET CrlItems
    BY <1>1, CrlType
  <2>2. <<CrlOf(CurrentIndex)>> # NoFile /\ <<CrlOf(CurrentIndex)>> # <<>>
    <3>1. <<CrlOf(CurrentIndex)>> \in Seq(SUBSET CrlItems)
      BY <2>1
    <3>2. <<CrlOf(CurrentIndex)>> # NoFile
      BY <3>1, CAAssumption
    <3>3. \A s : <<s>> # <<>>
      OBVIOUS
    <3> QED
      BY <3>2, <3>3
  <2> QED
    BY <1>1, <2>1, <2>2 DEF CrlNow
<1>3. ASSUME NEW i \in DOMAIN CurrentIndex
      PROVE  /\ Line(CurrentIndex[i]).revoked = CurrentIndex[i].revoked
             /\ CurrentIndex[i] \in Entries /\ LineOK(CurrentIndex[i], clock)
             /\ clock \in 0 .. clock
  <2>1. CurrentIndex[i] \in Entries /\ LineOK(CurrentIndex[i], clock) /\ clock \in 0 .. clock
    BY <1>1 DEF LinesOK
  <2> QED
    BY <1>1, <2>1, LineRevoked
<1>4. ASSUME NEW i \in Listed(CurrentIndex)
      PROVE  /\ i \in DOMAIN CurrentIndex /\ CurrentIndex[i].revoked # NoDate
             /\ StampYear(CurrentIndex[i].revoked) = CurrentIndex[i].revoked
  <2>1. i \in DOMAIN CurrentIndex /\ CurrentIndex[i].revoked # NoDate
    BY <1>3 DEF Listed, Entries
  <2> QED
    BY <1>3, <2>1 DEF Line
<1>5. CrlOf(CurrentIndex) \subseteq {L!Item(e) : e \in {x \in LedgerNow : L!Revoked(x)}}
  <2> SUFFICES ASSUME NEW i \in Listed(CurrentIndex)
               PROVE  \E e \in LedgerNow :
                        /\ L!Revoked(e)
                        /\ L!Item(e) = [serial |-> CurrentIndex[i].serial,
                                        year |-> StampYear(CurrentIndex[i].revoked)]
    BY DEF CrlOf
  <2>1. Line(CurrentIndex[i]) \in LedgerNow
    BY <1>4 DEF LedgerNow
  <2>2. Line(CurrentIndex[i]).serial = CurrentIndex[i].serial
    BY DEF Line
  <2> QED
    BY <1>3, <1>4, <2>1, <2>2 DEF L!Revoked, L!Item
<1>6. {L!Item(e) : e \in {x \in LedgerNow : L!Revoked(x) /\ x.expiry >= clock}}
        \subseteq CrlOf(CurrentIndex)
  <2> SUFFICES ASSUME NEW i \in DOMAIN CurrentIndex, L!Revoked(Line(CurrentIndex[i])),
                      Line(CurrentIndex[i]).expiry >= clock
               PROVE  L!Item(Line(CurrentIndex[i])) \in CrlOf(CurrentIndex)
    BY DEF LedgerNow
  <2>1. CurrentIndex[i].revoked # NoDate
    BY <1>3 DEF L!Revoked
  <2>2. ~Expired(CurrentIndex[i].expiry, clock)
    <3>1. ExpiryYear(CurrentIndex[i].expiry) \in Int
      BY <1>3, DatesAssumption DEF ExpiryYear, Entries, Lines, Dates
    <3>2. Line(CurrentIndex[i]).expiry = ExpiryYear(CurrentIndex[i].expiry)
      BY DEF Line
    <3> QED
      BY <1>1, <3>1, <3>2 DEF Expired
  <2>3. i \in Listed(CurrentIndex)
    BY <1>3, <2>1, <2>2 DEF LineOK, Torn, Entries, Lines, Listed
  <2>4. Line(CurrentIndex[i]).serial = CurrentIndex[i].serial
    BY DEF Line
  <2> QED
    BY <1>3, <1>4, <2>3, <2>4 DEF L!Item, CrlOf
<1> QED
  BY <1>2, <1>5, <1>6 DEF L!Publish

\* Whatever the ledger does not show stutters; the clock and the CRL change at
\* steps that leave the database alone.
LEMMA QuietStep ==
  ASSUME Solo, MaxFaults = 0, Dated, NoFile \notin SUBSET CrlItems, LedgerInv, [Next]_vars,
         CurrentIndex' = CurrentIndex
  PROVE  [L!Next]_(L!lvars)
<1>1. BookInv /\ TypeInv /\ faults' = faults /\ CurrentAttr' = CurrentAttr
  BY NextLedger, StepFacts
<1>2. LedgerNow' = LedgerNow
  <2>1. LedgerNow' = LinesOf(CurrentIndex') /\ LedgerNow = LinesOf(CurrentIndex)
    BY DEF LedgerNow, LinesOf, Line
  <2> QED
    BY <2>1
<1>3. CASE disk'.crl = disk.crl /\ clock' = clock
  BY <1>1, <1>2, <1>3 DEF CrlNow, L!lvars
<1>4. CASE disk'.crl = disk.crl /\ clock' = clock + 1
  BY <1>1, <1>2, <1>4 DEF CrlNow, L!Pass, L!Next
<1>5. ASSUME NEW p \in Procs, OpenCrl(p), disk'.crl = <<>> PROVE L!Withdraw
  <2>1. clock' = clock
    BY <1>1, <1>5, Calm DEF OpenCrl, NoFault, env
  <2> QED
    BY <1>1, <1>2, <1>5, <2>1 DEF CrlNow, L!Withdraw
<1>6. ASSUME NEW p \in Procs, CloseCrl(p), disk'.crl = <<CrlOf(mem[p])>> PROVE L!Publish
  <2>1. clock' = clock /\ pc[p] = "closeCrl"
    BY <1>1, <1>6, Calm DEF CloseCrl, NoFault, env
  <2> QED
    BY <1>1, <1>2, <1>6, <2>1, PublishStep
<1> QED
  BY <1>1, <1>3, <1>4, <1>5, <1>6, EnvSteps, CrlSteps DEF L!Next

LEMMA LedgerStep ==
  ASSUME Solo, MaxFaults = 0, Dated, NoFile \notin SUBSET CrlItems, LedgerInv, [Next]_vars
  PROVE  [L!Next]_(L!lvars)
<1>1. /\ BookInv /\ TypeInv /\ faults' = faults /\ CurrentAttr' = CurrentAttr /\ PhaseOK
      /\ disk \in Disks /\ IndexOpen
  BY NextLedger, StepFacts, LedgerFacts DEF BookInv
<1>2. ASSUME NEW p \in Procs, CloseIndex(p), CurrentIndex' = Refreshed(mem[p], clock)
      PROVE  L!Issue \/ L!Revoke
  <2>1. pc[p] = "closeIndex" /\ fd[p] = "index"
    BY <1>1, <1>2 DEF CloseIndex, IndexOpen
  <2>2. disk' = Written(p, Refreshed(mem[p], clock)) /\ clock' = clock
    BY <1>1, <1>2, Calm DEF CloseIndex, NoFault, env
  <2>3. disk'.crl = disk.crl
    BY <1>1, <2>1, <2>2 DEF Written, Disks
  <2>4. UNCHANGED <<CrlNow, CurrentAttr, clock>>
    BY <1>1, <2>2, <2>3 DEF CrlNow
  <2>5. op[p] \in {"sign", "revoke"}
    BY <1>1, <2>1 DEF PhaseOK
  <2> QED
    BY <1>2, <2>1, <2>4, <2>5, IssueStep, RevokeStep
<1> QED
  BY <1>1, <1>2, QuietStep, CurrentIndexSteps DEF L!Next

LEMMA LedgerStart == Init => L!Init
<1> SUFFICES ASSUME Init PROVE L!Init
  OBVIOUS
<1>1. CurrentIndex = <<>> /\ disk.crl = NoFile /\ clock = 0
  BY DEF Init, CurrentIndex, Current
<1>2. LedgerNow = {}
  BY <1>1 DEF LedgerNow
<1> QED
  BY <1>1, <1>2 DEF L!Init, CrlNow

\* The files of the CA directory behave as the ledger: sign issues, -revoke
\* revokes, -gencrl publishes, each at one step and every other step at none,
\* for any number of commands that run one at a time without a failing call,
\* while no two-digit year is read wrongly (Dated; runs show what a later year
\* does).  That NoFile is not a set of CRL items says no more than that a
\* missing file differs from every content.
THEOREM LedgerImplemented ==
  ASSUME Solo, MaxFaults = 0, Dated, NoFile \notin SUBSET CrlItems
  PROVE  Spec => ImplementsLedger
<1>1. Init => LedgerInv /\ L!Init
  BY InitLedger, LedgerStart
<1>2. LedgerInv /\ [Next]_vars => LedgerInv'
  BY NextLedger
<1>3. LedgerInv /\ [Next]_vars => [L!Next]_(L!lvars)
  BY LedgerStep
<1> QED
  BY <1>1, <1>2, <1>3, PTL DEF Spec, ImplementsLedger, L!Spec
=============================================================================
