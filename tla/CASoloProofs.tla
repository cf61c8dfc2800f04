---------------------------- MODULE CASoloProofs ----------------------------
(***************************************************************************)
(* Commands that run one after the other, as theorems.  They may crash or  *)
(* meet failing calls at any step; the serial file then holds either a     *)
(* serial above everything that was acknowledged or recorded, or nothing   *)
(* that another sign could use: SerialsDistinct.  And up to the first call *)
(* that fails, what has been acknowledged stays in the database:           *)
(* BackupKept, SuccessRecorded and SignedIsMarkedV.                        *)
(***************************************************************************)
EXTENDS CAProofs

----------------------------------------------------------------------------
(* One command at a time, and what can be told of it *)

\* No two processes run at once.
Alone == \A p, q \in Procs : pc[p] # "idle" /\ pc[q] # "idle" => p = q

\* The steps each mode goes through.
PhaseOK ==
  \A p \in Procs :
    /\ pc[p] \in {"openCrl", "closeCrl"} => op[p] = "gencrl"
    /\ pc[p] = "lookup" => op[p] = "revoke"
    /\ pc[p] \in {"readSerial", "checkUnique", "writeCert", "saveSerial", "openSerial",
                  "closeSerial", "renameAttr", "createAttr", "closeAttr"} => op[p] = "sign"
    /\ pc[p] \in {"renameIndex", "createIndex", "closeIndex"} => op[p] \in {"sign", "revoke"}

Rewriting == {"renameIndex", "createIndex", "closeIndex"}
Recording == Rewriting \union {"renameAttr", "createAttr", "closeAttr"}

\* A sign command has written its certificate.
Signed(p) == op[p] = "sign" /\ pc[p] \in {"saveSerial", "openSerial", "closeSerial"} \union Recording

\* What carries the number of a command that runs was left by that command.
RunBook ==
  /\ \A n \in runs + 1 .. MaxRuns : result[n] = "running"
  /\ \A c \in certs : c.run <= runs
  /\ \A r \in revs : r.run <= runs
  /\ \A p \in Procs : pc[p] # "idle" =>
       /\ result[run[p]] = "running"
       /\ \A c \in certs : c.run = run[p] =>
            /\ Signed(p)
            /\ c.serial = cert[p].serial /\ c.dn = cert[p].dn /\ c.expiry = cert[p].expiry
       /\ \A r \in revs : r.run = run[p] =>
            op[p] = "revoke" /\ pc[p] \in Rewriting /\ r.serial = cert[p].serial

BookInv == TypeInv /\ Alone /\ PhaseOK /\ RunBook
----------------------------------------------------------------------------
(* Serials *)

Below(m, n)  == \A i \in DOMAIN m : m[i].serial = NoSerial \/ m[i].serial < n
Distinct(m)  == \A i, j \in DOMAIN m :
                  m[i].serial = m[j].serial => i = j \/ m[i].serial = NoSerial

DiskBelow(n)   == \A f \in {"index", "indexOld"} : disk[f] # NoFile => Below(disk[f], n)
LinesBelow(n)  == DiskBelow(n) /\ \A p \in Procs : Below(mem[p], n)
IssuedBelow(n) == \A c \in Issued : c.serial < n

\* The serial file is never missing; what it holds is above every serial in use.
FileAhead ==
  /\ disk.serial # NoFile
  /\ disk.serial # <<>> => LinesBelow(disk.serial[1]) /\ IssuedBelow(disk.serial[1])

\* The serial a sign command works with, from the moment it was read.
SerialInUse(p) ==
  /\ pc[p] \in {"checkUnique", "writeCert", "saveSerial", "openSerial"} =>
       disk.serial # <<>> /\ disk.serial[1] = cert[p].serial
  /\ pc[p] = "closeSerial" =>
       disk.serial = <<>> /\ LinesBelow(cert[p].serial) /\ IssuedBelow(cert[p].serial)
  /\ pc[p] \in Recording /\ op[p] = "sign" =>
       /\ IssuedBelow(cert[p].serial)
       /\ disk.serial # <<>> => cert[p].serial < disk.serial[1]

SerialInv ==
  /\ BookInv /\ FileAhead
  /\ \A p \in Procs : SerialInUse(p) /\ Distinct(mem[p])
  /\ \A f \in {"index", "indexOld"} : disk[f] # NoFile => Distinct(disk[f])
  /\ \A c, d \in Issued : c.serial = d.serial => c = d
----------------------------------------------------------------------------
(* BookInv *)

\* Only the process that runs can move.
LEMMA OthersIdle ==
  ASSUME BookInv, NEW p \in Procs, pc[p] # "idle"
  PROVE  \A q \in Procs : q # p => pc[q] = "idle"
  BY DEF BookInv, Alone

\* A command that ends leaves nobody running.
LEMMA ExitLocal ==
  ASSUME BookInv, NEW p \in Procs, pc[p] # "idle", NEW code, Exit(p, code)
  PROVE  /\ \A q \in Procs : pc'[q] = "idle"
         /\ run[p] \in 1 .. runs /\ run[p] \in 1 .. MaxRuns
         /\ result'[run[p]] = code
         /\ \A n \in 1 .. MaxRuns : n # run[p] => result'[n] = result[n]
<1>1. LocalOK /\ EnvOK /\ run[p] \in 1 .. runs
  BY TypeOKSplit DEF BookInv, TypeInv, RunOK
<1>2. run[p] \in 1 .. MaxRuns
  BY <1>1, CAAssumption DEF EnvOK
<1> QED
  BY <1>1, <1>2, OthersIdle DEF Exit, LocalOK

LEMMA ExitBook ==
  ASSUME BookInv, NEW p \in Procs, Step(p) \/ Crash(p), \E code : Exit(p, code)
  PROVE  Alone' /\ PhaseOK' /\ RunBook'
<1>1. TypeInv
  BY DEF BookInv
<1>2. PICK code : Exit(p, code) /\ UNCHANGED <<past, runs>> /\ pc[p] # "idle"
  BY <1>1, ExitSteps
<1>3. /\ \A q \in Procs : pc'[q] = "idle"
      /\ \A n \in 1 .. MaxRuns : n # run[p] => result'[n] = result[n]
      /\ run[p] \in 1 .. runs
  BY <1>2, ExitLocal
<1>4. EnvOK
  BY <1>1, TypeOKSplit DEF TypeInv
<1>5. \A n \in runs' + 1 .. MaxRuns : result'[n] = "running"
  BY <1>2, <1>3, <1>4 DEF BookInv, RunBook, EnvOK
<1> QED
  BY <1>2, <1>3, <1>5 DEF BookInv, RunBook, Alone, PhaseOK, past

LEMMA GotoBook ==
  ASSUME BookInv, NEW p \in Procs, Step(p) \/ Crash(p), ~ \E code : Exit(p, code)
  PROVE  Alone' /\ PhaseOK' /\ RunBook'
<1>1. TypeInv /\ LocalOK /\ EnvOK /\ PastOK
  BY TypeOKSplit DEF BookInv, TypeInv
<1>2. PICK l : /\ Goto(p, l) /\ <<pc[p], l>> \in Flow
               /\ l = "lookup" => op[p] = "revoke"
               /\ l = "openCrl" => op[p] = "gencrl"
               /\ l \in {"readSerial", "renameAttr"} => op[p] = "sign"
  BY <1>1, GotoSteps
<1>3. pc[p] # "idle" /\ l # "idle"
  BY <1>2 DEF Flow
<1>4. /\ pc'[p] = l /\ UNCHANGED <<op, run, result, runs>>
      /\ \A q \in Procs : q # p => pc'[q] = "idle"
  BY <1>1, <1>2, <1>3, GotoSteps, OthersIdle DEF Goto, LocalOK
<1>5. Alone' /\ PhaseOK'
  BY <1>2, <1>4 DEF BookInv, PhaseOK, Alone, Flow
<1>6. run[p] \in 1 .. runs /\ runs \in Nat
  BY <1>1, <1>3 DEF TypeInv, RunOK, EnvOK
<1>7. CASE pc[p] = "writeCert"
  <2> DEFINE new == [run |-> run[p], serial |-> cert[p].serial,
                     dn |-> cert[p].dn, expiry |-> cert[p].expiry]
  <2>1. certs' = certs \union {new} /\ UNCHANGED <<cert, revs>> /\ l = "saveSerial"
    BY <1>1, <1>2, <1>7, GotoSteps DEF Flow
  <2>2. /\ new.run = run[p] /\ new.serial = cert[p].serial
        /\ new.dn = cert[p].dn /\ new.expiry = cert[p].expiry
    OBVIOUS
  <2> HIDE DEF new
  <2>3. op[p] = "sign" /\ \A c \in certs : c.run # run[p]
    BY <1>3, <1>7 DEF BookInv, PhaseOK, RunBook, Signed, Recording, Rewriting
  <2>4. \A r \in revs : r.run # run[p]
    BY <1>3, <2>3 DEF BookInv, RunBook
  <2>5. Signed(p)'
    BY <1>4, <2>1, <2>3 DEF Signed
  <2> QED
    BY <1>4, <1>5, <1>6, <2>1, <2>2, <2>3, <2>4, <2>5, <1>3 DEF BookInv, RunBook
<1>8. CASE pc[p] = "lookup"
  <2> DEFINE new == [run |-> run[p], serial |-> cert[p].serial, year |-> clock]
  <2>1. revs' = revs \union {new} /\ UNCHANGED <<cert, certs>> /\ l = "renameIndex"
    BY <1>1, <1>2, <1>8, GotoSteps DEF Flow
  <2>2. new.run = run[p] /\ new.serial = cert[p].serial
    OBVIOUS
  <2> HIDE DEF new
  <2>3. op[p] = "revoke" /\ \A c \in certs : c.run # run[p]
    BY <1>3, <1>8 DEF BookInv, PhaseOK, RunBook, Signed
  <2>4. \A r \in revs : r.run # run[p]
    BY <1>3, <1>8 DEF BookInv, RunBook, Rewriting
  <2>5. pc'[p] \in Rewriting
    BY <1>4, <2>1 DEF Rewriting
  <2> QED
    BY <1>3, <1>4, <1>5, <1>6, <2>1, <2>2, <2>3, <2>4, <2>5 DEF BookInv, RunBook
<1>9. CASE pc[p] \notin {"writeCert", "lookup"}
  <2>1. UNCHANGED <<certs, revs>>
    BY <1>1, <1>9, GotoSteps
  <2>2. \A c \in certs : c.run = run[p] =>
            /\ Signed(p)'
            /\ c.serial = cert'[p].serial /\ c.dn = cert'[p].dn /\ c.expiry = cert'[p].expiry
    <3> SUFFICES ASSUME NEW c \in certs, c.run = run[p]
                 PROVE  /\ Signed(p)'
                        /\ c.serial = cert'[p].serial /\ c.dn = cert'[p].dn
                        /\ c.expiry = cert'[p].expiry
      OBVIOUS
    <3>1. /\ Signed(p)
          /\ c.serial = cert[p].serial /\ c.dn = cert[p].dn /\ c.expiry = cert[p].expiry
      BY <1>3 DEF BookInv, RunBook
    <3>2. pc[p] \notin {"readSerial", "checkUnique"}
      BY <3>1 DEF Signed, Recording, Rewriting
    <3>3. UNCHANGED cert
      BY <1>1, <3>2, GotoSteps
    <3>4. Signed(p)'
      BY <1>2, <1>4, <3>1 DEF Signed, Flow, Recording, Rewriting
    <3> QED
      BY <3>1, <3>3, <3>4
  <2>3. \A r \in revs : r.run = run[p] =>
            op'[p] = "revoke" /\ pc'[p] \in Rewriting /\ r.serial = cert'[p].serial
    <3> SUFFICES ASSUME NEW r \in revs, r.run = run[p]
                 PROVE  op'[p] = "revoke" /\ pc'[p] \in Rewriting /\ r.serial = cert'[p].serial
      OBVIOUS
    <3>1. op[p] = "revoke" /\ pc[p] \in Rewriting /\ r.serial = cert[p].serial
      BY <1>3 DEF BookInv, RunBook
    <3>2. UNCHANGED cert
      BY <1>1, <3>1, GotoSteps DEF Rewriting
    <3>3. pc'[p] \in Rewriting
      BY <1>2, <1>4, <3>1 DEF Flow, Rewriting
    <3> QED
      BY <1>4, <3>1, <3>2, <3>3
  <2> QED
    BY <1>3, <1>4, <1>5, <2>1, <2>2, <2>3 DEF BookInv, RunBook
<1> QED
  BY <1>7, <1>8, <1>9

LEMMA InvokeBook ==
  ASSUME Solo, BookInv, NEW p \in Procs, Invoke(p)
  PROVE  Alone' /\ PhaseOK' /\ RunBook'
<1>1. LocalOK /\ EnvOK
  BY TypeOKSplit DEF BookInv, TypeInv
<1>2. /\ pc'[p] = "readIndex" /\ run'[p] = runs + 1 /\ runs' = runs + 1 /\ runs + 1 <= MaxRuns
      /\ \A q \in Procs : q # p => pc'[q] = "idle"
      /\ UNCHANGED <<certs, revs, result>>
  BY <1>1, CAAssumption DEF Invoke, LocalOK, EnvOK
<1>3. Alone' /\ PhaseOK'
  BY <1>2 DEF Alone, PhaseOK
<1>4. /\ result[runs + 1] = "running"
      /\ \A c \in certs : c.run # runs + 1
      /\ \A r \in revs : r.run # runs + 1
  BY <1>1, <1>2, TypeOKSplit, CAAssumption DEF BookInv, RunBook, TypeInv, EnvOK, PastOK
<1>5. /\ \A n \in runs' + 1 .. MaxRuns : result'[n] = "running"
      /\ \A c \in certs' : c.run <= runs'
      /\ \A r \in revs' : r.run <= runs'
  BY <1>1, <1>2, TypeOKSplit, CAAssumption DEF BookInv, RunBook, TypeInv, EnvOK, PastOK
<1> QED
  BY <1>2, <1>3, <1>4, <1>5 DEF RunBook

LEMMA NextBook ==
  ASSUME Solo, BookInv, [Next]_vars
  PROVE  BookInv'
<1>1. TypeInv'
  BY NextType DEF BookInv
<1>2. ASSUME NEW p \in Procs, Step(p) \/ Crash(p) PROVE Alone' /\ PhaseOK' /\ RunBook'
  BY <1>2, ExitBook, GotoBook
<1>3. ASSUME NEW p \in Procs, FlushIndex(p) PROVE Alone' /\ PhaseOK' /\ RunBook'
  BY <1>3 DEF FlushIndex, env, past, local, BookInv, Alone, PhaseOK, RunBook, Signed
<1>4. ASSUME Tick \/ Restore \/ UNCHANGED vars PROVE Alone' /\ PhaseOK' /\ RunBook'
  BY <1>4 DEF Tick, Restore, vars, env, local, BookInv, Alone, PhaseOK, RunBook, Signed
<1> QED
  BY <1>1, <1>2, <1>3, <1>4, InvokeBook DEF Next, BookInv

LEMMA InitBook == Init => BookInv
  BY InitType DEF Init, BookInv, Alone, PhaseOK, RunBook
----------------------------------------------------------------------------
(* Refreshing, cutting and revoking lines keeps their serials, or loses them *)

Keeps(new, m) ==
  /\ DOMAIN new \subseteq DOMAIN m
  /\ \A i \in DOMAIN new : new[i].serial \in {m[i].serial, NoSerial}

LEMMA KeptLines ==
  ASSUME NEW m, NEW new, Keeps(new, m)
  PROVE  /\ \A n : Below(m, n) => Below(new, n)
         /\ Distinct(m) => Distinct(new)
  BY DEF Keeps, Below, Distinct

LEMMA KeptRefreshed ==
  ASSUME NEW m \in Seq(Entries), NEW now
  PROVE  Keeps(Refreshed(m, now), m)
<1>1. \A i \in DOMAIN m : m[i] \in Lines
  BY DEF Entries
<1> QED
  BY <1>1 DEF Keeps, Refreshed, Lines

LEMMA KeptPartial ==
  ASSUME NEW m \in Seq(Entries), NEW part \in Partial(m)
  PROVE  Keeps(part, m)
<1>1. DOMAIN part \subseteq DOMAIN m
  BY PartialType
<1>2. ASSUME NEW i \in DOMAIN part PROVE part[i].serial \in {m[i].serial, NoSerial}
  <2>1. i \in DOMAIN m /\ part[i] \in Cut(m[i])
    BY PartialType
  <2>5. m[i] \in Entries
    BY <2>1
  <2>2. m[i] \in Lines
    BY <2>5 DEF Entries
  <2>3. \A d : [m[i] EXCEPT !.dn = d].serial = m[i].serial
    BY <2>2 DEF Lines
  <2>4. [m[i] EXCEPT !.revoked = NoDate, !.serial = NoSerial, !.dn = Unknown].serial = NoSerial
    BY <2>2 DEF Lines
  <2>6. TornLine.serial = NoSerial
    BY DEF TornLine
  <2> QED
    BY <2>1, <2>3, <2>4, <2>6 DEF Cut
<1> QED
  BY <1>1, <1>2 DEF Keeps

LEMMA KeptCut ==
  ASSUME NEW a, NEW b, NEW c, Keeps(a, b), Keeps(b, c)
  PROVE  Keeps(a, c)
  BY DEF Keeps

LEMMA KeptRevoked ==
  ASSUME NEW m \in Seq(Entries), NEW i \in DOMAIN m, NEW d
  PROVE  Keeps([m EXCEPT ![i].status = "R", ![i].revoked = d], m)
<1> DEFINE new == [m EXCEPT ![i].status = "R", ![i].revoked = d]
<1>1. m[i] \in Lines
  BY DEF Entries
<1>2. new[i].serial = m[i].serial
  BY <1>1 DEF Lines
<1>3. DOMAIN new = DOMAIN m /\ \A j \in DOMAIN new : j # i => new[j] = m[j]
  OBVIOUS
<1> HIDE DEF new
<1>4. Keeps(new, m)
  BY <1>2, <1>3 DEF Keeps
<1> QED
  BY <1>4 DEF new

\* A line whose serial is above all others can be added.
LEMMA AddedLine ==
  ASSUME NEW m \in Seq(Entries), NEW c \in Certs, Below(m, c.serial)
  PROVE  /\ Below(Recorded(m, c), c.serial + 1)
         /\ Distinct(m) => Distinct(Recorded(m, c))
<1>1. /\ NewEntry(c) \in Entries /\ NewEntry(c).serial = c.serial /\ c.serial \in Nat
      /\ c.serial # NoSerial /\ \A i \in DOMAIN m : m[i].serial \in Nat \union {NoSerial}
  BY NewEntryType, CAAssumption DEF NewEntry, Certs, Entries, Lines
<1>2. /\ DOMAIN Recorded(m, c) = 1 .. Len(m) + 1 /\ DOMAIN m = 1 .. Len(m) /\ Len(m) \in Nat
      /\ \A i \in DOMAIN m : Recorded(m, c)[i] = m[i]
      /\ Recorded(m, c)[Len(m) + 1] = NewEntry(c)
  BY <1>1 DEF Recorded
<1>3. \A i \in DOMAIN Recorded(m, c) : i \in DOMAIN m \/ i = Len(m) + 1
  BY <1>2
<1>4. Below(Recorded(m, c), c.serial + 1)
  BY <1>1, <1>2, <1>3 DEF Below
<1>5. ASSUME Distinct(m) PROVE Distinct(Recorded(m, c))
  <2> SUFFICES ASSUME NEW i \in DOMAIN Recorded(m, c), NEW j \in DOMAIN Recorded(m, c),
                      Recorded(m, c)[i].serial = Recorded(m, c)[j].serial
               PROVE  i = j \/ Recorded(m, c)[i].serial = NoSerial
    BY DEF Distinct
  <2>1. CASE i \in DOMAIN m /\ j \in DOMAIN m
    BY <1>2, <1>5, <2>1 DEF Distinct
  <2>2. \A k \in DOMAIN m : \/ Recorded(m, c)[k].serial = NoSerial
                             \/ Recorded(m, c)[k].serial < c.serial
    BY <1>2 DEF Below
  <2>3. \A k \in DOMAIN m : Recorded(m, c)[k].serial \in Nat \union {NoSerial}
    BY <1>1, <1>2
  <2> QED
    BY <1>1, <1>2, <1>3, <2>1, <2>2, <2>3
<1> QED
  BY <1>4, <1>5

\* Where the lines of a file or of a memory come from.
Source(m) ==
  \/ m = <<>>
  \/ \E f \in {"index", "indexOld"} : disk[f] # NoFile /\ m = disk[f]
  \/ \E p \in Procs : m = mem[p]

LEMMA FileSource ==
  ASSUME TypeInv, [Next]_vars, NEW f \in {"index", "indexOld"}, disk'[f] # NoFile
  PROVE  \E m : Source(m) /\ Keeps(disk'[f], m)
<1>1. CASE disk'[f] \in {disk.index, disk.indexOld, NoFile, <<>>}
  BY <1>1 DEF Source, Keeps
<1>2. ASSUME NEW p \in Procs, Flushed(p, disk'[f]) PROVE Keeps(disk'[f], mem[p])
  <2>1. mem[p] \in Seq(Entries) /\ clock \in Nat
    BY TypeOKSplit DEF TypeInv, LocalOK, EnvOK
  <2>2. Refreshed(mem[p], clock) \in Seq(Entries) /\ Keeps(Refreshed(mem[p], clock), mem[p])
    BY <2>1, RefreshedType, KeptRefreshed
  <2> QED
    BY <1>2, <2>2, KeptPartial, KeptCut DEF Flushed
<1> QED
  BY <1>1, <1>2, IndexSteps DEF Source

LEMMA MemSource ==
  ASSUME TypeInv, [Next]_vars, NEW q \in Procs
  PROVE  \/ \E m : Source(m) /\ Keeps(mem'[q], m)
         \/ CloseSerial(q) /\ mem'[q] = Recorded(mem[q], cert[q])
<1>1. mem[q] \in Seq(Entries)
  BY TypeOKSplit DEF TypeInv, LocalOK
<1>2. CASE mem'[q] \in {mem[q], <<>>}
  BY <1>2 DEF Source, Keeps
<1>3. CASE disk.index # NoFile /\ mem'[q] = disk.index
  BY <1>3 DEF Source, Keeps
<1>4. ASSUME NEW i \in DOMAIN mem[q],
             mem'[q] = [mem[q] EXCEPT ![i].status = "R", ![i].revoked = TwoDigits(clock)]
      PROVE  Keeps(mem'[q], mem[q])
  <2>1. Keeps([mem[q] EXCEPT ![i].status = "R", ![i].revoked = TwoDigits(clock)], mem[q])
    BY <1>1, KeptRevoked
  <2> QED
    BY <1>4, <2>1
<1> QED
  BY <1>2, <1>3, <1>4, MemSteps DEF Source

\* No step brings in a serial that was not below n, except the one that adds a line.
LEMMA LinesSteps ==
  ASSUME TypeInv, [Next]_vars, NEW n, LinesBelow(n)
  PROVE  /\ DiskBelow(n)'
         /\ \A q \in Procs : \/ Below(mem'[q], n)
                             \/ CloseSerial(q) /\ mem'[q] = Recorded(mem[q], cert[q])
<1>1. \A m : Source(m) => Below(m, n)
  BY DEF Source, LinesBelow, DiskBelow, Below
<1>2. ASSUME NEW f \in {"index", "indexOld"}, disk'[f] # NoFile PROVE Below(disk'[f], n)
  BY <1>1, <1>2, FileSource, KeptLines
<1>3. DiskBelow(n)'
  BY <1>2 DEF DiskBelow
<1>4. ASSUME NEW q \in Procs
      PROVE  \/ Below(mem'[q], n)
             \/ CloseSerial(q) /\ mem'[q] = Recorded(mem[q], cert[q])
  BY <1>1, MemSource, KeptLines
<1> QED
  BY <1>3, <1>4
----------------------------------------------------------------------------
(* Certificates that are acknowledged *)

\* Only a sign command that has finished writing acknowledges its certificate.
LEMMA IssuedSteps ==
  ASSUME BookInv, [Next]_vars, NEW c \in Issued', c \notin Issued
  PROVE  c \in certs /\ \E p \in Procs :
           /\ pc'[p] = "idle" /\ pc[p] \in Recording /\ op[p] = "sign"
           /\ c.run = run[p] /\ c.serial = cert[p].serial
           /\ c.dn = cert[p].dn /\ c.expiry = cert[p].expiry
<1>1. TypeInv /\ PastOK /\ c \in certs' /\ result'[c.run] = "success"
  BY TypeOKSplit DEF BookInv, TypeInv, Issued, Succeeded
<1>2. ASSUME UNCHANGED <<certs, result>> PROVE FALSE
  BY <1>2 DEF Issued, Succeeded
<1>3. ASSUME NEW p \in Procs, Step(p) \/ Crash(p), \E code : Exit(p, code)
      PROVE  c \in certs /\ \E q \in Procs :
           /\ pc'[q] = "idle" /\ pc[q] \in Recording /\ op[q] = "sign"
           /\ c.run = run[q] /\ c.serial = cert[q].serial
           /\ c.dn = cert[q].dn /\ c.expiry = cert[q].expiry
  <2>1. PICK code \in {"success", "failure", "killed"} :
          /\ Exit(p, code)
          /\ code = "success" =>
               pc[p] \in {"closeCrl", "createIndex", "closeIndex", "createAttr", "closeAttr"}
    BY <1>1, <1>3, ExitSteps
  <2>2. UNCHANGED certs /\ pc[p] # "idle"
    BY <1>1, <1>3, ExitSteps DEF past
  <2>3. c \in certs /\ c.run \in 1 .. MaxRuns
    BY <1>1, <2>2 DEF PastOK
  <2>4. /\ result'[run[p]] = code /\ pc'[p] = "idle"
        /\ \A n \in 1 .. MaxRuns : n # run[p] => result'[n] = result[n]
    BY <2>1, <2>2, ExitLocal
  <2>5. c.run = run[p]
    BY <1>1, <2>3, <2>4 DEF Issued, Succeeded
  <2>6. /\ Signed(p)
        /\ c.serial = cert[p].serial /\ c.dn = cert[p].dn /\ c.expiry = cert[p].expiry
    BY <2>2, <2>3, <2>5 DEF BookInv, RunBook
  <2>7. pc[p] \in Recording /\ op[p] = "sign"
    BY <1>1, <2>1, <2>4, <2>5, <2>6 DEF Signed, Recording, Rewriting
  <2> QED
    BY <2>3, <2>4, <2>5, <2>6, <2>7
<1>4. ASSUME NEW p \in Procs, Step(p) \/ Crash(p), ~ \E code : Exit(p, code) PROVE FALSE
  <2>1. /\ UNCHANGED result
        /\ \/ UNCHANGED certs
           \/ /\ pc[p] = "writeCert"
              /\ certs' = certs \union {[run |-> run[p], serial |-> cert[p].serial,
                                         dn |-> cert[p].dn, expiry |-> cert[p].expiry]}
    BY <1>1, <1>4, GotoSteps DEF Goto
  <2>2. CASE pc[p] = "writeCert" /\ c.run = run[p]
    BY <1>1, <2>1, <2>2 DEF BookInv, RunBook
  <2> QED
    BY <1>1, <1>2, <2>1, <2>2 DEF Issued, Succeeded
<1>5. ASSUME \/ \E p \in Procs : Invoke(p) \/ FlushIndex(p)
             \/ Tick \/ Restore \/ UNCHANGED vars
      PROVE  FALSE
  BY <1>2, <1>5 DEF Invoke, FlushIndex, Tick, Restore, past, vars
<1> QED
  BY <1>3, <1>4, <1>5 DEF Next

\* While a command is at any other step nothing becomes acknowledged.
LEMMA IssuedSame ==
  ASSUME BookInv, [Next]_vars, NEW p \in Procs, pc[p] # "idle", pc'[p] # "idle"
  PROVE  \A n : IssuedBelow(n) => IssuedBelow(n)'
<1>1. \A q \in Procs : q # p => pc[q] = "idle"
  BY OthersIdle
<1>2. \A c \in Issued' : c \in Issued
  BY <1>1, IssuedSteps DEF Recording, Rewriting
<1> QED
  BY <1>2 DEF IssuedBelow

\* The serial file changes only while a sign command replaces its content.
LEMMA SerialSame ==
  ASSUME BookInv, [Next]_vars, NEW p \in Procs, pc[p] \notin {"idle", "openSerial", "closeSerial"}
  PROVE  disk'.serial = disk.serial
<1>1. \A q \in Procs : q # p => pc[q] = "idle"
  BY OthersIdle
<1> QED
  BY <1>1, SerialSteps DEF BookInv, OpenSerial, CloseSerial
----------------------------------------------------------------------------
(* Steps *)

LEMMA BelowMore ==
  ASSUME NEW m \in Seq(Entries), NEW n \in Nat, Below(m, n)
  PROVE  Below(m, n + 1)
<1>1. \A i \in DOMAIN m : m[i].serial \in Nat \union {NoSerial}
  BY DEF Entries, Lines
<1> QED
  BY <1>1 DEF Below

LEMMA NextAhead == SerialInv /\ [Next]_vars => FileAhead'
<1> SUFFICES ASSUME SerialInv, [Next]_vars PROVE FileAhead'
  OBVIOUS
<1>1. /\ BookInv /\ TypeInv /\ FileAhead /\ LocalOK /\ disk \in Disks
      /\ \A p \in Procs : SerialInUse(p)
  BY TypeOKSplit DEF SerialInv, BookInv, TypeInv
<1>2. <<>> # NoFile /\ \A n \in Nat : <<n>> # NoFile /\ <<n>>[1] = n
  <2>1. <<>> \in Seq(Nat) /\ \A n \in Nat : <<n>> \in Seq(Nat)
    OBVIOUS
  <2>2. NoFile \notin Seq(Nat)
    BY CAAssumption
  <2> QED
    BY <2>1, <2>2
<1>3. CASE disk'.serial = disk.serial
  <2> SUFFICES ASSUME disk.serial # <<>>
               PROVE  LinesBelow(disk.serial[1])' /\ IssuedBelow(disk.serial[1])'
    BY <1>1, <1>3 DEF FileAhead
  <2>0. PICK n : n = disk.serial[1]
    OBVIOUS
  <2>1. LinesBelow(n) /\ IssuedBelow(n)
    BY <1>1, <2>0 DEF FileAhead
  <2>2. \A q \in Procs : ~CloseSerial(q)
    BY <1>1 DEF SerialInUse, CloseSerial
  <2>3. DiskBelow(n)' /\ \A q \in Procs : Below(mem'[q], n)
    BY <1>1, <2>1, <2>2, LinesSteps
  <2>4. ASSUME NEW c \in Issued' PROVE c.serial < n
    <3>1. CASE c \in Issued
      BY <2>1, <3>1 DEF IssuedBelow
    <3>2. CASE c \notin Issued
      BY <1>1, <2>0, <3>2, IssuedSteps DEF SerialInUse
    <3> QED
      BY <3>1, <3>2
  <2>6. disk'.serial[1] = n
    BY <1>3, <2>0
  <2> QED
    BY <2>3, <2>4, <2>6 DEF LinesBelow, IssuedBelow
<1>4. CASE disk'.serial = <<>>
  BY <1>2, <1>4 DEF FileAhead
<1>5. ASSUME NEW p \in Procs, CloseSerial(p), disk'.serial = <<NextSerial(cert[p].serial)>>
      PROVE  FileAhead'
  <2>0. PICK n : n = cert[p].serial
    OBVIOUS
  <2>1. cert[p] \in Certs /\ n \in Nat /\ mem[p] \in Seq(Entries)
    BY <1>1, <2>0 DEF LocalOK, Certs
  <2>2. LinesBelow(n) /\ IssuedBelow(n) /\ pc[p] = "closeSerial"
    BY <1>1, <1>5, <2>0 DEF SerialInUse, CloseSerial
  <2>3. \A q \in Procs : q # p => ~CloseSerial(q)
    BY <1>1, <2>2, OthersIdle DEF CloseSerial
  <2>4. TypeInv' /\ disk' \in Disks' /\ LocalOK'
    BY <1>1, NextType, TypeOKSplit DEF TypeInv, TypeOK, LocalOK, Disks
  <2>5. DiskBelow(n + 1)'
    <3>1. DiskBelow(n)'
      BY <1>1, <2>2, LinesSteps
    <3> SUFFICES ASSUME NEW f \in {"index", "indexOld"}, disk'[f] # NoFile
                 PROVE  Below(disk'[f], n + 1)
      BY DEF DiskBelow
    <3>2. disk'[f] \in Seq(Entries)
      BY <2>4 DEF Disks, IndexFiles
    <3>3. Below(disk'[f], n)
      BY <3>1 DEF DiskBelow
    <3> QED
      BY <2>1, <3>2, <3>3, BelowMore
  <2>6. ASSUME NEW q \in Procs PROVE Below(mem'[q], n + 1)
    <3>1. mem'[q] \in Seq(Entries)
      BY <2>4 DEF LocalOK
    <3>2. CASE CloseSerial(q) /\ mem'[q] = Recorded(mem[q], cert[q])
      BY <2>1, <2>2, <2>3, <2>0, <3>2, AddedLine DEF LinesBelow
    <3>3. CASE Below(mem'[q], n)
      BY <2>1, <3>1, <3>3, BelowMore
    <3>4. \/ Below(mem'[q], n)
          \/ CloseSerial(q) /\ mem'[q] = Recorded(mem[q], cert[q])
      BY <1>1, <2>2, LinesSteps
    <3> QED
      BY <3>2, <3>3, <3>4
  <2>7. ASSUME NEW c \in Issued' PROVE c.serial < n + 1
    <3>1. PastOK
      BY <1>1, TypeOKSplit DEF TypeInv
    <3>2. CASE c \in Issued
      <4>1. c.serial \in Nat /\ c.serial < n
        BY <2>2, <3>1, <3>2 DEF IssuedBelow, Issued, PastOK
      <4> QED
        BY <2>1, <4>1
    <3>3. CASE c \notin Issued
      <4>1. c.serial = n
        BY <1>1, <2>2, <2>0, <3>3, IssuedSteps, OthersIdle DEF Recording, Rewriting
      <4> QED
        BY <2>1, <4>1
    <3> QED
      BY <3>2, <3>3
  <2>8. disk'.serial[1] = n + 1 /\ disk'.serial # NoFile
    BY <1>2, <1>5, <2>1, <2>0 DEF NextSerial
  <2> QED
    BY <2>5, <2>6, <2>7, <2>8 DEF FileAhead, LinesBelow, IssuedBelow
<1> QED
  BY <1>1, <1>3, <1>4, <1>5, SerialSteps

\* A sign command that goes on keeps its serial below nothing it must not pass.
LEMMA GotoInUse ==
  ASSUME SerialInv, NEW p \in Procs, Step(p), ~ \E code : Exit(p, code)
  PROVE  SerialInUse(p)'
<1>1. /\ BookInv /\ TypeInv /\ FileAhead /\ LocalOK /\ [Next]_vars /\ disk \in Disks
      /\ SerialInUse(p)
  BY TypeOKSplit DEF SerialInv, BookInv, TypeInv, Next
<1>2. PICK l : Goto(p, l) /\ <<pc[p], l>> \in Flow
  BY <1>1, GotoSteps
<1>3. /\ pc[p] # "idle" /\ l # "idle" /\ pc'[p] = l /\ UNCHANGED op
  BY <1>1, <1>2 DEF Flow, Goto, LocalOK
<1>4. cert[p] \in Certs
  BY <1>1 DEF LocalOK
<1>5. CASE pc[p] = "readSerial"
  <2>1. l = "checkUnique" /\ disk'.serial = disk.serial
    BY <1>1, <1>2, <1>5, SerialSame DEF Flow
  <2>2. disk.serial # <<>> /\ cert' = [cert EXCEPT ![p].serial = disk.serial[1]]
    BY <1>1, <1>5, GotoSteps
  <2>3. cert'[p].serial = disk.serial[1]
    BY <1>1, <1>4, <2>2 DEF LocalOK, Certs
  <2> QED
    BY <1>3, <2>1, <2>2, <2>3 DEF SerialInUse, Recording, Rewriting
<1>6. CASE pc[p] \in {"checkUnique", "writeCert", "saveSerial"}
  <2>1. l \in {"writeCert", "saveSerial", "openSerial"} /\ disk'.serial = disk.serial
    BY <1>1, <1>2, <1>6, SerialSame DEF Flow
  <2>2. cert'[p].serial = cert[p].serial
    <3>1. UNCHANGED cert \/ \E n : cert' = [cert EXCEPT ![p].expiry = n]
      BY <1>1, <1>6, GotoSteps
    <3> QED
      BY <1>1, <1>4, <3>1 DEF LocalOK, Certs
  <2> QED
    BY <1>1, <1>3, <1>6, <2>1, <2>2 DEF SerialInUse, Recording, Rewriting
<1>7. CASE pc[p] = "openSerial"
  <2>0. PICK n : n = cert[p].serial
    OBVIOUS
  <2>1. l = "closeSerial" /\ cert'[p].serial = n
    BY <1>1, <1>2, <1>7, <2>0, GotoSteps DEF Flow
  <2>2. LinesBelow(n) /\ IssuedBelow(n)
    BY <1>1, <1>7, <2>0 DEF SerialInUse, FileAhead
  <2>3. disk'.serial = <<>>
    <3>1. OpenSerial(p)
      BY <1>3, <1>7 DEF Step, ReadIndex, ReadAttr, Refuse, Lookup, OpenCrl, CloseCrl,
         ReadSerial, CheckUnique, WriteCert, SaveSerial, CloseSerial, RenameIndex,
         CreateIndex, CloseIndex, RenameAttr, CreateAttr, CloseAttr, DieOnTorn, UsesTorn
    <3> QED
      BY <1>1, <3>1 DEF OpenSerial, Truncate, Disks
  <2>4. \A q \in Procs : ~CloseSerial(q)
    BY <1>1, <1>3, <1>7, OthersIdle DEF CloseSerial
  <2>5. LinesBelow(n)'
    BY <1>1, <2>2, <2>4, LinesSteps DEF LinesBelow
  <2>6. IssuedBelow(n)'
    BY <1>1, <1>3, <2>1, <2>2, IssuedSame
  <2> QED
    BY <1>3, <2>1, <2>3, <2>5, <2>6 DEF SerialInUse, Recording, Rewriting
<1>8. CASE pc[p] = "closeSerial"
  <2>0. PICK n : n = cert[p].serial
    OBVIOUS
  <2>1. l = "renameIndex" /\ cert'[p].serial = n
    BY <1>1, <1>2, <1>8, <2>0, GotoSteps DEF Flow
  <2>2. disk.serial = <<>> /\ IssuedBelow(n)
    BY <1>1, <1>8, <2>0 DEF SerialInUse
  <2>3. IssuedBelow(n)'
    BY <1>1, <1>3, <2>2, IssuedSame
  <2>4. disk'.serial \in {<<>>, <<n + 1>>}
    BY <1>1, <1>3, <1>8, <2>2, <2>0, SerialSteps, OthersIdle DEF OpenSerial, CloseSerial, NextSerial
  <2>5. n < <<n + 1>>[1]
    BY <1>4, <2>0 DEF Certs
  <2> QED
    BY <1>3, <2>1, <2>3, <2>4, <2>5 DEF SerialInUse
<1>9. CASE pc[p] \in Recording
  <2>0. PICK n : n = cert[p].serial
    OBVIOUS
  <2>1. l \in Recording /\ cert'[p].serial = n /\ disk'.serial = disk.serial
    BY <1>1, <1>2, <1>9, <2>0, GotoSteps, SerialSame DEF Flow, Recording, Rewriting
  <2>2. op[p] = "sign" => IssuedBelow(n)'
    BY <1>1, <1>3, <1>9, <2>0, IssuedSame DEF SerialInUse
  <2> QED
    BY <1>1, <1>3, <1>9, <2>1, <2>2, <2>0 DEF SerialInUse, Recording, Rewriting
<1>10. CASE l \notin {"checkUnique", "writeCert", "saveSerial", "openSerial", "closeSerial"}
            /\ (l \in Recording => op[p] # "sign")
  BY <1>3, <1>10 DEF SerialInUse
<1>11. pc[p] = "lookup" => op[p] = "revoke"
  BY <1>1 DEF BookInv, PhaseOK
<1> QED
  BY <1>2, <1>5, <1>6, <1>7, <1>8, <1>9, <1>10, <1>11 DEF Flow, Recording, Rewriting

LEMMA NextInUse ==
  ASSUME Solo, SerialInv, [Next]_vars, NEW q \in Procs
  PROVE  SerialInUse(q)'
<1>1. BookInv /\ TypeInv /\ LocalOK /\ SerialInUse(q) /\ BookInv'
  BY TypeOKSplit, NextBook DEF SerialInv, BookInv, TypeInv
<1>2. CASE pc'[q] \in {"idle", "readIndex"}
  BY <1>2 DEF SerialInUse, Recording, Rewriting
<1>3. ASSUME NEW p \in Procs, Step(p) \/ Crash(p), \E code : Exit(p, code) PROVE pc'[q] = "idle"
  <2>1. pc[p] # "idle"
    BY <1>1, <1>3, ExitSteps
  <2> QED
    BY <1>1, <1>3, <2>1, ExitLocal
<1>4. ASSUME NEW p \in Procs, Step(p) \/ Crash(p), ~ \E code : Exit(p, code)
      PROVE  SerialInUse(q)'
  <2>1. Step(p)
    BY <1>4 DEF Crash
  <2>2. CASE q = p
    BY <1>4, <2>1, <2>2, GotoInUse
  <2>3. CASE q # p
    <3>1. PICK l : Goto(p, l) /\ <<pc[p], l>> \in Flow
      BY <1>1, <1>4, GotoSteps
    <3>2. pc'[q] = pc[q] /\ pc[p] # "idle"
      BY <1>1, <2>3, <3>1 DEF LocalOK, Goto, Flow
    <3>3. pc'[q] = "idle"
      BY <1>1, <2>3, <3>2, OthersIdle
    <3> QED
      BY <1>2, <3>3
  <2> QED
    BY <2>2, <2>3
<1>5. ASSUME NEW p \in Procs, Invoke(p) PROVE pc'[q] \in {"idle", "readIndex"}
  BY <1>1, <1>5 DEF Invoke, LocalOK
<1>6. ASSUME UNCHANGED <<pc, op, cert, certs, result>>, disk'.serial = disk.serial,
             pc[q] = "closeSerial" => UNCHANGED <<disk, mem>>
      PROVE  SerialInUse(q)'
  BY <1>1, <1>6 DEF SerialInUse, IssuedBelow, LinesBelow, DiskBelow, Issued, Succeeded
<1>7. ASSUME NEW p \in Procs, FlushIndex(p) PROVE SerialInUse(q)'
  <2>1. pc[p] = "closeIndex" /\ disk'.serial = disk.serial
    BY <1>1, <1>7, SerialSame DEF FlushIndex
  <2>2. pc[q] # "closeSerial"
    BY <1>1, <2>1 DEF BookInv, Alone
  <2> QED
    BY <1>6, <1>7, <2>1, <2>2 DEF FlushIndex, past, local
<1>8. ASSUME Restore PROVE pc'[q] = "idle"
  BY <1>8 DEF Restore
<1>9. ASSUME Tick \/ UNCHANGED vars PROVE SerialInUse(q)'
  BY <1>6, <1>9 DEF Tick, vars, local
<1> QED
  BY <1>2, <1>3, <1>4, <1>5, <1>7, <1>8, <1>9 DEF Next

\* No two lines of a memory or a file share their serial.
LEMMA NextDistinct ==
  ASSUME SerialInv, [Next]_vars
  PROVE  /\ \A q \in Procs : Distinct(mem'[q])
         /\ \A f \in {"index", "indexOld"} : disk'[f] # NoFile => Distinct(disk'[f])
<1>1. TypeInv /\ LocalOK /\ \A m : Source(m) => Distinct(m)
  BY TypeOKSplit DEF SerialInv, BookInv, TypeInv, Source, Distinct
<1>2. ASSUME NEW f \in {"index", "indexOld"}, disk'[f] # NoFile PROVE Distinct(disk'[f])
  BY <1>1, <1>2, FileSource, KeptLines
<1>3. ASSUME NEW q \in Procs PROVE Distinct(mem'[q])
  <2>1. CASE CloseSerial(q) /\ mem'[q] = Recorded(mem[q], cert[q])
    <3>1. mem[q] \in Seq(Entries) /\ cert[q] \in Certs /\ Distinct(mem[q])
      BY <1>1 DEF LocalOK, SerialInv
    <3>2. Below(mem[q], cert[q].serial)
      BY <2>1 DEF SerialInv, SerialInUse, CloseSerial, LinesBelow
    <3> QED
      BY <2>1, <3>1, <3>2, AddedLine
  <2>2. CASE \E m : Source(m) /\ Keeps(mem'[q], m)
    BY <1>1, <2>2, KeptLines
  <2> QED
    BY <1>1, <2>1, <2>2, MemSource
<1> QED
  BY <1>2, <1>3

\* A certificate that becomes acknowledged has a serial above all earlier ones.
LEMMA NextIssued ==
  ASSUME SerialInv, [Next]_vars, NEW c \in Issued', NEW d \in Issued', c.serial = d.serial
  PROVE  c = d
<1>1. BookInv /\ PastOK
  BY TypeOKSplit DEF SerialInv, BookInv, TypeInv
<1>2. CASE c \in Issued /\ d \in Issued
  BY <1>2 DEF SerialInv
<1>3. ASSUME NEW x \in Issued, NEW y \in Issued', y \notin Issued, x.serial = y.serial PROVE FALSE
  <2>1. PICK p \in Procs : pc[p] \in Recording /\ op[p] = "sign" /\ y.serial = cert[p].serial
    BY <1>1, <1>3, IssuedSteps
  <2>2. x.serial < y.serial
    BY <2>1 DEF SerialInv, SerialInUse, IssuedBelow
  <2>3. x.serial \in Nat
    BY <1>1 DEF PastOK, Issued
  <2> QED
    BY <1>3, <2>2, <2>3
<1>4. CASE c \notin Issued /\ d \notin Issued
  <2>1. c \in certs /\ d \in certs
    BY <1>1, <1>4, IssuedSteps
  <2>2. PICK p \in Procs : /\ pc[p] \in Recording /\ c.run = run[p] /\ c.serial = cert[p].serial
                           /\ c.dn = cert[p].dn /\ c.expiry = cert[p].expiry
    BY <1>1, <1>4, IssuedSteps
  <2>3. PICK q \in Procs : /\ pc[q] \in Recording /\ d.run = run[q] /\ d.serial = cert[q].serial
                           /\ d.dn = cert[q].dn /\ d.expiry = cert[q].expiry
    BY <1>1, <1>4, IssuedSteps
  <2>4. p = q
    BY <1>1, <2>2, <2>3 DEF BookInv, Alone, Recording, Rewriting
  <2> QED
    BY <1>1, <2>1, <2>2, <2>3, <2>4 DEF PastOK
<1> QED
  BY <1>2, <1>3, <1>4

LEMMA InitSerial == Init => SerialInv
<1> SUFFICES ASSUME Init PROVE SerialInv
  OBVIOUS
<1>1. /\ disk.index = <<>> /\ disk.indexOld = NoFile /\ disk.serial = <<FirstSerial>>
      /\ certs = {} /\ \A p \in Procs : mem[p] = <<>> /\ pc[p] = "idle"
  BY DEF Init
<1>2. disk.serial # NoFile
  <2>1. <<FirstSerial>> \in Seq(Nat)
    BY CAAssumption
  <2> QED
    BY <1>1, <2>1, CAAssumption
<1>3. FileAhead
  BY <1>1, <1>2 DEF FileAhead, LinesBelow, DiskBelow, Below, IssuedBelow, Issued
<1>4. \A p \in Procs : SerialInUse(p)
  BY <1>1 DEF SerialInUse, Recording, Rewriting
<1> QED
  BY <1>1, <1>3, <1>4, InitBook DEF SerialInv, Distinct, Issued

LEMMA StepSerial == Solo /\ SerialInv /\ [Next]_vars => SerialInv'
<1> SUFFICES ASSUME Solo, SerialInv, [Next]_vars PROVE SerialInv'
  OBVIOUS
<1>1. BookInv' /\ FileAhead' /\ \A p \in Procs : SerialInUse(p)'
  BY NextBook, NextAhead, NextInUse DEF SerialInv
<1>2. \A c, d \in Issued' : c.serial = d.serial => c = d
  BY NextIssued
<1> QED
  BY <1>1, <1>2, NextDistinct DEF SerialInv

\* Two certificates that were both acknowledged have different serials, and no
\* two lines of the database share one: when commands run one at a time, for
\* any number of them, whatever step crashes or fails.  A serial comes back only
\* when the command that used it failed before it advanced the serial file.
THEOREM SerialsDistinctSolo == ASSUME Solo PROVE Spec => []SerialsDistinct
<1>1. Init => SerialInv
  BY InitSerial
<1>2. SerialInv /\ [Next]_vars => SerialInv'
  BY StepSerial
<1>3. SerialInv => SerialsDistinct
  BY DEF SerialInv, SerialsDistinct, Distinct
<1> QED
  BY <1>1, <1>2, <1>3, PTL DEF Spec

----------------------------------------------------------------------------
(* What has been acknowledged stays in the database *)

\* A file or a memory that holds everything acknowledged, in lines a reader
\* can trust.
Good(m) == Complete(m, Issued, Revocations) /\ ~HasTorn(m)

Replacing == {"createIndex", "closeIndex"}

\* The database, or while it is being replaced its backup, holds everything;
\* so does every memory that has been read.
FilesGood ==
  /\ (\A p \in Procs : pc[p] \notin Replacing) => Good(disk.index)
  /\ \A p \in Procs : pc[p] \in Replacing => Good(disk.indexOld)
  /\ \A p \in Procs : pc[p] \notin {"idle", "readIndex"} => Good(mem[p])

\* The line of a certificate that expires before the years repeat says V until
\* it expires.
Fresh(e, c, now) == RecordOf(e, c) /\ (now <= c.expiry /\ c.expiry < ExpiryPivot => e.status = "V")

\* What a command has done is in the memory it is about to write, and then in
\* the database.
WorkKept ==
  \A p \in Procs :
    /\ pc[p] \in Rewriting /\ op[p] = "sign" => \E i \in DOMAIN mem[p] : Fresh(mem[p][i], cert[p], clock)
    /\ pc[p] \in Rewriting /\ op[p] = "revoke" => Revokes(mem[p], cert[p].serial)
    /\ pc[p] \in {"renameAttr", "createAttr", "closeAttr"} =>
         \E i \in DOMAIN disk.index : Fresh(disk.index[i], cert[p], clock)

\* The database that is being written has its name.
IndexOpen == \A p \in Procs : pc[p] = "closeIndex" => fd[p] = "index"

DurableInv == BookInv /\ IndexOpen /\ (faults = 0 => FilesGood /\ WorkKept)
----------------------------------------------------------------------------
(* What a rewrite carries over *)

\* Every line of m is still there, in its place, with all that identifies it
\* and its revocation; no line has become unreadable.
Carries(new, m) ==
  /\ new \in Seq(Entries) /\ DOMAIN m \subseteq DOMAIN new
  /\ \A i \in DOMAIN m :
       /\ Torn(new[i]) => Torn(m[i])
       /\ new[i].serial = m[i].serial /\ new[i].dn = m[i].dn /\ new[i].expiry = m[i].expiry
       /\ m[i].revoked # NoDate => new[i].revoked # NoDate
  /\ \A i \in DOMAIN new \ DOMAIN m : ~Torn(new[i])

LEMMA CarriesAll ==
  ASSUME NEW m, NEW new, Carries(new, m), NEW cs, NEW rs, Complete(m, cs, rs), ~HasTorn(m)
  PROVE  Complete(new, cs, rs) /\ ~HasTorn(new)
<1>1. /\ \A i \in DOMAIN m : i \in DOMAIN new /\ ~Torn(new[i])
      /\ ~HasTorn(new) /\ new # NoFile
  BY CAAssumption DEF Carries, HasTorn
<1>2. ASSUME NEW c \in cs PROVE Records(new, c)
  <2>1. PICK i \in DOMAIN m : RecordOf(m[i], c)
    BY DEF Complete, Records
  <2>2. RecordOf(new[i], c)
    BY <1>1, <2>1 DEF RecordOf, Carries
  <2> QED
    BY <1>1, <2>2 DEF Records
<1>3. ASSUME NEW r \in rs PROVE Revokes(new, r.serial)
  <2>1. PICK i \in DOMAIN m : m[i].serial = r.serial /\ m[i].revoked # NoDate
    BY DEF Complete, Revokes
  <2>2. ~Torn(new[i]) /\ new[i].serial = r.serial /\ new[i].revoked # NoDate
    BY <1>1, <2>1 DEF Carries
  <2> QED
    BY <1>1, <2>2 DEF Revokes
<1> QED
  BY <1>1, <1>2, <1>3 DEF Complete

LEMMA CarriesRefreshed ==
  ASSUME NEW m \in Seq(Entries), NEW now \in Nat
  PROVE  Carries(Refreshed(m, now), m)
<1>1. Refreshed(m, now) \in Seq(Entries) /\ DOMAIN Refreshed(m, now) = DOMAIN m
  BY RefreshedType DEF Refreshed
<1>2. ASSUME NEW i \in DOMAIN m
      PROVE  LET e == Refreshed(m, now)[i]
             IN  /\ Torn(e) => Torn(m[i])
                 /\ e.serial = m[i].serial /\ e.dn = m[i].dn /\ e.expiry = m[i].expiry
                 /\ e.revoked = m[i].revoked
  <2>1. m[i] \in Lines
    BY DEF Entries
  <2> QED
    BY <2>1 DEF Refreshed, Torn, Lines
<1> QED
  BY <1>1, <1>2 DEF Carries

LEMMA SeqOf == ASSUME NEW S, NEW n \in Nat, NEW f \in [1 .. n -> S] PROVE f \in Seq(S)
  OBVIOUS

Marked(m, i, d) == [m EXCEPT ![i].status = "R", ![i].revoked = d]

LEMMA CarriesMarked ==
  ASSUME NEW m \in Seq(Entries), NEW i \in DOMAIN m, NEW d \in Dates, m[i].serial # NoSerial
  PROVE  /\ Carries(Marked(m, i, d), m)
         /\ Marked(m, i, d)[i].serial = m[i].serial
         /\ Marked(m, i, d)[i].revoked # NoDate /\ ~Torn(Marked(m, i, d)[i])
<1> DEFINE new == [m EXCEPT ![i].status = "R", ![i].revoked = d]
<1>1. m[i] \in Lines /\ d # NoDate
  BY CAAssumption DEF Entries
<1>2. new[i] = [m[i] EXCEPT !.status = "R", !.revoked = d]
  BY <1>1 DEF Lines
<1>3. DOMAIN new = DOMAIN m /\ \A j \in DOMAIN m : j # i => new[j] = m[j]
  OBVIOUS
<1>4. /\ new[i] \in Entries /\ new[i].serial = m[i].serial /\ new[i].dn = m[i].dn
      /\ new[i].expiry = m[i].expiry /\ new[i].revoked = d /\ ~Torn(new[i])
  BY <1>1, <1>2 DEF Lines, Entries, Torn
<1>5. new \in Seq(Entries)
  <2>1. \A j \in DOMAIN m : m[j] \in Entries /\ new[j] \in Entries
    BY <1>3, <1>4
  <2>2. DOMAIN m = 1 .. Len(m) /\ Len(m) \in Nat
    OBVIOUS
  <2>3. new \in [1 .. Len(m) -> Entries]
    <3>1. new = [j \in 1 .. Len(m) |-> new[j]]
      BY <2>2
    <3> QED
      BY <1>3, <2>1, <2>2, <3>1
  <2> QED
    BY <2>2, <2>3, SeqOf
<1> HIDE DEF new
<1>6. Carries(new, m)
  BY <1>1, <1>3, <1>4, <1>5 DEF Carries
<1> QED
  BY <1>1, <1>4, <1>6 DEF new, Marked

LEMMA CarriesRecorded ==
  ASSUME NEW m \in Seq(Entries), NEW c \in Certs
  PROVE  /\ Carries(Recorded(m, c), m)
         /\ \E i \in DOMAIN Recorded(m, c) : Recorded(m, c)[i] = NewEntry(c)
<1>1. NewEntry(c) \in Entries /\ ~Torn(NewEntry(c))
  BY NewEntryType DEF NewEntry, Torn
<1>2. /\ Recorded(m, c) \in Seq(Entries)
      /\ DOMAIN Recorded(m, c) = 1 .. Len(m) + 1 /\ DOMAIN m = 1 .. Len(m) /\ Len(m) \in Nat
      /\ \A i \in DOMAIN m : Recorded(m, c)[i] = m[i]
      /\ Recorded(m, c)[Len(m) + 1] = NewEntry(c)
  BY <1>1 DEF Recorded
<1> QED
  BY <1>1, <1>2 DEF Carries

\* A certificate that expires before the years repeat keeps its year.
LEMMA YearKept ==
  ASSUME NEW y \in Nat, y < ExpiryPivot
  PROVE  ExpiryYear(TwoDigits(y)) = y
  BY DatesAssumption DEF ExpiryYear, TwoDigits

LEMMA FreshRefreshed ==
  ASSUME NEW m \in Seq(Entries), NEW c \in Certs, clock \in Nat,
         \E i \in DOMAIN m : Fresh(m[i], c, clock)
  PROVE  \E i \in DOMAIN Refreshed(m, clock) : Fresh(Refreshed(m, clock)[i], c, clock)
<1>1. PICK i \in DOMAIN m : Fresh(m[i], c, clock)
  OBVIOUS
<1>2. m[i] \in Lines /\ ~Torn(m[i]) /\ c.expiry \in Nat /\ m[i].expiry = TwoDigits(c.expiry)
  BY <1>1 DEF Entries, Fresh, RecordOf, Certs
<1>3. CASE Expired(m[i].expiry, clock)
  <2>1. ~(clock <= c.expiry /\ c.expiry < ExpiryPivot)
    BY <1>2, <1>3, YearKept DEF Expired
  <2>2. Refreshed(m, clock)[i] = [m[i] EXCEPT !.status = "E"]
    BY <1>2, <1>3 DEF Refreshed
  <2>3. RecordOf(Refreshed(m, clock)[i], c)
    BY <1>1, <1>2, <2>2 DEF RecordOf, Fresh, Torn, Lines
  <2> QED
    BY <2>1, <2>3 DEF Fresh, Refreshed
<1>4. CASE ~Expired(m[i].expiry, clock)
  BY <1>1, <1>4 DEF Refreshed
<1> QED
  BY <1>3, <1>4
----------------------------------------------------------------------------
(* What a step without a fault does to the files and to what is acknowledged *)

\* While nobody replaces the database it stays, or becomes the backup.
LEMMA IndexKept ==
  ASSUME BookInv, [Next]_vars, \A p \in Procs : pc[p] \notin Replacing, disk.index # NoFile
  PROVE  \/ disk'.index = disk.index
         \/ disk'.indexOld = disk.index /\ \E p \in Procs : pc'[p] = "createIndex"
<1>1. TypeInv /\ "index" \in {"index", "indexOld"}
  BY DEF BookInv
<1>2. \A p \in Procs : ~CreateIndex(p) /\ \A lines : ~Flushed(p, lines)
  BY DEF Replacing, CreateIndex, Flushed
<1> QED
  BY <1>1, <1>2, IndexSteps

\* While somebody replaces the database the backup stays.
LEMMA BackupStays ==
  ASSUME BookInv, IndexOpen, [Next]_vars, NEW p \in Procs, pc[p] \in Replacing
  PROVE  disk'.indexOld = disk.indexOld
<1>1. TypeInv /\ "indexOld" \in {"index", "indexOld"} /\ pc[p] # "idle"
  BY DEF BookInv, Replacing
<1>2. ~Restore /\ \A q \in Procs : ~RenameIndex(q)
  BY <1>1, OthersIdle DEF Restore, RenameIndex, Replacing
<1>3. \A q \in Procs : pc[q] = "closeIndex" => fd[q] # "indexOld"
  BY DEF IndexOpen
<1> QED
  BY <1>1, <1>2, <1>3, IndexSteps DEF Flushed

\* Only a step that meets no fault leaves the number of faults alone.
LEMMA Calm == ASSUME TypeInv, faults' = faults PROVE ~Fault
  BY TypeOKSplit DEF TypeInv, EnvOK, Fault

LEMMA AckCert ==
  ASSUME BookInv, [Next]_vars, faults' = faults, NEW c \in Issued', c \notin Issued
  PROVE  \E p \in Procs :
           /\ pc[p] = "closeAttr" /\ pc'[p] = "idle"
           /\ c.serial = cert[p].serial /\ c.dn = cert[p].dn /\ c.expiry = cert[p].expiry
<1>1. TypeInv /\ result'[c.run] = "success"
  BY DEF BookInv, Issued, Succeeded
<1>2. PICK p \in Procs : /\ pc'[p] = "idle" /\ pc[p] \in Recording /\ op[p] = "sign"
                         /\ c.run = run[p] /\ c.serial = cert[p].serial
                         /\ c.dn = cert[p].dn /\ c.expiry = cert[p].expiry
  BY IssuedSteps
<1>3. pc[p] # "idle"
  BY <1>2 DEF Recording, Rewriting
<1>4. ASSUME NEW q \in Procs, Step(q) \/ Crash(q), \E code : Exit(q, code) PROVE pc[p] = "closeAttr"
  <2>1. PICK code \in {"success", "failure", "killed"} :
          /\ Exit(q, code)
          /\ code = "success" =>
               /\ pc[q] \in {"closeCrl", "createIndex", "closeIndex", "createAttr", "closeAttr"}
               /\ pc[q] = "closeIndex" => op[q] = "revoke"
               /\ pc[q] \in {"createIndex", "createAttr"} => Fault
    BY <1>1, <1>4, ExitSteps
  <2>2. q = p
    BY <1>1, <1>3, <1>4, ExitSteps, OthersIdle
  <2>3. code = "success"
    BY <1>1, <1>2, <1>3, <2>1, <2>2, ExitLocal
  <2> QED
    BY <1>1, <1>2, <2>1, <2>2, <2>3, Calm DEF Recording, Rewriting
<1>5. ASSUME NEW q \in Procs, Step(q) \/ Crash(q), ~ \E code : Exit(q, code) PROVE FALSE
  <2>1. PICK l : Goto(q, l) /\ <<pc[q], l>> \in Flow
    BY <1>1, <1>5, GotoSteps
  <2> QED
    BY <1>1, <1>2, <1>3, <2>1, TypeOKSplit DEF Goto, Flow, TypeInv, LocalOK
<1>6. ASSUME \/ \E q \in Procs : Invoke(q) \/ FlushIndex(q)
             \/ Tick \/ Restore \/ UNCHANGED vars
      PROVE  FALSE
  <2>1. pc \in [Procs -> PCs]
    BY <1>1, TypeOKSplit DEF TypeInv, LocalOK
  <2> QED
    BY <1>2, <1>3, <1>6, <2>1 DEF Invoke, FlushIndex, Tick, Restore, vars
<1> QED
  BY <1>2, <1>4, <1>5, <1>6 DEF Next

LEMMA AckRevocation ==
  ASSUME BookInv, [Next]_vars, faults' = faults, NEW r \in Revocations', r \notin Revocations
  PROVE  \E p \in Procs : /\ pc[p] = "closeIndex" /\ pc'[p] = "idle"
                          /\ op[p] = "revoke" /\ r.serial = cert[p].serial
<1>1. TypeInv /\ PastOK /\ r \in revs' /\ result'[r.run] = "success"
  BY TypeOKSplit DEF BookInv, TypeInv, Revocations, Succeeded
<1>2. ASSUME UNCHANGED <<revs, result>> PROVE FALSE
  BY <1>2 DEF Revocations, Succeeded
<1>3. ASSUME NEW p \in Procs, Step(p) \/ Crash(p), \E code : Exit(p, code)
      PROVE  /\ pc[p] = "closeIndex" /\ pc'[p] = "idle"
             /\ op[p] = "revoke" /\ r.serial = cert[p].serial
  <2>1. PICK code \in {"success", "failure", "killed"} :
          /\ Exit(p, code)
          /\ code = "success" =>
               /\ pc[p] \in {"closeCrl", "createIndex", "closeIndex", "createAttr", "closeAttr"}
               /\ pc[p] \in {"createIndex", "createAttr"} => Fault
    BY <1>1, <1>3, ExitSteps
  <2>2. UNCHANGED revs /\ pc[p] # "idle"
    BY <1>1, <1>3, ExitSteps DEF past
  <2>3. r \in revs /\ r.run \in 1 .. MaxRuns
    BY <1>1, <2>2 DEF PastOK
  <2>4. /\ result'[run[p]] = code /\ pc'[p] = "idle"
        /\ \A n \in 1 .. MaxRuns : n # run[p] => result'[n] = result[n]
    BY <2>1, <2>2, ExitLocal
  <2>5. r.run = run[p] /\ code = "success"
    BY <1>1, <2>3, <2>4 DEF Revocations, Succeeded
  <2>6. op[p] = "revoke" /\ pc[p] \in Rewriting /\ r.serial = cert[p].serial
    BY <2>2, <2>3, <2>5 DEF BookInv, RunBook
  <2> QED
    BY <1>1, <2>1, <2>4, <2>5, <2>6, Calm DEF Rewriting
<1>4. ASSUME NEW p \in Procs, Step(p) \/ Crash(p), ~ \E code : Exit(p, code) PROVE FALSE
  <2>1. /\ UNCHANGED result
        /\ \/ UNCHANGED revs
           \/ /\ pc[p] = "lookup"
              /\ revs' = revs \union {[run |-> run[p], serial |-> cert[p].serial, year |-> clock]}
    BY <1>1, <1>4, GotoSteps DEF Goto
  <2>2. CASE pc[p] = "lookup" /\ r.run = run[p]
    BY <1>1, <2>1, <2>2 DEF BookInv, RunBook
  <2> QED
    BY <1>1, <1>2, <2>1, <2>2 DEF Revocations, Succeeded
<1>5. ASSUME \/ \E p \in Procs : Invoke(p) \/ FlushIndex(p)
             \/ Tick \/ Restore \/ UNCHANGED vars
      PROVE  FALSE
  BY <1>2, <1>5 DEF Invoke, FlushIndex, Tick, Restore, past, vars
<1> QED
  BY <1>3, <1>4, <1>5 DEF Next

\* Lines that hold everything acknowledged so far still do after a step, if
\* what the step acknowledges is in them too.
LEMMA GoodLater ==
  ASSUME BookInv, [Next]_vars, faults' = faults, NEW m, Good(m),
         \A p \in Procs : pc'[p] = "idle" =>
           /\ pc[p] = "closeAttr" => \E i \in DOMAIN m : RecordOf(m[i], cert[p])
           /\ pc[p] = "closeIndex" /\ op[p] = "revoke" => Revokes(m, cert[p].serial)
  PROVE  Complete(m, Issued', Revocations') /\ ~HasTorn(m)
<1>1. m # NoFile /\ ~HasTorn(m)
  BY DEF Good, Complete
<1>2. ASSUME NEW c \in Issued' PROVE Records(m, c)
  <2>1. CASE c \in Issued
    BY <2>1 DEF Good, Complete
  <2>2. CASE c \notin Issued
    <3>1. PICK p \in Procs :
           /\ pc[p] = "closeAttr" /\ pc'[p] = "idle"
           /\ c.serial = cert[p].serial /\ c.dn = cert[p].dn /\ c.expiry = cert[p].expiry
      BY <2>2, AckCert
    <3>2. PICK i \in DOMAIN m : RecordOf(m[i], cert[p])
      BY <3>1
    <3>3. RecordOf(m[i], c)
      BY <3>1, <3>2 DEF RecordOf
    <3> QED
      BY <1>1, <3>3 DEF Records
  <2> QED
    BY <2>1, <2>2
<1>3. ASSUME NEW r \in Revocations' PROVE Revokes(m, r.serial)
  <2>1. CASE r \in Revocations
    BY <2>1 DEF Good, Complete
  <2>2. CASE r \notin Revocations
    BY <2>2, AckRevocation
  <2> QED
    BY <2>1, <2>2
<1> QED
  BY <1>1, <1>2, <1>3 DEF Complete
----------------------------------------------------------------------------
(* The process that runs, and how it goes on *)

LEMMA Moves ==
  ASSUME Solo, BookInv, [Next]_vars, NEW p \in Procs, pc'[p] # "idle"
  PROVE  \/ Invoke(p) /\ pc'[p] = "readIndex"
         \/ /\ Step(p) /\ UNCHANGED <<clock, op>> /\ <<pc[p], pc'[p]>> \in Flow
            /\ pc'[p] = "renameAttr" => op[p] = "sign"
            /\ pc[p] \notin {"readSerial", "checkUnique"} => UNCHANGED cert
         \/ FlushIndex(p) /\ UNCHANGED <<clock, pc, local, fd>>
         \/ UNCHANGED <<disk, pc, local, fd>>
<1>1. TypeInv /\ pc \in [Procs -> PCs]
  BY TypeOKSplit DEF BookInv, TypeInv, LocalOK
<1>2. ASSUME NEW q \in Procs, Step(q) \/ Crash(q), \E code : Exit(q, code) PROVE FALSE
  BY <1>1, <1>2, ExitSteps, ExitLocal
<1>3. ASSUME NEW q \in Procs, Step(q) \/ Crash(q), ~ \E code : Exit(q, code)
      PROVE  /\ Step(p) /\ UNCHANGED <<clock, op>> /\ <<pc[p], pc'[p]>> \in Flow
             /\ pc'[p] = "renameAttr" => op[p] = "sign"
             /\ pc[p] \notin {"readSerial", "checkUnique"} => UNCHANGED cert
  <2>1. PICK l : /\ Goto(q, l) /\ <<pc[q], l>> \in Flow
                 /\ l \in {"readSerial", "renameAttr"} => op[q] = "sign"
    BY <1>1, <1>3, GotoSteps
  <2>2. pc[q] # "idle" /\ pc'[q] = l /\ (q # p => pc'[p] = pc[p])
    BY <1>1, <2>1 DEF Flow, Goto
  <2>3. q = p
    BY <2>2, OthersIdle
  <2>4. Step(p)
    BY <1>3, <2>3 DEF Crash
  <2> QED
    BY <1>1, <1>3, <2>1, <2>2, <2>3, <2>4, GotoSteps DEF Goto
<1>4. ASSUME NEW q \in Procs, Invoke(q) PROVE Invoke(p) /\ pc'[p] = "readIndex"
  BY <1>1, <1>4 DEF Invoke
<1>5. ASSUME NEW q \in Procs, FlushIndex(q) PROVE FlushIndex(p) /\ UNCHANGED <<clock, pc, local, fd>>
  <2>1. UNCHANGED <<clock, pc, local, fd>> /\ pc[q] = "closeIndex"
    BY <1>5 DEF FlushIndex, env
  <2> QED
    BY <1>5, <2>1, OthersIdle
<1>6. ~Restore
  BY DEF Restore
<1>7. ASSUME Tick \/ UNCHANGED vars PROVE UNCHANGED <<disk, pc, local, fd>>
  BY <1>7 DEF Tick, vars, local
<1> QED
  BY <1>2, <1>3, <1>4, <1>5, <1>6, <1>7 DEF Next

\* Which step a process takes follows from where it is.
LEMMA StepAt ==
  ASSUME NEW p \in Procs, Step(p), ~UsesTorn(p)
  PROVE  /\ pc[p] = "readIndex" => ReadIndex(p)
         /\ pc[p] = "closeSerial" => CloseSerial(p)
         /\ pc[p] = "renameIndex" => RenameIndex(p)
         /\ pc[p] = "createIndex" => CreateIndex(p)
         /\ pc[p] = "closeIndex" => CloseIndex(p)
         /\ pc[p] = "renameAttr" => RenameAttr(p)
         /\ pc[p] = "createAttr" => CreateAttr(p)
         /\ pc[p] = "closeAttr" => CloseAttr(p)
  BY DEF Step, ReadIndex, ReadAttr, Refuse, Lookup, OpenCrl, CloseCrl, ReadSerial,
     CheckUnique, WriteCert, SaveSerial, OpenSerial, CloseSerial, RenameIndex, CreateIndex,
     CloseIndex, RenameAttr, CreateAttr, CloseAttr, DieOnTorn

LEMMA NextOpen ==
  ASSUME Solo, BookInv, IndexOpen, [Next]_vars
  PROVE  IndexOpen'
<1> SUFFICES ASSUME NEW p \in Procs, pc'[p] = "closeIndex" PROVE fd'[p] = "index"
  BY DEF IndexOpen
<1>1. LocalOK
  BY TypeOKSplit DEF BookInv, TypeInv
<1>2. CASE Step(p) /\ <<pc[p], pc'[p]>> \in Flow
  <2>1. pc[p] = "createIndex"
    BY <1>2 DEF Flow
  <2>2. CreateIndex(p) /\ ~ \E code : Exit(p, code)
    BY <1>1, <1>2, <2>1, StepAt DEF UsesTorn, Exit, LocalOK
  <2> QED
    BY <1>1, <2>2 DEF CreateIndex, Truncate, LocalOK
<1>3. CASE UNCHANGED <<pc, local, fd>>
  BY <1>3 DEF IndexOpen
<1> QED
  BY <1>2, <1>3, Moves

\* Without a fault only its own step takes a process further.
LEMMA OwnStep ==
  ASSUME BookInv, [Next]_vars, faults' = faults, NEW p \in Procs, pc[p] # "idle", pc'[p] # pc[p]
  PROVE  Step(p)
<1>1. TypeInv /\ LocalOK /\ \A q \in Procs : q # p => pc[q] = "idle"
  BY TypeOKSplit, OthersIdle DEF BookInv, TypeInv
<1>2. ASSUME NEW q \in Procs, Step(q) PROVE pc[q] # "idle"
  BY <1>1, <1>2, ExitSteps, GotoSteps DEF Flow
<1>3. ASSUME NEW q \in Procs, Invoke(q) \/ FlushIndex(q) \/ Crash(q) PROVE FALSE
  BY <1>1, <1>3, Calm DEF Invoke, FlushIndex, Crash, LocalOK
<1>4. ~Tick /\ ~Restore /\ ~UNCHANGED vars
  BY DEF Tick, Restore, vars
<1> QED
  BY <1>1, <1>2, <1>3, <1>4 DEF Next

\* The file is opened again, unless a call fails.
LEMMA IndexOpened ==
  ASSUME BookInv, [Next]_vars, faults' = faults, NEW p \in Procs, pc[p] = "createIndex"
  PROVE  pc'[p] \in {"createIndex", "closeIndex"}
<1>1. TypeInv /\ LocalOK
  BY TypeOKSplit DEF BookInv, TypeInv
<1>2. ASSUME pc'[p] # pc[p] PROVE CreateIndex(p)
  BY <1>2, OwnStep, StepAt DEF UsesTorn
<1> QED
  BY <1>1, <1>2, Calm DEF CreateIndex, Goto, LocalOK

\* The database is replaced by the lines in memory, refreshed.
LEMMA IndexClosed ==
  ASSUME BookInv, IndexOpen, [Next]_vars, faults' = faults, NEW p \in Procs,
         pc[p] = "closeIndex", pc'[p] # "closeIndex", ~HasTorn(mem[p])
  PROVE  disk'.index = Refreshed(mem[p], clock)
<1>1. TypeInv /\ disk \in Disks /\ fd[p] = "index"
  BY TypeOKSplit DEF BookInv, TypeInv, IndexOpen
<1>2. CloseIndex(p)
  BY OwnStep, StepAt DEF UsesTorn
<1>3. disk' = Written(p, Refreshed(mem[p], clock))
  BY <1>1, <1>2, Calm DEF CloseIndex
<1> QED
  BY <1>1, <1>3 DEF Written, Disks
----------------------------------------------------------------------------
(* Steps *)

\* The first steps of a proof about a step that meets no fault.
LEMMA NoFaultYet ==
  ASSUME DurableInv, [Next]_vars, faults' = 0
  PROVE  /\ faults' = faults /\ FilesGood /\ WorkKept
         /\ BookInv /\ TypeInv /\ LocalOK /\ IndexOpen /\ clock \in Nat
<1>1. TypeInv /\ LocalOK /\ EnvOK
  BY TypeOKSplit DEF DurableInv, BookInv, TypeInv
<1>2. faults = 0
  BY <1>1, EnvSteps DEF EnvOK
<1> QED
  BY <1>1, <1>2 DEF DurableInv, EnvOK

LEMMA NextIndexGood ==
  ASSUME Solo, DurableInv, [Next]_vars, faults' = 0, \A p \in Procs : pc'[p] \notin Replacing
  PROVE  Good(disk.index)'
<1>1. /\ faults' = faults /\ FilesGood /\ WorkKept
      /\ BookInv /\ TypeInv /\ LocalOK /\ IndexOpen /\ clock \in Nat
  BY NoFaultYet
<1>2. CASE \A p \in Procs : pc[p] \notin Replacing
  <2>1. Good(disk.index) /\ disk.index # NoFile
    BY <1>1, <1>2 DEF FilesGood, Good, Complete
  <2>2. disk'.index = disk.index
    BY <1>1, <1>2, <2>1, IndexKept DEF Replacing
  <2>3. ASSUME NEW p \in Procs, pc[p] = "closeAttr"
        PROVE  \E i \in DOMAIN disk.index : RecordOf(disk.index[i], cert[p])
    BY <1>1, <2>3 DEF WorkKept, Fresh
  <2>4. \A p \in Procs : pc[p] # "closeIndex"
    BY <1>2 DEF Replacing
  <2>5. Complete(disk.index, Issued', Revocations') /\ ~HasTorn(disk.index)
    BY <1>1, <2>1, <2>3, <2>4, GoodLater
  <2> QED
    BY <2>2, <2>5 DEF Good
<1>3. ASSUME NEW p \in Procs, pc[p] \in Replacing PROVE Good(disk.index)'
  <2>1. pc[p] = "closeIndex" /\ pc'[p] # "closeIndex"
    BY <1>1, <1>3, IndexOpened DEF Replacing
  <2>2. Good(mem[p]) /\ mem[p] \in Seq(Entries)
    BY <1>1, <2>1 DEF FilesGood, LocalOK
  <2> DEFINE new == Refreshed(mem[p], clock)
  <2>3. disk'.index = new
    BY <1>1, <2>1, <2>2, IndexClosed DEF Good
  <2>4. Carries(new, mem[p])
    BY <1>1, <2>2, CarriesRefreshed
  <2>5. Good(new)
    BY <2>2, <2>4, CarriesAll DEF Good
  <2>6. \A q \in Procs : q # p => pc[q] = "idle"
    BY <1>1, <2>1, OthersIdle
  <2>7. ASSUME op[p] = "revoke" PROVE Revokes(new, cert[p].serial)
    <3>1. Revokes(mem[p], cert[p].serial)
      BY <1>1, <2>1, <2>7 DEF WorkKept, Rewriting
    <3>2. PICK i \in DOMAIN mem[p] : /\ ~Torn(mem[p][i]) /\ mem[p][i].serial = cert[p].serial
                                     /\ mem[p][i].revoked # NoDate
      BY <3>1 DEF Revokes
    <3>3. i \in DOMAIN new /\ ~Torn(new[i]) /\ new[i].serial = cert[p].serial
          /\ new[i].revoked # NoDate /\ new # NoFile
      BY <2>4, <3>2, CAAssumption DEF Carries
    <3> QED
      BY <3>3 DEF Revokes
  <2> HIDE DEF new
  <2>8. Complete(new, Issued', Revocations') /\ ~HasTorn(new)
    BY <1>1, <2>1, <2>5, <2>6, <2>7, GoodLater
  <2> QED
    BY <2>3, <2>8 DEF Good
<1> QED
  BY <1>2, <1>3

LEMMA NextBackupGood ==
  ASSUME Solo, DurableInv, [Next]_vars, faults' = 0, NEW p \in Procs, pc'[p] \in Replacing
  PROVE  Good(disk.indexOld)'
<1>1. /\ faults' = faults /\ FilesGood /\ BookInv /\ TypeInv /\ LocalOK /\ IndexOpen
      /\ pc'[p] # "idle"
  BY NoFaultYet DEF Replacing
<1>2. pc[p] \in Replacing \/ (pc[p] = "renameIndex" /\ Step(p))
  BY <1>1, Moves DEF Flow, Replacing
<1>3. \A q \in Procs : q # p => pc[q] = "idle"
  BY <1>1, <1>2, OthersIdle DEF Replacing
<1>4. ASSUME NEW m, Good(m) PROVE Complete(m, Issued', Revocations') /\ ~HasTorn(m)
  BY <1>1, <1>3, <1>4, GoodLater
<1>5. CASE pc[p] \in Replacing
  BY <1>1, <1>4, <1>5, BackupStays DEF FilesGood, Good
<1>6. CASE pc[p] = "renameIndex" /\ Step(p)
  <2>1. RenameIndex(p) /\ disk \in Disks
    BY <1>1, <1>6, StepAt, TypeOKSplit DEF UsesTorn, TypeInv
  <2>2. disk'.indexOld = disk.index
    BY <1>1, <2>1 DEF RenameIndex, Rename, Exit, LocalOK, Disks
  <2>3. Good(disk.index)
    BY <1>1, <1>3, <1>6 DEF FilesGood, Replacing
  <2> QED
    BY <1>4, <2>2, <2>3 DEF Good
<1> QED
  BY <1>2, <1>5, <1>6

LEMMA NextMemGood ==
  ASSUME Solo, DurableInv, [Next]_vars, faults' = 0, NEW p \in Procs,
         pc'[p] \notin {"idle", "readIndex"}
  PROVE  Good(mem[p])'
<1>1. /\ faults' = faults /\ FilesGood /\ WorkKept
      /\ BookInv /\ TypeInv /\ LocalOK /\ IndexOpen /\ clock \in Nat
  BY NoFaultYet
<1>2. pc[p] # "idle"
  BY <1>1, Moves DEF Flow
<1>3. \A q \in Procs : q # p => pc[q] = "idle"
  BY <1>1, <1>2, OthersIdle
<1>4. ASSUME NEW m, Good(m) PROVE Complete(m, Issued', Revocations') /\ ~HasTorn(m)
  BY <1>1, <1>3, <1>4, GoodLater
<1>5. SUFFICES Good(mem'[p])
  BY <1>4 DEF Good
<1>6. CASE ReadIndex(p) /\ mem'[p] = disk.index
  BY <1>1, <1>3, <1>6 DEF ReadIndex, FilesGood, Replacing
<1>7. CASE ~ReadIndex(p)
  <2>1. pc[p] # "readIndex"
    <3>1. ASSUME pc[p] = "readIndex" PROVE FALSE
      BY <1>1, <1>7, <3>1, OwnStep, StepAt DEF UsesTorn
    <3> QED
      BY <3>1
  <2>2. Good(mem[p]) /\ mem[p] \in Seq(Entries) /\ cert[p] \in Certs
    BY <1>1, <1>2, <2>1 DEF FilesGood, LocalOK
  <2>3. ASSUME NEW i \in DOMAIN mem[p], FirstMatch(mem[p], cert[p].serial, i),
               mem'[p] = [mem[p] EXCEPT ![i].status = "R", ![i].revoked = TwoDigits(clock)]
        PROVE  Carries(mem'[p], mem[p])
    <3>1. mem'[p] = Marked(mem[p], i, TwoDigits(clock)) /\ TwoDigits(clock) \in Dates
      BY <1>1, <2>3, TwoDigitsType DEF Marked
    <3>2. mem[p][i].serial # NoSerial
      BY <2>2, <2>3, CAAssumption DEF FirstMatch, Certs
    <3> QED
      BY <2>2, <3>1, <3>2, CarriesMarked
  <2>4. Carries(Recorded(mem[p], cert[p]), mem[p])
    BY <2>2, CarriesRecorded
  <2>5. mem'[p] = mem[p] \/ Carries(mem'[p], mem[p])
    BY <1>1, <1>7, <2>3, <2>4, MemSteps
  <2> QED
    BY <2>2, <2>5, CarriesAll DEF Good
<1>8. ReadIndex(p) => mem'[p] = disk.index
  BY <1>1 DEF ReadIndex, Exit, LocalOK
<1> QED
  BY <1>6, <1>7, <1>8

\* The line of a signed certificate stays fresh as time passes.
LEMMA FreshLater ==
  ASSUME TypeInv, [Next]_vars, NEW e, NEW c \in Certs, Fresh(e, c, clock)
  PROVE  Fresh(e, c, clock')
<1>1. clock \in Nat /\ (clock' = clock \/ clock' = clock + 1) /\ c.expiry \in Nat
  BY EnvSteps, TypeOKSplit DEF TypeInv, EnvOK, Certs
<1>2. clock' <= c.expiry => clock <= c.expiry
  BY <1>1
<1> QED
  BY <1>2 DEF Fresh

LEMMA NextSignKept ==
  ASSUME Solo, DurableInv, [Next]_vars, faults' = 0, NEW p \in Procs,
         pc'[p] \in Rewriting, op'[p] = "sign"
  PROVE  \E i \in DOMAIN mem'[p] : Fresh(mem'[p][i], cert'[p], clock')
<1>1. /\ faults' = faults /\ WorkKept /\ BookInv /\ TypeInv /\ LocalOK
      /\ pc'[p] \notin {"idle", "readIndex"}
  BY NoFaultYet DEF Rewriting
<1>2. CASE pc[p] = "closeSerial" /\ Step(p) /\ UNCHANGED cert
  <2>1. mem[p] \in Seq(Entries) /\ cert[p] \in Certs
    BY <1>1 DEF LocalOK
  <2>2. CloseSerial(p)
    BY <1>2, StepAt DEF UsesTorn
  <2>3. mem'[p] = Recorded(mem[p], cert[p])
    BY <1>1, <2>2 DEF CloseSerial, Exit, LocalOK
  <2>4. PICK i \in DOMAIN mem'[p] : mem'[p][i] = NewEntry(cert[p])
    BY <2>1, <2>3, CarriesRecorded
  <2>5. Fresh(NewEntry(cert[p]), cert[p], clock)
    BY DEF Fresh, RecordOf, NewEntry, Torn
  <2>6. Fresh(mem'[p][i], cert[p], clock')
    BY <1>1, <1>2, <2>1, <2>4, <2>5, FreshLater
  <2> QED
    BY <1>2, <2>6
<1>3. CASE pc[p] \in Rewriting /\ UNCHANGED <<cert, op>> /\ mem'[p] = mem[p]
  <2>1. PICK i \in DOMAIN mem[p] : Fresh(mem[p][i], cert[p], clock)
    BY <1>1, <1>3 DEF WorkKept
  <2>2. cert[p] \in Certs
    BY <1>1 DEF LocalOK
  <2>3. Fresh(mem'[p][i], cert'[p], clock')
    BY <1>1, <1>3, <2>1, <2>2, FreshLater
  <2> QED
    BY <1>3, <2>1, <2>3
<1>4. \/ pc[p] = "closeSerial" /\ Step(p) /\ UNCHANGED cert
      \/ pc[p] \in Rewriting /\ UNCHANGED <<cert, op>>
  BY <1>1, Moves DEF Flow, Rewriting, local, BookInv, PhaseOK
<1>5. pc[p] \in Rewriting => mem'[p] = mem[p]
  BY <1>1, MemSteps DEF ReadIndex, Lookup, CloseSerial, Rewriting
<1> QED
  BY <1>2, <1>3, <1>4, <1>5

LEMMA NextRevokeKept ==
  ASSUME Solo, DurableInv, [Next]_vars, faults' = 0, NEW p \in Procs,
         pc'[p] \in Rewriting, op'[p] = "revoke"
  PROVE  Revokes(mem'[p], cert'[p].serial)
<1>1. /\ faults' = faults /\ WorkKept /\ BookInv /\ TypeInv /\ LocalOK /\ clock \in Nat
      /\ pc'[p] \notin {"idle", "readIndex"}
  BY NoFaultYet DEF Rewriting
<1>2. \/ pc[p] = "lookup" /\ Step(p) /\ UNCHANGED cert
      \/ pc[p] \in Rewriting /\ UNCHANGED <<cert, op>>
  BY <1>1, Moves DEF Flow, Rewriting, local, BookInv, PhaseOK
<1>3. CASE pc[p] \in Rewriting /\ UNCHANGED <<cert, op>>
  <2>1. mem'[p] = mem[p]
    BY <1>1, <1>3, MemSteps DEF ReadIndex, Lookup, CloseSerial, Rewriting
  <2> QED
    BY <1>1, <1>3, <2>1 DEF WorkKept
<1>4. CASE pc[p] = "lookup" /\ Step(p) /\ UNCHANGED cert
  <2>1. mem[p] \in Seq(Entries) /\ mem'[p] \in Seq(Entries)
    BY <1>1, NextType, TypeOKSplit DEF LocalOK, TypeInv, TypeOK
  <2>2. Lookup(p)
    BY <1>1, <1>4 DEF Step, ReadIndex, ReadAttr, Refuse, Lookup, OpenCrl, CloseCrl, ReadSerial,
     CheckUnique, WriteCert, SaveSerial, OpenSerial, CloseSerial, RenameIndex, CreateIndex,
     CloseIndex, RenameAttr, CreateAttr, CloseAttr, DieOnTorn, Exit, LocalOK
  <2>3. PICK i \in DOMAIN mem[p] :
          /\ FirstMatch(mem[p], cert[p].serial, i)
          /\ mem'[p] = [mem[p] EXCEPT ![i].status = "R", ![i].revoked = TwoDigits(clock)]
    BY <1>1, <2>2 DEF Lookup, Exit, LocalOK
  <2>4. mem'[p] = Marked(mem[p], i, TwoDigits(clock)) /\ TwoDigits(clock) \in Dates
    BY <1>1, <2>3, TwoDigitsType DEF Marked
  <2>5. /\ Carries(mem'[p], mem[p])
        /\ mem'[p][i].serial = mem[p][i].serial
        /\ mem'[p][i].revoked # NoDate /\ ~Torn(mem'[p][i])
    <3>1. mem[p][i].serial # NoSerial
      BY <1>1, <2>3, CAAssumption DEF FirstMatch, LocalOK, Certs
    <3> QED
      BY <2>1, <2>4, <3>1, CarriesMarked
  <2>6. i \in DOMAIN mem'[p] /\ mem'[p] # NoFile /\ mem[p][i].serial = cert[p].serial
    BY <2>1, <2>3, <2>5, CAAssumption DEF Carries, FirstMatch
  <2> QED
    BY <1>4, <2>5, <2>6 DEF Revokes
<1> QED
  BY <1>2, <1>3, <1>4

LEMMA NextLineKept ==
  ASSUME Solo, DurableInv, [Next]_vars, faults' = 0, NEW p \in Procs,
         pc'[p] \in {"renameAttr", "createAttr", "closeAttr"}
  PROVE  \E i \in DOMAIN disk'.index : Fresh(disk'.index[i], cert'[p], clock')
<1>1. /\ faults' = faults /\ FilesGood /\ WorkKept
      /\ BookInv /\ TypeInv /\ LocalOK /\ IndexOpen /\ clock \in Nat
      /\ cert[p] \in Certs /\ mem[p] \in Seq(Entries)
  BY NoFaultYet DEF LocalOK
<1>2. /\ pc[p] \in {"closeIndex", "renameAttr", "createAttr", "closeAttr"} /\ UNCHANGED cert
      /\ pc[p] = "closeIndex" => op[p] = "sign"
  BY <1>1, Moves DEF Flow, local
<1>3. CASE pc[p] = "closeIndex"
  <2>1. disk'.index = Refreshed(mem[p], clock)
    BY <1>1, <1>3, IndexClosed DEF FilesGood, Good
  <2>2. \E i \in DOMAIN mem[p] : Fresh(mem[p][i], cert[p], clock)
    BY <1>1, <1>2, <1>3 DEF WorkKept, Rewriting
  <2>3. PICK i \in DOMAIN disk'.index : Fresh(disk'.index[i], cert[p], clock)
    BY <1>1, <2>1, <2>2, FreshRefreshed
  <2>4. Fresh(disk'.index[i], cert'[p], clock')
    BY <1>1, <1>2, <2>3, FreshLater
  <2> QED
    BY <2>4
<1>4. CASE pc[p] # "closeIndex"
  <2>1. \A q \in Procs : q # p => pc[q] = "idle"
    BY <1>1, <1>2, OthersIdle
  <2>2. /\ \A q \in Procs : pc[q] \notin Replacing
        /\ disk.index # NoFile
    BY <1>1, <1>2, <1>4, <2>1 DEF Replacing, FilesGood, Good, Complete
  <2>3. \A q \in Procs : pc'[q] # "createIndex"
    BY <1>1, NextBook DEF BookInv, Alone
  <2>4. disk'.index = disk.index
    BY <1>1, <2>2, <2>3, IndexKept
  <2>5. PICK i \in DOMAIN disk.index : Fresh(disk.index[i], cert[p], clock)
    BY <1>1, <1>2, <1>4 DEF WorkKept
  <2>6. Fresh(disk'.index[i], cert'[p], clock')
    BY <1>1, <1>2, <2>4, <2>5, FreshLater
  <2> QED
    BY <2>4, <2>5, <2>6
<1> QED
  BY <1>3, <1>4

LEMMA NextDurable == Solo /\ DurableInv /\ [Next]_vars => DurableInv'
<1> SUFFICES ASSUME Solo, DurableInv, [Next]_vars PROVE DurableInv'
  OBVIOUS
<1>1. BookInv' /\ IndexOpen'
  BY NextBook, NextOpen DEF DurableInv
<1>2. ASSUME faults' = 0 PROVE FilesGood'
  BY <1>2, NextIndexGood, NextBackupGood, NextMemGood DEF FilesGood
<1>3. ASSUME faults' = 0 PROVE WorkKept'
  BY <1>3, NextSignKept, NextRevokeKept, NextLineKept DEF WorkKept
<1> QED
  BY <1>1, <1>2, <1>3 DEF DurableInv

LEMMA InitDurable == Init => DurableInv
<1> SUFFICES ASSUME Init PROVE DurableInv
  OBVIOUS
<1>1. /\ disk.index = <<>> /\ certs = {} /\ revs = {}
      /\ \A p \in Procs : pc[p] = "idle"
  BY DEF Init
<1>2. <<>> # NoFile
  <2>1. <<>> \in Seq(Nat)
    OBVIOUS
  <2> QED
    BY <2>1, CAAssumption
<1>3. Good(disk.index)
  BY <1>1, <1>2 DEF Good, Complete, HasTorn, Issued, Revocations
<1> QED
  BY <1>1, <1>3, InitBook DEF DurableInv, IndexOpen, FilesGood, WorkKept, Replacing, Rewriting
----------------------------------------------------------------------------
(* Theorems *)

LEMMA DurableAlways == ASSUME Solo PROVE Spec => []DurableInv
<1>1. Init => DurableInv
  BY InitDurable
<1>2. DurableInv /\ [Next]_vars => DurableInv'
  BY NextDurable
<1> QED
  BY <1>1, <1>2, PTL DEF Spec

\* The first thing that goes wrong, at whatever step of whatever command, leaves
\* index.txt or index.txt.old with every certificate and every revocation that
\* was acknowledged before it: when commands run one at a time, for any number
\* of them (write_database_old_new renames before it writes).
THEOREM BackupKeptSolo == ASSUME Solo PROVE Spec => BackupKept
<1>1. ASSUME DurableInv, [Next]_vars, faults = 0
      PROVE  \E f \in {"index", "indexOld"} : Complete(disk'[f], Issued, Revocations)
  <2>1. BookInv /\ IndexOpen /\ FilesGood
    BY <1>1 DEF DurableInv
  <2>2. CASE \A p \in Procs : pc[p] \notin Replacing
    <3>1. Complete(disk.index, Issued, Revocations) /\ disk.index # NoFile
      BY <2>1, <2>2 DEF FilesGood, Good, Complete
    <3>2. disk'.index = disk.index \/ disk'.indexOld = disk.index
      BY <1>1, <2>1, <2>2, <3>1, IndexKept
    <3> QED
      BY <3>1, <3>2
  <2>3. ASSUME NEW p \in Procs, pc[p] \in Replacing
        PROVE  disk'.indexOld = disk.indexOld /\ Complete(disk.indexOld, Issued, Revocations)
    BY <1>1, <2>1, <2>3, BackupStays DEF FilesGood, Good
  <2> QED
    BY <2>2, <2>3
<1>2. DurableInv /\ [Next]_vars =>
        [faults = 0 => \E f \in {"index", "indexOld"} : Complete(disk'[f], Issued, Revocations)]_vars
  BY <1>1
<1> QED
  BY <1>2, DurableAlways, PTL DEF Spec, BackupKept

\* Where a command that exits with 0 comes from, when nothing has failed.
LEMMA EndsAt ==
  ASSUME DurableInv, [Next]_vars, faults' = 0, NEW p \in Procs, Ends(p)
  PROVE  /\ op[p] = "sign" => pc[p] = "closeAttr"
         /\ op[p] = "revoke" => pc[p] = "closeIndex"
<1>1. faults' = faults /\ BookInv /\ TypeInv /\ LocalOK
  BY NoFaultYet
<1>2. Step(p) /\ pc[p] # "idle"
  BY <1>1, OwnStep DEF Ends
<1>3. \E code : Exit(p, code)
  BY <1>1, <1>2, GotoSteps DEF Ends, Goto, Flow, LocalOK
<1>4. PICK code \in {"success", "failure", "killed"} :
        /\ Exit(p, code)
        /\ code = "success" =>
             /\ pc[p] \in {"closeCrl", "createIndex", "closeIndex", "createAttr", "closeAttr"}
             /\ pc[p] = "closeIndex" => op[p] = "revoke"
             /\ pc[p] \in {"createIndex", "createAttr"} => Fault
  BY <1>1, <1>2, <1>3, ExitSteps
<1>5. code = "success"
  BY <1>1, <1>2, <1>4, ExitLocal DEF Ends
<1> QED
  BY <1>1, <1>4, <1>5, Calm DEF BookInv, PhaseOK

\* The line that a sign command leaves in the database.
LEMMA SignEnds ==
  ASSUME DurableInv, [Next]_vars, faults' = 0, NEW p \in Procs, Ends(p), op[p] = "sign"
  PROVE  disk'.index # NoFile /\ \E i \in DOMAIN disk'.index : Fresh(disk'.index[i], cert[p], clock)
<1>1. faults' = faults /\ BookInv /\ FilesGood /\ WorkKept /\ pc[p] = "closeAttr"
  BY NoFaultYet, EndsAt
<1>2. \A q \in Procs : pc[q] \notin Replacing
  BY <1>1, OthersIdle DEF Replacing
<1>3. disk.index # NoFile /\ \E i \in DOMAIN disk.index : Fresh(disk.index[i], cert[p], clock)
  BY <1>1, <1>2 DEF FilesGood, Good, Complete, WorkKept
<1>4. \A q \in Procs : ~RenameIndex(q) /\ ~Restore /\ ~CreateIndex(q) /\ \A lines : ~Flushed(q, lines)
  BY <1>1, OthersIdle DEF RenameIndex, Restore, CreateIndex, Flushed
<1>5. disk'.index = disk.index
  BY <1>1, <1>4, IndexSteps DEF BookInv
<1> QED
  BY <1>3, <1>5

LEMMA RevokeEnds ==
  ASSUME DurableInv, [Next]_vars, faults' = 0, NEW p \in Procs, Ends(p), op[p] = "revoke"
  PROVE  Revokes(disk'.index, cert[p].serial)
<1>1. /\ faults' = faults /\ BookInv /\ FilesGood /\ WorkKept /\ IndexOpen /\ clock \in Nat
      /\ pc[p] = "closeIndex" /\ LocalOK
  BY NoFaultYet, EndsAt
<1>2. mem[p] \in Seq(Entries) /\ ~HasTorn(mem[p]) /\ Revokes(mem[p], cert[p].serial)
  BY <1>1 DEF LocalOK, FilesGood, Good, WorkKept, Rewriting
<1>3. disk'.index = Refreshed(mem[p], clock)
  BY <1>1, <1>2, IndexClosed DEF Ends
<1>4. Carries(disk'.index, mem[p])
  BY <1>1, <1>2, <1>3, CarriesRefreshed
<1> QED
  BY <1>2, <1>4, CAAssumption DEF Carries, Revokes, HasTorn

\* When nothing fails, nothing has failed yet.
LEMMA NeverFails == ASSUME MaxFaults = 0 PROVE Spec => [](faults = 0)
<1>1. Init => faults = 0
  BY DEF Init
<1>2. TypeInv /\ faults = 0 /\ [Next]_vars => (faults = 0)'
  BY EnvSteps
<1>3. Spec => []TypeInv
  <2>1. Init => TypeInv
    BY InitType
  <2>2. TypeInv /\ [Next]_vars => TypeInv'
    BY NextType
  <2> QED
    BY <2>1, <2>2, PTL DEF Spec
<1> QED
  BY <1>1, <1>2, <1>3, PTL DEF Spec

\* A sign or -revoke command that exits with 0 has its certificate or its
\* revocation in index.txt, when commands run one at a time and no call fails:
\* nothing a later step of the command does takes it out again.
THEOREM SuccessRecordedSolo == ASSUME Solo, MaxFaults = 0 PROVE Spec => SuccessRecorded
<1>1. ASSUME DurableInv, [Next]_vars, faults' = 0, NEW p \in Procs, Ends(p)
      PROVE  /\ op[p] = "sign" => Records(disk'.index, cert[p])
             /\ op[p] = "revoke" => Revokes(disk'.index, cert[p].serial)
  BY <1>1, SignEnds, RevokeEnds DEF Fresh, Records
<1>2. DurableInv /\ [Next]_vars /\ (faults = 0)' =>
        [\A p \in Procs : Ends(p) =>
           /\ op[p] = "sign" => Records(disk'.index, cert[p])
           /\ op[p] = "revoke" => Revokes(disk'.index, cert[p].serial)]_vars
  BY <1>1
<1> QED
  BY <1>2, DurableAlways, NeverFails, PTL DEF Spec, SuccessRecorded

\* Every certificate is to expire before the years repeat.
CertsNear == clock <= MaxClock /\ \A p \in Procs : cert[p].expiry < ExpiryPivot

LEMMA NextNear ==
  ASSUME \A life \in Lifetimes : MaxClock + life < ExpiryPivot,
         TypeInv, CertsNear, [Next]_vars
  PROVE  CertsNear'
<1>1. LocalOK /\ clock \in Nat /\ MaxClock \in Nat /\ clock' <= MaxClock
      /\ Lifetimes \subseteq Nat /\ ExpiryPivot \in Nat
  BY EnvSteps, CAAssumption, DatesAssumption, TypeOKSplit DEF TypeInv, EnvOK, CertsNear
<1>2. ASSUME NEW p \in Procs, \E code : Exit(p, code) PROVE CertsNear'
  BY <1>1, <1>2, DatesAssumption DEF Exit, CertsNear, LocalOK, Blank
<1>3. ASSUME NEW p \in Procs, Step(p) \/ Crash(p), ~ \E code : Exit(p, code) PROVE CertsNear'
  <2>1. CASE UNCHANGED cert
    BY <1>1, <2>1 DEF CertsNear
  <2>2. ASSUME NEW n, cert' = [cert EXCEPT ![p].serial = n] PROVE CertsNear'
    BY <1>1, <2>2 DEF CertsNear, LocalOK, Certs
  <2>3. ASSUME NEW life \in Lifetimes, cert' = [cert EXCEPT ![p].expiry = clock + life]
        PROVE  CertsNear'
    <3>1. clock + life < ExpiryPivot
      BY <1>1 DEF CertsNear
    <3> QED
      BY <1>1, <2>3, <3>1 DEF CertsNear, LocalOK, Certs
  <2> QED
    BY <1>3, <2>1, <2>2, <2>3, GotoSteps
<1>4. ASSUME NEW p \in Procs, Invoke(p) PROVE CertsNear'
  <2>1. CASE UNCHANGED cert
    BY <1>1, <1>4, <2>1 DEF Invoke, CertsNear
  <2>2. ASSUME NEW c, c.expiry = 0, cert' = [cert EXCEPT ![p] = c] PROVE CertsNear'
    BY <1>1, <2>2, DatesAssumption DEF CertsNear, LocalOK
  <2>3. /\ \A d : [Blank EXCEPT !.dn = d].expiry = 0
        /\ \A s : [Blank EXCEPT !.serial = s].expiry = 0
    BY DEF Blank
  <2>4. UNCHANGED cert \/ \E c : c.expiry = 0 /\ cert' = [cert EXCEPT ![p] = c]
    BY <1>4, <2>3 DEF Invoke
  <2> QED
    BY <2>1, <2>2, <2>4
<1>5. ASSUME \/ \E p \in Procs : FlushIndex(p)
             \/ Tick \/ Restore \/ UNCHANGED vars
      PROVE  CertsNear'
  BY <1>1, <1>5 DEF FlushIndex, Tick, Restore, vars, local, CertsNear
<1> QED
  BY <1>2, <1>3, <1>4, <1>5 DEF Next

LEMMA InitNear == Init => CertsNear
  BY CAAssumption, DatesAssumption DEF Init, CertsNear, Blank

LEMMA NearAlways ==
  ASSUME \A life \in Lifetimes : MaxClock + life < ExpiryPivot
  PROVE  Spec => [](TypeInv /\ CertsNear)
<1>1. Init => TypeInv /\ CertsNear
  BY InitType, InitNear
<1>2. TypeInv /\ CertsNear /\ [Next]_vars => (TypeInv /\ CertsNear)'
  BY NextNear, NextType
<1> QED
  BY <1>1, <1>2, PTL DEF Spec

\* The line of a certificate just signed says V if the certificate has not
\* expired (tests/cases/ca/03), when commands run one at a time, no call fails
\* and no certificate expires in or after the year strptime("%y") takes for
\* 1969; a run shows that the last condition is needed.
THEOREM SignedIsMarkedVSolo ==
  ASSUME Solo, MaxFaults = 0, \A life \in Lifetimes : MaxClock + life < ExpiryPivot
  PROVE  Spec => SignedIsMarkedV
<1>1. ASSUME DurableInv, TypeInv, CertsNear, [Next]_vars, faults' = 0, NEW p \in Procs, Ends(p),
             op[p] = "sign", cert[p].expiry >= clock
      PROVE  \E i \in DOMAIN disk'.index : /\ RecordOf(disk'.index[i], cert[p])
                                           /\ disk'.index[i].status = "V"
  <2>1. clock \in Nat /\ cert[p].expiry \in Nat /\ cert[p].expiry < ExpiryPivot
    BY <1>1, TypeOKSplit DEF TypeInv, EnvOK, LocalOK, Certs, CertsNear
  <2> QED
    BY <1>1, <2>1, SignEnds DEF Fresh
<1>2. DurableInv /\ TypeInv /\ CertsNear /\ [Next]_vars /\ (faults = 0)' =>
        [\A p \in Procs : Ends(p) /\ op[p] = "sign" /\ cert[p].expiry >= clock =>
           \E i \in DOMAIN disk'.index : /\ RecordOf(disk'.index[i], cert[p])
                                         /\ disk'.index[i].status = "V"]_vars
  BY <1>1
<1> QED
  BY <1>2, DurableAlways, NeverFails, NearAlways, PTL DEF Spec, SignedIsMarkedV
=============================================================================
