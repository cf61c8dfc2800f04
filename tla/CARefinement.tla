---------------------------- MODULE CARefinement ----------------------------
(***************************************************************************)
(* Commands that run one after the other, with no crash and no failing     *)
(* call, implement the ledger.  While index.txt is being rewritten the     *)
(* ledger is still what index.txt.old holds; it changes when the new file  *)
(* is closed.                                                              *)
(***************************************************************************)
EXTENDS CAProps

CONSTANT Horizon  \* the last year a certificate may expire in

Current(name, backup, rewriting) ==
  IF \E p \in Procs : pc[p] \in rewriting THEN disk[backup] ELSE disk[name]

Line(e) == [serial |-> e.serial, dn |-> e.dn, expiry |-> ExpiryYear(e.expiry),
            revoked |-> IF e.revoked = NoDate THEN NoDate ELSE StampYear(e.revoked)]

CurrentIndex == Current("index", "indexOld", {"createIndex", "closeIndex"})
CurrentAttr  == Current("attr", "attrOld", {"createAttr", "closeAttr"})

LedgerNow == {Line(CurrentIndex[i]) : i \in DOMAIN CurrentIndex}
CrlNow    == IF disk.crl \in {NoFile, <<>>} THEN NoFile ELSE disk.crl[1]

L == INSTANCE CALedger WITH
       Serials <- FirstSerial .. FirstSerial + MaxRuns,
       Years <- 0 .. Horizon, Never <- NoDate, NoCrl <- NoFile,
       ledger <- LedgerNow, crl <- CrlNow, unique <- (CurrentAttr = <<"yes">>)

\* The files of the CA directory, read together, behave as one ledger: serials
\* are never reused, a revocation is never lost or antedated, the subject rule
\* survives every rewrite, and each CRL that is written lists the revoked
\* certificates that have not expired and none that is not revoked.
ImplementsLedger == L!Spec
=============================================================================
