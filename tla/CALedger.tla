------------------------------ MODULE CALedger ------------------------------
(***************************************************************************)
(* What a certificate authority promises, with no files and no processes:  *)
(* a ledger of the certificates it issued, and the list of revoked ones it *)
(* last published.  Every operation is one step.                           *)
(***************************************************************************)
EXTENDS Integers

CONSTANTS
  Names,     \* subject names
  Serials,   \* serial numbers
  Years,     \* the years certificates may expire in
  Never,     \* the revocation date of a certificate that is not revoked
  NoCrl      \* no CRL can be read

VARIABLES
  ledger,    \* the certificates, with the year each was revoked in
  crl,       \* the published list
  unique,    \* whether a subject may have one certificate only
  clock

lvars == <<ledger, crl, unique, clock>>

Revoked(e) == e.revoked # Never

Item(e) == [serial |-> e.serial, year |-> e.revoked]

Init == /\ ledger = {} /\ crl = NoCrl /\ clock = 0
        /\ unique \in BOOLEAN

\* A serial is used once; with unique subjects, so is a subject.
Issue ==
  \E s \in Serials, d \in Names, y \in Years :
    /\ \A e \in ledger : e.serial # s
    /\ unique => \A e \in ledger : e.dn # d
    /\ ledger' = ledger \union {[serial |-> s, dn |-> d, expiry |-> y, revoked |-> Never]}
    /\ UNCHANGED <<crl, unique, clock>>

\* A revocation is never taken back and only ever gets a later date.
Revoke ==
  \E e \in ledger, y \in 0 .. clock :
    /\ Revoked(e) => e.revoked <= y
    /\ ledger' = (ledger \ {e}) \union {[e EXCEPT !.revoked = y]}
    /\ UNCHANGED <<crl, unique, clock>>

\* A CRL lists revoked certificates only, with the dates they were revoked
\* on, and every one that has not expired by itself.
Publish ==
  /\ crl' # NoCrl
  /\ crl' \subseteq {Item(e) : e \in {x \in ledger : Revoked(x)}}
  /\ {Item(e) : e \in {x \in ledger : Revoked(x) /\ x.expiry >= clock}} \subseteq crl'
  /\ UNCHANGED <<ledger, unique, clock>>

\* While a CRL is being replaced there is none.
Withdraw == crl' = NoCrl /\ UNCHANGED <<ledger, unique, clock>>

Pass == clock' = clock + 1 /\ UNCHANGED <<ledger, crl, unique>>

Next == Issue \/ Revoke \/ Publish \/ Withdraw \/ Pass

Spec == Init /\ [][Next]_lvars
=============================================================================
