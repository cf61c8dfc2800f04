------------------------------ MODULE CADates ------------------------------
(***************************************************************************)
(* The dates of the CA database.  A line of index.txt holds its dates as   *)
(* YYMMDDHHMMSSZ: the century is dropped when the line is written and      *)
(* guessed again by every reader, and the readers do not guess alike.      *)
(* The model keeps the year only (a date within a year never changes what  *)
(* is guessed) and counts years from 2000.                                 *)
(***************************************************************************)
EXTENDS Integers

CONSTANTS
  Century,      \* years after which a two-digit year repeats (100)
  ExpiryPivot,  \* strptime("%y") reads 00..68 as 20xx, 69..99 as 19xx (69)
  StampPivot    \* ca -gencrl reads 00..49 as 20xx, 50..99 as 19xx (50)

ASSUME DatesAssumption ==
  /\ Century \in Nat \ {0}
  /\ ExpiryPivot \in 1 .. Century
  /\ StampPivot \in 1 .. Century

\* The two digits that reach the file: time_notafter+2 for an expiry, and
\* (tm_year + 1900) % 100 for a revocation date.
TwoDigits(year) == year % Century

\* The year write_database_old_new() understands when it looks for expired lines.
ExpiryYear(yy) == IF yy < ExpiryPivot THEN yy ELSE yy - Century

\* Mutant: the two centuries of the digit test swapped.
StampYearSwapped(yy) == IF yy < StampPivot THEN yy - Century ELSE yy

\* The year -gencrl puts in front of a revocation date: "20" when the first
\* digit is 0..4, "19" otherwise.
StampYear(yy) == IF yy < StampPivot THEN yy ELSE yy - Century

\* Mutant: >= for >.
ExpiredOnTheDay(yy, now) == now >= ExpiryYear(yy)

\* difftime(now, expiry) > 0
Expired(yy, now) == now > ExpiryYear(yy)
=============================================================================
