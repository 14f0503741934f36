------------------------------ MODULE MCIntake -------------------------------
(* Small instances of Intake: one database with a number and a column that  *)
(* reads as personal data, is a key, and may be missing at first.           *)
EXTENDS Intake, TLC

CONSTANTS db, total, phone, text, number, i1, i2

MCTargets == {{total}, {phone}}

MCCatalogue == db :> (total :> number @@ phone :> text)

MCWithoutPhone == db :> (total :> number @@ phone :> None)

Symmetry == Permutations(Procs) \cup Permutations(Ids)

=============================================================================
