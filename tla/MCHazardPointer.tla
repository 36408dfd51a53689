-------------------------- MODULE MCHazardPointer --------------------------
(***************************************************************************)
(* Small instances of HazardPointer for TLC.                               *)
(***************************************************************************)
EXTENDS HazardPointer, TLC

CONSTANTS r1, r2

MCReaders == {r1, r2}

MCSymmetry == Permutations(MCReaders)

====
