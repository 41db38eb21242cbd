-------------------------------- MODULE MCAccess -------------------------------
(* Small instances of Access for TLC.                                      *)
EXTENDS Access, TLC

CONSTANTS a1, t1, r1, r2

MCSymmetry == Permutations(Requests)
================================================================================
