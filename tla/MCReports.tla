------------------------------- MODULE MCReports -------------------------------
(* A small instance of Reports for TLC.                                    *)
EXTENDS Reports

CONSTANTS a, b, q1
================================================================================
