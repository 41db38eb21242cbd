------------------------------ MODULE MCIngestion ------------------------------
(* Small instances of Ingestion for TLC.                                   *)
EXTENDS Ingestion, TLC

CONSTANTS d1, d2, t1, m1, m2, m3

MCDiscs == {d1, d2}
MCTenantOf == [d \in MCDiscs |-> t1]

\* Two messages that report the same discrepancy, of which the second passes
\* every check of the handler but not those of the table, and one that lacks a
\* field.
MCMessages == {m1, m2, m3}
MCDiscOf == m1 :> d1 @@ m2 :> d1 @@ m3 :> d2
MCSeverityOf == m1 :> "low" @@ m2 :> "unknown" @@ m3 :> "high"
MCWellFormed == {m1, m2}

\* Two copies of the first in flight.
MCMaxOverlap == m1 :> 2 @@ m2 :> 1 @@ m3 :> 1
================================================================================
