------------------------------ MODULE MCWorkflow -------------------------------
(* Small instances of Workflow for TLC.                                    *)
EXTENDS Workflow, TLC

CONSTANTS d1, t1, t2, r1, r2, r3, r4

\* One discrepancy: the requests share no state through any other.
MCDiscs == {d1}
MCTenants == {t1, t2}
MCOneTenant == {t1}
MCTenantOf == d1 :> t1

\* Four requests: the three of a whole lifecycle, and one that read the row
\* before they ran and commits after them.
MCFourRequests == {r1, r2, r3, r4}
MCTwoRequests == {r1, r2}

\* Requests are interchangeable.  Tenants are not: d1 belongs to t1.
MCSymmetry == Permutations(Requests)

\* The numbers two requests and one ingestion can produce, and 0 for none.
MCExpectedSequences == 0..3
================================================================================
