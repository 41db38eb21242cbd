SPECIFICATION ReportFairSpec
CONSTANTS
    a = a
    b = b
    q1 = q1
    Reports = {a, b}
    Downloads = {q1}
    MaxCrashes = 1
\* Nothing is left to do once every report is cleaned, failed or abandoned.
CHECK_DEADLOCK FALSE
INVARIANTS
    ReportTypeOK
    ServedIsComplete
    OnlyExpiredIsMissing
    CleanedLeavesNoFile
PROPERTIES
    OutcomeIsFinal
    ExpiredIsCleaned
