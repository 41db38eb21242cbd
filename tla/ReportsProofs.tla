----------------------------- MODULE ReportsProofs -----------------------------
(***************************************************************************)
(* Theorems about compliance reports, for any set of reports and           *)
(* downloads and any number of crashes.                                    *)
(***************************************************************************)
EXTENDS Reports, TLAPS

\* The file a report was completed with is whole, or the cleaner removed it.
FileInv(r) ==
    \/ disk[r][output[r]] = "full"
    \/ disk[r][output[r]] = "none" /\ r \in expired

\* What the row, the files and the goroutine of a report say of each other.
ReportInv(r) ==
    /\ gpc[r] # "idle" => status[r] \in {"pending", "generating"}
    /\ gpc[r] = "complete" => disk[r][output[r]] = "full"
    /\ r \in expired => status[r] # "absent"
    /\ path[r] = IF status[r] = "completed" THEN output[r] ELSE "null"
    /\ status[r] \in {"completed", "cleaned"} => FileInv(r)
    /\ status[r] = "cleaned" => disk[r][output[r]] = "none"

\* The cleaner acts on expired, completed reports, and marks one whose file is
\* gone.
CleanerInv ==
    /\ old \subseteq expired
    /\ \A r \in old : status[r] = "completed"
    /\ cpc = "mark" => /\ current \in expired \ old
                       /\ status[current] = "completed"
                       /\ disk[current][output[current]] = "none"

\* A download past the check of the status holds the name of the report's file,
\* whatever the cleaner did since.
DownloadInv(q) ==
    dpc[q] \in {"stat", "serve"} =>
        /\ status[wanted[q]] \in {"completed", "cleaned"}
        /\ from[q] = output[wanted[q]]

\* The inductive invariant.
ReportsInv ==
    /\ ReportTypeOK
    /\ \A r \in Reports : ReportInv(r)
    /\ CleanerInv
    /\ \A q \in Downloads : DownloadInv(q)
    /\ ServedIsComplete
    /\ OnlyExpiredIsMissing

--------------------------------------------------------------------------------
(* What each actor may change, and what that means for the others.         *)

\* The step of one goroutine on a report that is neither completed nor cleaned
\* before it leaves the cleaner and the downloads what they rely on.
LEMMA OthersUntouched ==
    ASSUME ReportsInv, NEW r \in Reports,
           status[r] \notin {"completed", "cleaned"},
           UNCHANGED OtherVars,
           \A p \in Reports \ {r} : /\ status'[p] = status[p]
                                    /\ output'[p] = output[p]
                                    /\ disk'[p] = disk[p]
    PROVE  /\ CleanerInv'
           /\ \A q \in Downloads : DownloadInv(q)'
           /\ ServedIsComplete' /\ OnlyExpiredIsMissing'
<1> USE DEF ReportsInv, OtherVars, cleanVars, loadVars
<1>1. CleanerInv'
    BY DEF CleanerInv, ReportTypeOK
<1>2. ASSUME NEW q \in Downloads PROVE DownloadInv(q)'
  <2>1. wanted[q] \in Reports
    BY DEF ReportTypeOK
  <2> QED BY <2>1 DEF DownloadInv
<1>3. ServedIsComplete' /\ OnlyExpiredIsMissing'
    BY DEF ServedIsComplete, OnlyExpiredIsMissing
<1> QED BY <1>1, <1>2, <1>3

\* Nor does it matter to another report.
LEMMA OtherReport ==
    ASSUME NEW p \in Reports, ReportInv(p),
           gpc'[p] = gpc[p], status'[p] = status[p], path'[p] = path[p],
           output'[p] = output[p], disk'[p] = disk[p],
           p \in expired' <=> p \in expired
    PROVE  ReportInv(p)'
    BY DEF ReportInv, FileInv

\* A whole step of a generator, from what it does to its own report.
LEMMA GeneratorStep ==
    ASSUME ReportsInv, ReportTypeOK', NEW r \in Reports,
           status[r] \notin {"completed", "cleaned"},
           UNCHANGED OtherVars,
           \A p \in Reports \ {r} : /\ status'[p] = status[p]
                                    /\ output'[p] = output[p]
                                    /\ disk'[p] = disk[p]
                                    /\ gpc'[p] = gpc[p]
                                    /\ path'[p] = path[p],
           ReportInv(r)'
    PROVE  ReportsInv'
<1>1. ASSUME NEW p \in Reports PROVE ReportInv(p)'
  <2>1. CASE p = r
    BY <2>1
  <2>2. CASE p # r
    BY <2>2, OtherReport DEF ReportsInv, OtherVars
  <2> QED BY <2>1, <2>2
<1> QED BY <1>1, OthersUntouched DEF ReportsInv

\* The writes of the generator, on the report they are about and on the others.
LEMMA WriteEffect ==
    ASSUME ReportTypeOK, NEW r \in Reports, NEW ext \in Exts, NEW c \in Contents,
           Write(r, ext, c)
    PROVE  /\ disk' \in [Reports -> [Exts -> Contents]]
           /\ disk'[r][ext] = c
           /\ \A x \in Exts \ {ext} : disk'[r][x] = disk[r][x]
           /\ \A p \in Reports \ {r} : disk'[p] = disk[p]
    BY DEF Write, ReportTypeOK

--------------------------------------------------------------------------------
\* A step keeps every variable's type.
LEMMA ReportTypeStep == ReportsInv /\ [ReportNext]_reportVars => ReportTypeOK'
<1> SUFFICES ASSUME ReportsInv, [ReportNext]_reportVars PROVE ReportTypeOK'
    OBVIOUS
<1> USE DEF ReportsInv, OtherVars, genVars, cleanVars, loadVars, Goto, SetStatus
<1>1. ASSUME NEW r \in Reports, CreateReport(r) PROVE ReportTypeOK'
    BY <1>1 DEF CreateReport, ReportTypeOK, ReportStatuses
<1>2. ASSUME NEW r \in Reports, MarkGenerating(r) PROVE ReportTypeOK'
  <2>1. status' \in [Reports -> ReportStatuses \cup {"absent"}]
    BY <1>2 DEF MarkGenerating, ReportTypeOK, ReportStatuses
  <2>2. gpc' = [gpc EXCEPT ![r] = "gather"] \/ gpc' = [gpc EXCEPT ![r] = "fail"]
    BY <1>2 DEF MarkGenerating
  <2> QED BY <1>2, <2>1, <2>2 DEF MarkGenerating, ReportTypeOK
<1>3. ASSUME NEW r \in Reports, Gather(r) PROVE ReportTypeOK'
    BY <1>3 DEF Gather, ReportTypeOK
<1>4. ASSUME NEW r \in Reports, saveOutput(r) PROVE ReportTypeOK'
  <2>1. disk' \in [Reports -> [Exts -> Contents]]
    BY <1>4, WriteEffect DEF saveOutput, ReportTypeOK, Exts, Contents
  <2> QED BY <1>4, <2>1 DEF saveOutput, ReportTypeOK
<1>5. ASSUME NEW r \in Reports, saveAsPDF(r) PROVE ReportTypeOK'
  <2>1. disk' \in [Reports -> [Exts -> Contents]]
    BY <1>5, WriteEffect DEF saveAsPDF, ReportTypeOK, Exts, Contents
  <2> QED BY <1>5, <2>1 DEF saveAsPDF, ReportTypeOK, Exts
<1>6. ASSUME NEW r \in Reports, saveReportFile(r) PROVE ReportTypeOK'
  <2>1. disk' \in [Reports -> [Exts -> Contents]]
    BY <1>6, WriteEffect DEF saveReportFile, ReportTypeOK, Exts, Contents
  <2> QED BY <1>6, <2>1 DEF saveReportFile, ReportTypeOK, Exts
<1>7. ASSUME NEW r \in Reports, Complete(r) PROVE ReportTypeOK'
    BY <1>7 DEF Complete, ReportTypeOK, ReportStatuses
<1>8. ASSUME NEW r \in Reports, failReport(r) PROVE ReportTypeOK'
    BY <1>8 DEF failReport, ReportTypeOK, ReportStatuses
<1>9. ASSUME NEW r \in Reports, Expire(r) PROVE ReportTypeOK'
    BY <1>9 DEF Expire, ReportTypeOK
<1>10. ASSUME NEW r \in Reports, RemoveFile(r) PROVE ReportTypeOK'
  <2>1. path[r] \in Exts
    BY <1>10 DEF RemoveFile, CleanerInv, ReportInv, ReportTypeOK
  <2>2. disk' \in [Reports -> [Exts -> Contents]]
    BY <1>10, <2>1, WriteEffect DEF RemoveFile, ReportTypeOK, Contents
  <2> QED BY <1>10, <2>2 DEF RemoveFile, ReportTypeOK
<1>11. ASSUME NEW r \in Reports, MarkCleaned(r) PROVE ReportTypeOK'
    BY <1>11 DEF MarkCleaned, ReportTypeOK, ReportStatuses
<1>12. ASSUME NEW r \in Reports, MarkFails(r) PROVE ReportTypeOK'
    BY <1>12 DEF MarkFails, ReportTypeOK
<1>13. CASE Cleanup
    BY <1>13 DEF Cleanup, ListOlderThan, ReportTypeOK
<1>14. CASE CleanupEnds
    BY <1>14 DEF CleanupEnds, ReportTypeOK
<1>15. ASSUME NEW q \in Downloads, Download(q) PROVE ReportTypeOK'
    BY <1>15 DEF Download, LoadStep, ReportTypeOK
<1>16. ASSUME NEW q \in Downloads, StatFile(q) PROVE ReportTypeOK'
    BY <1>16 DEF StatFile, LoadStep, ReportTypeOK, Contents
<1>17. ASSUME NEW q \in Downloads, ServeFile(q) PROVE ReportTypeOK'
  <2>1. disk[wanted[q]][from[q]] \in Contents
    BY DEF ReportTypeOK
  <2> QED BY <1>17, <2>1 DEF ServeFile, LoadStep, ReportTypeOK
<1>18. CASE Crash
    BY <1>18, CrashAssumption DEF Crash, ReportTypeOK
<1>19. CASE UNCHANGED reportVars
    BY <1>19 DEF reportVars, ReportTypeOK
<1> QED BY <1>1, <1>2, <1>3, <1>4, <1>5, <1>6, <1>7, <1>8, <1>9, <1>10, <1>11,
          <1>12, <1>13, <1>14, <1>15, <1>16, <1>17, <1>18, <1>19
        DEF ReportNext, Generate

--------------------------------------------------------------------------------
\* Every step keeps the inductive invariant.
LEMMA ReportsInvStep == ReportsInv /\ [ReportNext]_reportVars => ReportsInv'
<1> SUFFICES ASSUME ReportsInv, [ReportNext]_reportVars PROVE ReportsInv'
    OBVIOUS
<1>0. ReportTypeOK' /\ ReportTypeOK
    BY ReportTypeStep DEF ReportsInv
<1>g. ASSUME NEW r \in Reports, gpc[r] # "idle"
      PROVE  status[r] \in {"pending", "generating"} /\ path[r] = "null"
    BY <1>g DEF ReportsInv, ReportInv
<1>1. ASSUME NEW r \in Reports, CreateReport(r) PROVE ReportsInv'
  <2>1. ReportInv(r) /\ status[r] = "absent" /\ r \notin expired
    BY <1>1 DEF ReportsInv, ReportInv, CreateReport
  <2>2. /\ status'[r] = "pending" /\ gpc'[r] \in {"mark", "idle"}
        /\ UNCHANGED <<path, disk, output, OtherVars>>
        /\ \A p \in Reports \ {r} : status'[p] = status[p] /\ gpc'[p] = gpc[p]
    BY <1>0, <1>1 DEF CreateReport, SetStatus, Goto, ReportTypeOK
  <2>3. ReportInv(r)'
    BY <2>1, <2>2 DEF ReportInv, FileInv, OtherVars
  <2> QED BY <1>0, <2>1, <2>2, <2>3, GeneratorStep
<1>2. ASSUME NEW r \in Reports, MarkGenerating(r) PROVE ReportsInv'
  <2>1. status[r] \in {"pending", "generating"} /\ path[r] = "null"
    BY <1>2, <1>g DEF MarkGenerating
  <2>2. /\ status'[r] \in {status[r], "generating"}
        /\ gpc'[r] \in {"gather", "fail"}
        /\ UNCHANGED <<path, disk, output, OtherVars>>
        /\ \A p \in Reports \ {r} : status'[p] = status[p] /\ gpc'[p] = gpc[p]
    BY <1>0, <1>2 DEF MarkGenerating, SetStatus, Goto, ReportTypeOK
  <2>3. ReportInv(r)'
    BY <2>1, <2>2 DEF ReportInv, FileInv, OtherVars
  <2> QED BY <1>0, <2>1, <2>2, <2>3, GeneratorStep
<1>3. ASSUME NEW r \in Reports, Gather(r) PROVE ReportsInv'
  <2>1. status[r] \in {"pending", "generating"} /\ path[r] = "null"
    BY <1>3, <1>g DEF Gather
  <2>2. /\ gpc'[r] \in {"save", "fail"}
        /\ UNCHANGED <<status, path, disk, output, OtherVars>>
        /\ \A p \in Reports \ {r} : gpc'[p] = gpc[p]
    BY <1>0, <1>3 DEF Gather, Goto, ReportTypeOK
  <2>3. ReportInv(r)'
    BY <2>1, <2>2 DEF ReportInv, FileInv, OtherVars
  <2> QED BY <1>0, <2>1, <2>2, <2>3, GeneratorStep
<1>4. ASSUME NEW r \in Reports, saveOutput(r) PROVE ReportsInv'
  <2>1. status[r] \in {"pending", "generating"} /\ path[r] = "null"
    BY <1>4, <1>g DEF saveOutput
  <2>2. /\ gpc'[r] \in {"html", "convert", "fail"}
        /\ UNCHANGED <<status, path, output, OtherVars>>
        /\ \A p \in Reports \ {r} : gpc'[p] = gpc[p]
    BY <1>0, <1>4 DEF saveOutput, Goto, ReportTypeOK
  <2>3. \A p \in Reports \ {r} : disk'[p] = disk[p]
    BY <1>0, <1>4, WriteEffect DEF saveOutput, Exts, Contents
  <2>4. ReportInv(r)'
    BY <2>1, <2>2 DEF ReportInv, FileInv, OtherVars
  <2> QED BY <1>0, <2>1, <2>2, <2>3, <2>4, GeneratorStep
<1>5. ASSUME NEW r \in Reports, saveAsPDF(r) PROVE ReportsInv'
  <2>1. status[r] \in {"pending", "generating"} /\ path[r] = "null"
    BY <1>5, <1>g DEF saveAsPDF
  <2>2. /\ gpc'[r] \in {"complete", "fail", "html"}
        /\ UNCHANGED <<status, path, OtherVars>>
        /\ \A p \in Reports \ {r} : gpc'[p] = gpc[p] /\ output'[p] = output[p]
    BY <1>0, <1>5 DEF saveAsPDF, Goto, ReportTypeOK
  <2>3. \A p \in Reports \ {r} : disk'[p] = disk[p]
    BY <1>0, <1>5, WriteEffect DEF saveAsPDF, Exts, Contents
  <2>4. gpc'[r] = "complete" => disk'[r][output'[r]] = "full"
    BY <1>0, <1>5, WriteEffect
       DEF saveAsPDF, Goto, ReportTypeOK, Exts, Contents
  <2>5. ReportInv(r)'
    BY <2>1, <2>2, <2>4 DEF ReportInv, FileInv, OtherVars
  <2> QED BY <1>0, <2>1, <2>2, <2>3, <2>5, GeneratorStep
<1>6. ASSUME NEW r \in Reports, saveReportFile(r) PROVE ReportsInv'
  <2>1. status[r] \in {"pending", "generating"} /\ path[r] = "null"
    BY <1>6, <1>g DEF saveReportFile
  <2>2. /\ gpc'[r] \in {"complete", "fail"}
        /\ UNCHANGED <<status, path, OtherVars>>
        /\ \A p \in Reports \ {r} : gpc'[p] = gpc[p] /\ output'[p] = output[p]
    BY <1>0, <1>6 DEF saveReportFile, Goto, ReportTypeOK
  <2>3. \A p \in Reports \ {r} : disk'[p] = disk[p]
    BY <1>0, <1>6, WriteEffect DEF saveReportFile, Exts, Contents
  <2>4. gpc'[r] = "complete" => disk'[r][output'[r]] = "full"
    BY <1>0, <1>6, WriteEffect
       DEF saveReportFile, Goto, ReportTypeOK, Exts, Contents
  <2>5. ReportInv(r)'
    BY <2>1, <2>2, <2>4 DEF ReportInv, FileInv, OtherVars
  <2> QED BY <1>0, <2>1, <2>2, <2>3, <2>5, GeneratorStep
<1>7. ASSUME NEW r \in Reports, Complete(r) PROVE ReportsInv'
  <2>1. /\ status[r] \in {"pending", "generating"} /\ path[r] = "null"
        /\ disk[r][output[r]] = "full"
    BY <1>7, <1>g DEF Complete, ReportsInv, ReportInv
  <2>2. /\ \/ status'[r] = "completed" /\ path'[r] = output[r]
           \/ status'[r] = status[r] /\ path'[r] = path[r]
        /\ gpc'[r] = "idle"
        /\ UNCHANGED <<disk, output, OtherVars>>
        /\ \A p \in Reports \ {r} : /\ status'[p] = status[p]
                                     /\ path'[p] = path[p] /\ gpc'[p] = gpc[p]
    BY <1>0, <1>7 DEF Complete, SetStatus, Goto, ReportTypeOK
  <2>3. ReportInv(r)'
    BY <2>1, <2>2 DEF ReportInv, FileInv, OtherVars
  <2> QED BY <1>0, <2>1, <2>2, <2>3, GeneratorStep
<1>8. ASSUME NEW r \in Reports, failReport(r) PROVE ReportsInv'
  <2>1. status[r] \in {"pending", "generating"} /\ path[r] = "null"
    BY <1>8, <1>g DEF failReport
  <2>2. /\ status'[r] \in {status[r], "failed"}
        /\ gpc'[r] = "idle"
        /\ UNCHANGED <<path, disk, output, OtherVars>>
        /\ \A p \in Reports \ {r} : status'[p] = status[p] /\ gpc'[p] = gpc[p]
    BY <1>0, <1>8 DEF failReport, SetStatus, Goto, ReportTypeOK
  <2>3. ReportInv(r)'
    BY <2>1, <2>2 DEF ReportInv, FileInv, OtherVars
  <2> QED BY <1>0, <2>1, <2>2, <2>3, GeneratorStep
<1>9. ASSUME NEW r \in Reports, Expire(r) PROVE ReportsInv'
  <2> USE <1>9 DEF Expire, genVars, cleanVars, loadVars
  <2>1. ASSUME NEW p \in Reports PROVE ReportInv(p)'
    BY DEF ReportsInv, ReportInv, FileInv
  <2>2. CleanerInv' /\ \A q \in Downloads : DownloadInv(q)'
    BY DEF ReportsInv, CleanerInv, DownloadInv
  <2>3. ServedIsComplete' /\ OnlyExpiredIsMissing'
    BY DEF ReportsInv, ServedIsComplete, OnlyExpiredIsMissing
  <2> QED BY <1>0, <2>1, <2>2, <2>3 DEF ReportsInv
<1>10. ASSUME NEW r \in Reports, RemoveFile(r) PROVE ReportsInv'
  <2>1. /\ r \in expired /\ status[r] = "completed" /\ path[r] = output[r]
        /\ path[r] \in Exts /\ ReportInv(r)
    BY <1>0, <1>10 DEF RemoveFile, ReportsInv, CleanerInv, ReportInv, ReportTypeOK
  <2>2. /\ UNCHANGED <<status, path, gpc, output, expired, dpc, wanted, from,
                       answer>>
        /\ old' = old \ {r} /\ current' = r
    BY <1>10 DEF RemoveFile, genVars, loadVars
  <2>3. /\ \A p \in Reports \ {r} : disk'[p] = disk[p]
        /\ disk'[r][output[r]] \in {"none", disk[r][output[r]]}
        /\ cpc' = "mark" => disk'[r][output[r]] = "none"
    <3>1. CASE Write(r, path[r], "none")
      BY <1>0, <2>1, <3>1, WriteEffect DEF Contents
    <3>2. CASE UNCHANGED <<disk, cpc>>
      BY <1>10, <3>2 DEF RemoveFile
    <3> QED BY <1>10, <3>1, <3>2 DEF RemoveFile
  <2>4. ASSUME NEW p \in Reports PROVE ReportInv(p)'
    <3>1. CASE p # r
      BY <2>2, <2>3, <3>1, OtherReport DEF ReportsInv
    <3>2. CASE p = r
      BY <2>1, <2>2, <2>3, <3>2 DEF ReportInv, FileInv
    <3> QED BY <3>1, <3>2
  <2>5. CleanerInv'
    BY <2>1, <2>2, <2>3 DEF ReportsInv, CleanerInv
  <2>6. \A q \in Downloads : DownloadInv(q)'
    BY <2>2 DEF ReportsInv, DownloadInv
  <2>7. ServedIsComplete' /\ OnlyExpiredIsMissing'
    BY <2>2 DEF ReportsInv, ServedIsComplete, OnlyExpiredIsMissing
  <2> QED BY <1>0, <2>4, <2>5, <2>6, <2>7 DEF ReportsInv
<1>11. ASSUME NEW r \in Reports, MarkCleaned(r) PROVE ReportsInv'
  <2>1. /\ r \in expired \ old /\ status[r] = "completed"
        /\ disk[r][output[r]] = "none" /\ ReportInv(r)
    BY <1>11 DEF MarkCleaned, ReportsInv, CleanerInv
  <2>2. /\ UNCHANGED <<disk, gpc, output, expired, old, dpc, wanted, from, answer>>
        /\ cpc' = "remove" /\ status'[r] = "cleaned" /\ path'[r] = "null"
        /\ \A p \in Reports \ {r} : status'[p] = status[p] /\ path'[p] = path[p]
    BY <1>0, <1>11 DEF MarkCleaned, SetStatus, genVars, loadVars, ReportTypeOK
  <2>3. ASSUME NEW p \in Reports PROVE ReportInv(p)'
    <3>1. CASE p # r
      BY <2>2, <3>1, OtherReport DEF ReportsInv
    <3>2. CASE p = r
      BY <2>1, <2>2, <3>2 DEF ReportInv, FileInv
    <3> QED BY <3>1, <3>2
  <2>4. CleanerInv'
    BY <1>0, <2>1, <2>2 DEF ReportsInv, CleanerInv, ReportTypeOK
  <2>5. ASSUME NEW q \in Downloads PROVE DownloadInv(q)'
    <3>1. wanted[q] \in Reports /\ DownloadInv(q)
      BY <1>0 DEF ReportTypeOK, ReportsInv
    <3> QED BY <2>2, <3>1 DEF DownloadInv
  <2>6. ServedIsComplete' /\ OnlyExpiredIsMissing'
    BY <2>2 DEF ReportsInv, ServedIsComplete, OnlyExpiredIsMissing
  <2> QED BY <1>0, <2>3, <2>4, <2>5, <2>6 DEF ReportsInv
<1>12. ASSUME /\ UNCHANGED <<status, path, disk, gpc, output, expired, dpc, wanted,
                             from, answer>>
              /\ CleanerInv'
       PROVE  ReportsInv'
  <2>1. ASSUME NEW p \in Reports PROVE ReportInv(p)'
    BY <1>12, OtherReport DEF ReportsInv
  <2>2. /\ \A q \in Downloads : DownloadInv(q)'
        /\ ServedIsComplete' /\ OnlyExpiredIsMissing'
    BY <1>12 DEF ReportsInv, DownloadInv, ServedIsComplete, OnlyExpiredIsMissing
  <2> QED BY <1>0, <1>12, <2>1, <2>2 DEF ReportsInv
<1>13. ASSUME NEW r \in Reports, MarkFails(r) PROVE ReportsInv'
    BY <1>12, <1>13 DEF MarkFails, genVars, loadVars, ReportsInv, CleanerInv
<1>14. CASE Cleanup
    BY <1>12, <1>14 DEF Cleanup, ListOlderThan, genVars, loadVars, ReportsInv,
       CleanerInv
<1>15. CASE CleanupEnds
    BY <1>12, <1>15 DEF CleanupEnds, genVars, loadVars, ReportsInv, CleanerInv
<1>16. ASSUME NEW q \in Downloads, NEW label, NEW ans, LoadStep(q, label, ans),
              DownloadInv(q)',
              \A p \in Downloads \ {q} : from'[p] = from[p],
              ans # "partial", ans = "none" => wanted[q] \in expired
       PROVE  ReportsInv'
  <2>1. UNCHANGED <<status, path, disk, gpc, output, expired, cpc, current, old,
                    wanted>>
    BY <1>16 DEF LoadStep, genVars, cleanVars
  <2>2. /\ answer'[q] = ans
        /\ \A p \in Downloads \ {q} : dpc'[p] = dpc[p] /\ answer'[p] = answer[p]
    BY <1>0, <1>16 DEF LoadStep, ReportTypeOK
  <2>3. ASSUME NEW p \in Reports PROVE ReportInv(p)'
    BY <2>1, OtherReport DEF ReportsInv
  <2>4. CleanerInv'
    BY <2>1 DEF ReportsInv, CleanerInv
  <2>5. ASSUME NEW p \in Downloads PROVE DownloadInv(p)'
    BY <1>16, <2>1, <2>2 DEF ReportsInv, DownloadInv
  <2>6. ServedIsComplete' /\ OnlyExpiredIsMissing'
    BY <1>16, <2>1, <2>2 DEF ReportsInv, ServedIsComplete, OnlyExpiredIsMissing
  <2> QED BY <1>0, <2>3, <2>4, <2>5, <2>6 DEF ReportsInv
<1>17. ASSUME NEW q \in Downloads, Download(q) PROVE ReportsInv'
  <2>1. wanted[q] \in Reports /\ ReportInv(wanted[q])
    BY <1>0 DEF ReportsInv, ReportTypeOK
  <2>2. CASE /\ status[wanted[q]] = "completed"
             /\ from' = [from EXCEPT ![q] = path[wanted[q]]]
             /\ LoadStep(q, "stat", "refused")
    <3>1. path[wanted[q]] = output[wanted[q]]
      BY <2>1, <2>2 DEF ReportInv
    <3>2. /\ from'[q] = output[wanted[q]]
          /\ \A p \in Downloads \ {q} : from'[p] = from[p]
      BY <1>0, <2>2, <3>1 DEF ReportTypeOK
    <3>3. UNCHANGED <<status, output, wanted>>
      BY <2>2 DEF LoadStep, genVars
    <3>4. DownloadInv(q)'
      BY <2>2, <3>2, <3>3 DEF DownloadInv
    <3> QED BY <1>16, <2>2, <3>2, <3>4
  <2>3. CASE UNCHANGED from /\ LoadStep(q, "done", "refused")
    <3>1. DownloadInv(q)'
      BY <1>0, <2>3 DEF DownloadInv, LoadStep, ReportTypeOK
    <3> QED BY <1>16, <2>3, <3>1
  <2> QED BY <1>17, <2>2, <2>3 DEF Download
<1>18. ASSUME NEW q \in Downloads, dpc[q] \in {"stat", "serve"}
       PROVE  LET c == disk[wanted[q]][from[q]]
              IN  c = "full" \/ (c = "none" /\ wanted[q] \in expired)
  <2>1. wanted[q] \in Reports /\ ReportInv(wanted[q]) /\ DownloadInv(q)
    BY <1>0 DEF ReportsInv, ReportTypeOK
  <2> QED BY <1>18, <2>1 DEF ReportInv, FileInv, DownloadInv
<1>19. ASSUME NEW q \in Downloads, StatFile(q) PROVE ReportsInv'
  <2>1. CASE /\ disk[wanted[q]][from[q]] = "none" /\ LoadStep(q, "done", "none")
             /\ UNCHANGED from
    <3>1. DownloadInv(q)'
      BY <1>0, <2>1 DEF DownloadInv, LoadStep, ReportTypeOK
    <3>2. wanted[q] \in expired
      BY <1>18, <1>19, <2>1 DEF StatFile
    <3> QED BY <1>16, <2>1, <3>1, <3>2
  <2>2. CASE LoadStep(q, "serve", "refused") /\ UNCHANGED from
    <3>1. DownloadInv(q)
      BY DEF ReportsInv
    <3>2. DownloadInv(q)'
      BY <1>19, <2>2, <3>1 DEF StatFile, DownloadInv, LoadStep, genVars
    <3> QED BY <1>16, <2>2, <3>2
  <2> QED BY <1>19, <2>1, <2>2 DEF StatFile
<1>20. ASSUME NEW q \in Downloads, ServeFile(q) PROVE ReportsInv'
  <2>1. DownloadInv(q)'
    BY <1>0, <1>20 DEF ServeFile, DownloadInv, LoadStep, ReportTypeOK
  <2>2. /\ LoadStep(q, "done", disk[wanted[q]][from[q]])
        /\ UNCHANGED from /\ dpc[q] = "serve"
    BY <1>20 DEF ServeFile
  <2> QED BY <1>16, <1>18, <2>1, <2>2
<1>21. CASE Crash
  <2> USE <1>21 DEF Crash
  <2>1. ASSUME NEW p \in Reports PROVE ReportInv(p)'
    BY DEF ReportsInv, ReportInv, FileInv
  <2>2. CleanerInv' /\ \A q \in Downloads : DownloadInv(q)'
    BY DEF CleanerInv, DownloadInv
  <2>3. ServedIsComplete' /\ OnlyExpiredIsMissing'
    BY DEF ReportsInv, ServedIsComplete, OnlyExpiredIsMissing
  <2> QED BY <1>0, <2>1, <2>2, <2>3 DEF ReportsInv
<1>22. CASE UNCHANGED reportVars
    BY <1>12, <1>22 DEF reportVars, ReportsInv, CleanerInv
<1> QED BY <1>1, <1>2, <1>3, <1>4, <1>5, <1>6, <1>7, <1>8, <1>9, <1>10, <1>11,
          <1>13, <1>14, <1>15, <1>17, <1>19, <1>20, <1>21, <1>22
        DEF ReportNext, Generate

\* No report, no file, nobody at work: the inductive invariant holds.
LEMMA ReportsInvInit == ReportInit => ReportsInv
<1> SUFFICES ASSUME ReportInit PROVE ReportsInv
    OBVIOUS
<1>1. ReportTypeOK
    BY CrashAssumption DEF ReportInit, ReportTypeOK, ReportStatuses, Exts, Contents
<1> QED BY <1>1 DEF ReportInit, ReportsInv, ReportInv, FileInv, CleanerInv,
          DownloadInv, ServedIsComplete, OnlyExpiredIsMissing

\* The inductive invariant holds throughout.
LEMMA ReportsInvHolds == ReportSpec => []ReportsInv
    BY ReportsInvInit, ReportsInvStep, PTL DEF ReportSpec

--------------------------------------------------------------------------------
\* Every variable of the generator, the cleaner and the downloads keeps its type.
THEOREM ReportTypeCorrect == ReportSpec => []ReportTypeOK
<1>1. ReportsInv => ReportTypeOK
    BY DEF ReportsInv
<1> QED BY <1>1, ReportsInvHolds, PTL

\* http.ServeFile never delivers a part of a report: the row names only the file
\* that was whole when the row was completed, and nobody writes to it again.
THEOREM ServedIsCompleteHolds == ReportSpec => []ServedIsComplete
<1>1. ReportsInv => ServedIsComplete
    BY DEF ReportsInv
<1> QED BY <1>1, ReportsInvHolds, PTL

\* A download that passed the check of the status misses the file only of a
\* report whose retention is over.
THEOREM OnlyExpiredIsMissingHolds == ReportSpec => []OnlyExpiredIsMissing
<1>1. ReportsInv => OnlyExpiredIsMissing
    BY DEF ReportsInv
<1> QED BY <1>1, ReportsInvHolds, PTL

\* cleanupReport marks a report as cleaned only when the file it was completed
\* with is gone, through failed removals, failed updates and restarts.
THEOREM CleanedLeavesNoFileHolds == ReportSpec => []CleanedLeavesNoFile
<1>1. ReportsInv => CleanedLeavesNoFile
    BY DEF ReportsInv, ReportInv, CleanedLeavesNoFile
<1> QED BY <1>1, ReportsInvHolds, PTL

\* No UpdateStatus takes an outcome back: the generator writes only to a report
\* that has none, the cleaner only to a completed one.
THEOREM OutcomeIsFinalHolds == ReportSpec => OutcomeIsFinal
<1> DEFINE Kept(r) ==
        /\ status[r] = "completed" => status'[r] \in {"completed", "cleaned"}
        /\ status[r] \in {"failed", "cleaned"} => status'[r] = status[r]
<1>1. ASSUME ReportsInv, [ReportNext]_reportVars
      PROVE  [\A r \in Reports : Kept(r)]_reportVars
  <2> SUFFICES ASSUME NEW r \in Reports PROVE Kept(r)
    OBVIOUS
  <2>1. CASE status'[r] = status[r]
    BY <2>1
  <2>2. CASE status'[r] # status[r]
    <3>1. PICK p \in Reports :
             CreateReport(p) \/ Generate(p) \/ MarkCleaned(p)
      BY <1>1, <2>2 DEF ReportNext, Expire, RemoveFile, MarkFails, Cleanup,
         CleanupEnds, Download, StatFile, ServeFile, LoadStep, Crash, reportVars
    <3>2. CASE CreateReport(p)
      BY <1>1, <2>2, <3>2 DEF CreateReport, SetStatus, ReportsInv, ReportTypeOK
    <3>3. CASE Generate(p)
      <4>1. gpc[p] # "idle"
        BY <3>3 DEF Generate, MarkGenerating, Gather, saveOutput, saveAsPDF,
           saveReportFile, Complete, failReport
      <4>2. status[p] \in {"pending", "generating"}
        BY <1>1, <4>1 DEF ReportsInv, ReportInv
      <4>3. \/ status' = status
            \/ \E s : status' = [status EXCEPT ![p] = s]
        BY <3>3 DEF Generate, MarkGenerating, Gather, saveOutput, saveAsPDF,
           saveReportFile, Complete, failReport, SetStatus
      <4> QED BY <1>1, <2>2, <4>2, <4>3 DEF ReportsInv, ReportTypeOK
    <3>4. CASE MarkCleaned(p)
      BY <1>1, <2>2, <3>4
         DEF MarkCleaned, SetStatus, ReportsInv, CleanerInv, ReportTypeOK
    <3> QED BY <3>1, <3>2, <3>3, <3>4
  <2> QED BY <2>1, <2>2
<1> QED BY <1>1, ReportsInvHolds, PTL DEF ReportSpec, OutcomeIsFinal
================================================================================
