-------------------------------- MODULE Reports --------------------------------
(***************************************************************************)
(* Compliance reports: the goroutine that generates each one, the cleaner  *)
(* that deletes files after the retention period, and downloads.  They     *)
(* share the reports table and the directory of files, which no            *)
(* transaction keeps together: every statement and every operation on a    *)
(* file is a step of its own and may fail, and the process may die between *)
(* any two.  What a report says is left out; a file is partial until all   *)
(* of it is written.                                                       *)
(***************************************************************************)
EXTENDS Integers

CONSTANTS
    Reports,    \* the reports
    Downloads,  \* the download requests; each is served once
    MaxCrashes  \* bound: restarts of the process

ASSUME CrashAssumption == MaxCrashes \in Nat

VARIABLES
    status,     \* the status column of each report, "absent" before it exists
    path,       \* its file_path column: which of its two files, or "null"
    disk,       \* the contents of its files
    gpc,        \* where its Generate is
    output,     \* the file Generate has written
    expired,    \* the reports created longer ago than the retention period
    cpc,        \* where the cleaner is
    current,    \* the report it is cleaning
    old,        \* the reports it listed and has still to clean
    dpc,        \* where each download is
    wanted,     \* the report it asks for
    from,       \* the file_path it read
    answer,     \* what it was answered
    crashes     \* restarts so far

genVars == <<gpc, output>>
cleanVars == <<cpc, current, old>>
loadVars == <<dpc, wanted, from, answer>>
reportVars == <<status, path, disk, gpc, output, expired, cpc, current, old,
                dpc, wanted, from, answer, crashes>>

Exts == {".pdf", ".html"}
Contents == {"none", "partial", "full"}
ReportStatuses == {"pending", "generating", "completed", "failed", "cleaned"}

\* Every variable has its type.
ReportTypeOK ==
    /\ status \in [Reports -> ReportStatuses \cup {"absent"}]
    /\ path \in [Reports -> Exts \cup {"null"}]
    /\ disk \in [Reports -> [Exts -> Contents]]
    /\ gpc \in [Reports -> {"idle", "mark", "gather", "save", "convert", "html",
                            "complete", "fail"}]
    /\ output \in [Reports -> Exts]
    /\ expired \subseteq Reports
    /\ cpc \in {"idle", "remove", "mark"}
    /\ current \in Reports
    /\ old \subseteq Reports
    /\ dpc \in [Downloads -> {"idle", "stat", "serve", "done"}]
    /\ wanted \in [Downloads -> Reports]
    /\ from \in [Downloads -> Exts]
    /\ answer \in [Downloads -> Contents \cup {"refused"}]
    /\ crashes \in 0..MaxCrashes

ReportInit ==
    /\ status = [r \in Reports |-> "absent"]
    /\ path = [r \in Reports |-> "null"]
    /\ disk = [r \in Reports |-> [x \in Exts |-> "none"]]
    /\ gpc = [r \in Reports |-> "idle"]
    /\ output = [r \in Reports |-> ".html"]
    /\ expired = {}
    /\ cpc = "idle"
    /\ current \in Reports
    /\ old = {}
    /\ dpc = [q \in Downloads |-> "idle"]
    /\ wanted \in [Downloads -> Reports]
    /\ from = [q \in Downloads |-> ".html"]
    /\ answer = [q \in Downloads |-> "refused"]
    /\ crashes = 0

--------------------------------------------------------------------------------
(* The generator.                                                          *)

Goto(r, label) == gpc' = [gpc EXCEPT ![r] = label]
SetStatus(r, s) == status' = [status EXCEPT ![r] = s]
Write(r, ext, content) == disk' = [disk EXCEPT ![r][ext] = content]

\* What no step of a generator touches.
OtherVars == <<expired, cleanVars, loadVars, crashes>>

\* The handler's insert, after which it starts Generate - unless the insert is
\* reported as failed, although the row is there.
CreateReport(r) ==
    /\ status[r] = "absent"
    /\ SetStatus(r, "pending")
    /\ Goto(r, "mark") \/ Goto(r, "idle")
    /\ UNCHANGED <<path, disk, output, OtherVars>>

\* The first UpdateStatus; reported as failed, it may have taken effect.
MarkGenerating(r) ==
    /\ gpc[r] = "mark"
    /\ \/ SetStatus(r, "generating") /\ (Goto(r, "gather") \/ Goto(r, "fail"))
       \/ UNCHANGED status /\ Goto(r, "fail")
    /\ UNCHANGED <<path, disk, output, OtherVars>>

\* The date range, the queries, the statistics and the template.
Gather(r) ==
    /\ gpc[r] = "gather"
    /\ Goto(r, "save") \/ Goto(r, "fail")
    /\ UNCHANGED <<status, path, disk, output, OtherVars>>

\* Mutant: the placeholder counts as the report.
SaveOutputEarly(r) ==
    /\ gpc[r] = "save"
    /\ Write(r, ".pdf", "partial")
    /\ output' = [output EXCEPT ![r] = ".pdf"]
    /\ Goto(r, "complete")
    /\ UNCHANGED <<status, path, OtherVars>>

\* saveOutput: HTML if there is no converter, else an empty PDF to be filled.
saveOutput(r) ==
    /\ gpc[r] = "save"
    /\ \/ Goto(r, "html") /\ UNCHANGED disk
       \/ Write(r, ".pdf", "partial") /\ (Goto(r, "convert") \/ Goto(r, "fail"))
       \/ Goto(r, "fail") /\ UNCHANGED disk
    /\ UNCHANGED <<status, path, output, OtherVars>>

\* saveAsPDF after the converter ran: its PDF (unless Stat fails), or HTML, after
\* a Remove of the PDF whose own error is ignored: whatever a converter leaves
\* that reports a failure may then stay.
saveAsPDF(r) ==
    /\ gpc[r] = "convert"
    /\ \/ /\ Write(r, ".pdf", "full")
          /\ output' = [output EXCEPT ![r] = ".pdf"]
          /\ Goto(r, "complete") \/ Goto(r, "fail")
       \/ /\ \E content \in Contents : Write(r, ".pdf", content)
          /\ Goto(r, "html")
          /\ UNCHANGED output
    /\ UNCHANGED <<status, path, OtherVars>>

\* saveReportFile of the HTML; an error may leave a part of it behind.
saveReportFile(r) ==
    /\ gpc[r] = "html"
    /\ \/ Write(r, ".html", "full") /\ Goto(r, "complete")
       \/ (Write(r, ".html", "partial") \/ UNCHANGED disk) /\ Goto(r, "fail")
    /\ output' = [output EXCEPT ![r] = ".html"]
    /\ UNCHANGED <<status, path, OtherVars>>

\* Mutant: a failed update marks the report as failed.
CompleteOrFail(r) ==
    /\ gpc[r] = "complete"
    /\ \/ /\ SetStatus(r, "completed")
          /\ path' = [path EXCEPT ![r] = output[r]]
       \/ UNCHANGED <<status, path>>
    /\ Goto(r, "idle") \/ Goto(r, "fail")
    /\ UNCHANGED <<disk, output, OtherVars>>

\* The last UpdateStatus.  If it fails Generate ends all the same.
Complete(r) ==
    /\ gpc[r] = "complete"
    /\ \/ /\ SetStatus(r, "completed")
          /\ path' = [path EXCEPT ![r] = output[r]]
       \/ UNCHANGED <<status, path>>
    /\ Goto(r, "idle")
    /\ UNCHANGED <<disk, output, OtherVars>>

\* failReport; the error of its UpdateStatus is ignored.
failReport(r) ==
    /\ gpc[r] = "fail"
    /\ SetStatus(r, "failed") \/ UNCHANGED status
    /\ Goto(r, "idle")
    /\ UNCHANGED <<path, disk, output, OtherVars>>

Generate(r) ==
    \/ MarkGenerating(r)
    \/ Gather(r)
    \/ saveOutput(r)
    \/ saveAsPDF(r)
    \/ saveReportFile(r)
    \/ Complete(r)
    \/ failReport(r)

--------------------------------------------------------------------------------
(* The cleaner.                                                            *)

\* The retention period has passed since the report was requested, wherever its
\* generation is.
Expire(r) ==
    /\ status[r] # "absent" /\ r \notin expired
    /\ expired' = expired \cup {r}
    /\ UNCHANGED <<status, path, disk, genVars, cleanVars, loadVars, crashes>>

\* Mutant: every completed report.
ListCompleted == {r \in Reports : status[r] = "completed"}

ListOlderThan == {r \in expired : status[r] = "completed"}

\* The hour for it has come, and there are reports to clean.
Cleanup ==
    /\ cpc = "idle"
    /\ ListOlderThan # {}
    /\ old' = ListOlderThan
    /\ cpc' = "remove"
    /\ UNCHANGED <<status, path, disk, genVars, expired, current, loadVars, crashes>>

CleanupEnds ==
    /\ cpc = "remove"
    /\ old = {}
    /\ cpc' = "idle"
    /\ UNCHANGED <<status, path, disk, genVars, expired, current, old, loadVars, crashes>>

\* Mutant: the error of Remove is ignored.
RemoveOrIgnore(r) ==
    /\ cpc = "remove"
    /\ r \in old
    /\ old' = old \ {r}
    /\ cpc' = "mark"
    /\ current' = r
    /\ Write(r, path[r], "none") \/ UNCHANGED disk
    /\ UNCHANGED <<status, path, genVars, expired, loadVars, crashes>>

\* Mutant: a file that is already gone is an error.
RemoveExisting(r) ==
    /\ cpc = "remove"
    /\ r \in old
    /\ old' = old \ {r}
    /\ IF disk[r][path[r]] = "none" THEN UNCHANGED <<disk, cpc>>
       ELSE Write(r, path[r], "none") /\ cpc' = "mark"
    /\ current' = r
    /\ UNCHANGED <<status, path, genVars, expired, loadVars, crashes>>

\* cleanupReport up to its Remove: a file that is already gone is as good, any
\* other error leaves the report for the next round.
RemoveFile(r) ==
    /\ cpc = "remove"
    /\ r \in old
    /\ old' = old \ {r}
    /\ current' = r
    /\ \/ Write(r, path[r], "none") /\ cpc' = "mark"
       \/ UNCHANGED <<disk, cpc>>
    /\ UNCHANGED <<status, path, genVars, expired, loadVars, crashes>>

\* Mutant: a status the table did not know before migration 007.
MarkDeleted(r) ==
    /\ cpc = "mark" /\ r = current
    /\ SetStatus(r, "deleted")
    /\ cpc' = "remove"
    /\ UNCHANGED <<path, disk, genVars, expired, current, old, loadVars, crashes>>

MarkCleaned(r) ==
    /\ cpc = "mark" /\ r = current
    /\ SetStatus(r, "cleaned")
    /\ path' = [path EXCEPT ![r] = "null"]
    /\ cpc' = "remove"
    /\ UNCHANGED <<disk, genVars, expired, current, old, loadVars, crashes>>

\* ... or its update fails: the report stays completed, without a file.
MarkFails(r) ==
    /\ cpc = "mark" /\ r = current
    /\ cpc' = "remove"
    /\ UNCHANGED <<status, path, disk, genVars, expired, current, old, loadVars, crashes>>

--------------------------------------------------------------------------------
(* Downloads.                                                              *)

LoadStep(q, label, ans) ==
    /\ dpc' = [dpc EXCEPT ![q] = label]
    /\ answer' = [answer EXCEPT ![q] = ans]
    /\ UNCHANGED <<status, path, disk, genVars, expired, cleanVars, wanted, crashes>>

\* GetByID and the check of the status.  What is not completed is refused, and so
\* is everything when the query fails.
Download(q) ==
    LET r == wanted[q]
    IN  /\ dpc[q] = "idle"
        /\ \/ /\ status[r] = "completed" /\ path[r] # "null"
              /\ from' = [from EXCEPT ![q] = path[r]]
              /\ LoadStep(q, "stat", "refused")
           \/ /\ UNCHANGED from
              /\ LoadStep(q, "done", "refused")

\* os.Stat: a file that is missing ends the request.
StatFile(q) ==
    /\ dpc[q] = "stat"
    /\ \/ disk[wanted[q]][from[q]] = "none" /\ LoadStep(q, "done", "none")
       \/ disk[wanted[q]][from[q]] # "none" /\ LoadStep(q, "serve", "refused")
    /\ UNCHANGED from

\* http.ServeFile: what is there now.  That the connection may break, at the
\* server's WriteTimeout for one, before all of it is sent is left out; the
\* client sees that from the Content-Length.
ServeFile(q) ==
    /\ dpc[q] = "serve"
    /\ LoadStep(q, "done", disk[wanted[q]][from[q]])
    /\ UNCHANGED from

--------------------------------------------------------------------------------
\* The process dies: nothing resumes a generation, a round or a download.
Crash ==
    /\ crashes < MaxCrashes
    /\ crashes' = crashes + 1
    /\ gpc' = [r \in Reports |-> "idle"]
    /\ cpc' = "idle"
    /\ old' = {}
    /\ dpc' = [q \in Downloads |-> "done"]
    /\ UNCHANGED <<status, path, disk, output, expired, current, wanted, from, answer>>

ReportNext ==
    \/ \E r \in Reports : \/ CreateReport(r)
                          \/ Generate(r)
                          \/ Expire(r)
                          \/ RemoveFile(r)
                          \/ MarkCleaned(r)
                          \/ MarkFails(r)
    \/ Cleanup
    \/ CleanupEnds
    \/ \E q \in Downloads : Download(q) \/ StatFile(q) \/ ServeFile(q)
    \/ Crash

\* The cleaner's goroutine and ticker run, and neither a Remove nor the update
\* after it fails on every one of the daily rounds.
CleanerFairness ==
    /\ WF_reportVars(Cleanup \/ CleanupEnds)
    /\ \A r \in Reports :
          /\ WF_reportVars(RemoveFile(r))
          /\ SF_reportVars(RemoveFile(r) /\ cpc' = "mark")
          /\ WF_reportVars(MarkCleaned(r) \/ MarkFails(r))
          /\ SF_reportVars(MarkCleaned(r))

ReportSpec == ReportInit /\ [][ReportNext]_reportVars
ReportFairSpec == ReportSpec /\ CleanerFairness

--------------------------------------------------------------------------------
\* A download never delivers a part of a report, although the PDF exists as an
\* empty file before the converter fills it and failed attempts leave parts
\* behind.
ServedIsComplete == \A q \in Downloads : answer[q] # "partial"

\* A download that passed the check of the status finds no file only when the
\* report's retention is over: nothing else removes the file of a completed
\* report, and no report is completed before its file is.
OnlyExpiredIsMissing ==
    \A q \in Downloads : answer[q] = "none" => wanted[q] \in expired

\* The file a report was completed with is gone when the report is cleaned,
\* through failures and restarts of the cleaner: a cleaned report is never
\* listed again, so a file left behind would stay for ever.
CleanedLeavesNoFile ==
    \A r \in Reports : status[r] = "cleaned" => disk[r][output[r]] = "none"

\* A report is never taken back: a completed one only becomes cleaned, a failed
\* or cleaned one stays so, also when an update took effect that was reported as
\* failed.
OutcomeIsFinal ==
    [][\A r \in Reports :
          /\ status[r] = "completed" => status'[r] \in {"completed", "cleaned"}
          /\ status[r] \in {"failed", "cleaned"} => status'[r] = status[r]
      ]_reportVars

\* Every completed report is cleaned in the end once it has expired, also if the
\* process dies or the update fails after the file was removed.
ExpiredIsCleaned ==
    \A r \in Reports :
        (status[r] = "completed" /\ r \in expired) ~> status[r] = "cleaned"
================================================================================
