-------------------------------- MODULE RagFeed --------------------------------
(***************************************************************************)
(* The feed of closed discrepancies to the RAG platform: the syncer, its   *)
(* watermark in memory, and the writers it races with.                     *)
(*                                                                         *)
(* Every hour runSync lists what was closed since the watermark and        *)
(* uploads it, and then moves the watermark to the time at which it began. *)
(* resolved_at is the time at which a handler (or the engine) began to     *)
(* close a discrepancy; the row is visible only from the commit on, when   *)
(* the watermark may have passed.  An upload that fails is not repeated.   *)
(***************************************************************************)
EXTENDS Integers, FiniteSets

CONSTANTS
    Discs,      \* the discrepancies
    Lookback,   \* how far back a new process starts, 24 h
    MaxTime,    \* bound: the clock stops there
    MaxCrashes, \* bound: restarts of the process
    NoTime      \* a resolved_at that is not set

ASSUME RagAssumption ==
    /\ Lookback \in Nat /\ MaxTime \in Nat /\ MaxCrashes \in Nat
    /\ NoTime \notin Int

VARIABLES
    now,        \* the clock
    resolvedAt, \* per discrepancy: resolved_at, set in the closed ones
    stamped,    \* per discrepancy: the resolved_at of closings begun so far
    enabled,    \* RAGFeedEnabled, read when the process starts
    spc,        \* where the syncer is
    lastSync,   \* the watermark
    began,      \* when the current pass began
    todo,       \* what it listed and has still to feed: [disc, resolvedAt]
    fed,        \* the uploads that succeeded: [disc, resolvedAt]
    excused,    \* closings that had a reason not to be fed: [disc, resolvedAt]
    crashes     \* restarts so far

syncVars == <<spc, lastSync, began, todo>>
ragVars == <<now, resolvedAt, stamped, enabled, syncVars, fed, excused, crashes>>

\* A closing; also the document about it, of whose contents the id and the time
\* are kept.
Closing == [disc: Discs, resolvedAt: Nat]

\* The closing of d that the table shows.
Closed(d) == [disc |-> d, resolvedAt |-> resolvedAt[d]]

\* Every variable has its type; the watermark is not ahead of the clock.
RagTypeOK ==
    /\ now \in 0..MaxTime
    /\ resolvedAt \in [Discs -> Nat \cup {NoTime}]
    /\ stamped \in [Discs -> SUBSET Nat]
    /\ enabled \in BOOLEAN
    /\ spc \in {"idle", "query", "feed"}
    /\ lastSync \in Int /\ lastSync <= now
    /\ began \in 0..now
    /\ todo \subseteq Closing
    /\ fed \subseteq Closing
    /\ excused \subseteq Closing
    /\ crashes \in 0..MaxCrashes

RagInit ==
    /\ now = 0
    /\ resolvedAt = [d \in Discs |-> NoTime]
    /\ stamped = [d \in Discs |-> {}]
    /\ enabled \in BOOLEAN
    /\ spc = "idle"
    /\ lastSync = 0 - Lookback
    /\ began = 0
    /\ todo = {}
    /\ fed = {}
    /\ excused = {}
    /\ crashes = 0

--------------------------------------------------------------------------------
(* The writers.                                                            *)

\* Resolve, or the engine's auto_close, takes the time of the closing.  Any
\* number of them may be under way.
StampClosing(d) ==
    /\ now \notin stamped[d]
    /\ stamped' = [stamped EXCEPT ![d] = @ \cup {now}]
    /\ UNCHANGED <<now, resolvedAt, enabled, syncVars, fed, excused, crashes>>

\* The time up to which the syncer will not look again.
PassedBy == IF spc = "feed" THEN began ELSE lastSync

\* A closing begun at t becomes visible, or never does: it may be rolled back or
\* refused.  One that the syncer has passed by is late.  Others begun at the same
\* time may follow.
CommitClosing(d) ==
    \E t \in stamped[d] :
        /\ resolvedAt' = [resolvedAt EXCEPT ![d] = t]
        /\ excused' = IF t < PassedBy
                      THEN excused \cup {[disc |-> d, resolvedAt |-> t]}
                      ELSE excused
        /\ UNCHANGED <<now, stamped, enabled, syncVars, fed, crashes>>

\* A request that had validated an older status reopens the discrepancy, which
\* erases resolved_at (Workflow, TerminalStatesAreFinal).
Reopen(d) ==
    /\ resolvedAt[d] # NoTime
    /\ resolvedAt' = [resolvedAt EXCEPT ![d] = NoTime]
    /\ UNCHANGED <<now, stamped, enabled, syncVars, fed, excused, crashes>>

--------------------------------------------------------------------------------
(* The syncer.                                                             *)

ListAllResolvedSince(since) ==
    {Closed(d) : d \in {e \in Discs : /\ resolvedAt[e] # NoTime
                                      /\ resolvedAt[e] >= since}}

\* Mutant: the time is rounded up.
runSyncRoundedUp ==
    /\ spc = "idle"
    /\ began' = now + 1
    /\ spc' = "query"
    /\ UNCHANGED <<now, resolvedAt, stamped, enabled, lastSync, todo, fed,
                   excused, crashes>>

\* A tick: the time is taken before the query.
runSync ==
    /\ spc = "idle"
    /\ began' = now
    /\ spc' = "query"
    /\ UNCHANGED <<now, resolvedAt, stamped, enabled, lastSync, todo, fed,
                   excused, crashes>>

\* The query, all of whose rows are read before the first is fed.
ListResolved ==
    /\ spc = "query"
    /\ todo' = ListAllResolvedSince(lastSync)
    /\ spc' = "feed"
    /\ UNCHANGED <<now, resolvedAt, stamped, enabled, lastSync, began, fed,
                   excused, crashes>>

\* Mutant: the watermark moves although the query failed.
ListFailsAndMoves ==
    /\ spc = "query"
    /\ lastSync' = began
    /\ spc' = "idle"
    /\ UNCHANGED <<now, resolvedAt, stamped, enabled, began, todo, fed, excused,
                   crashes>>

\* The query fails: the pass ends and the watermark stays.
ListFails ==
    /\ spc = "query"
    /\ spc' = "idle"
    /\ UNCHANGED <<now, resolvedAt, stamped, enabled, lastSync, began, todo, fed,
                   excused, crashes>>

\* The document is uploaded, or is not and the error is only logged.
uploadDocument(c) ==
    \/ fed' = fed \cup {c} /\ UNCHANGED excused
    \/ excused' = excused \cup {c} /\ UNCHANGED fed

\* FeedResolved, for a row as it was listed; nothing happens without the feature.
FeedResolved(c) ==
    /\ spc = "feed"
    /\ c \in todo
    /\ todo' = todo \ {c}
    /\ \/ enabled /\ uploadDocument(c)
       \/ ~enabled /\ excused' = excused \cup {c} /\ UNCHANGED fed
    /\ UNCHANGED <<now, resolvedAt, stamped, enabled, spc, lastSync, began,
                   crashes>>

\* Mutant: the watermark moves to the end of the pass.
SyncEndsNow ==
    /\ spc = "feed"
    /\ todo = {}
    /\ lastSync' = now
    /\ spc' = "idle"
    /\ UNCHANGED <<now, resolvedAt, stamped, enabled, began, todo, fed, excused,
                   crashes>>

\* The end of runSync: the watermark moves, whatever became of the uploads.
SyncEnds ==
    /\ spc = "feed"
    /\ todo = {}
    /\ lastSync' = began
    /\ spc' = "idle"
    /\ UNCHANGED <<now, resolvedAt, stamped, enabled, began, todo, fed, excused,
                   crashes>>

\* The process dies, is down for any time, and starts with a new watermark.
\* What the table shows from before that and was not fed is out of reach.  The
\* closings under way die with the process, or the database still commits them.
Restart ==
    /\ crashes < MaxCrashes
    /\ crashes' = crashes + 1
    /\ now' \in now..MaxTime
    /\ enabled' \in BOOLEAN
    /\ spc' = "idle"
    /\ lastSync' = now' - Lookback
    /\ todo' = {}
    /\ excused' = excused \cup
          {c \in {Closed(d) : d \in {e \in Discs : resolvedAt[e] # NoTime}} :
              c.resolvedAt < now' - Lookback}
    /\ UNCHANGED <<resolvedAt, stamped, began, fed>>

Tick ==
    /\ now < MaxTime
    /\ now' = now + 1
    /\ UNCHANGED <<resolvedAt, stamped, enabled, syncVars, fed, excused, crashes>>

SyncPass ==
    \/ runSync
    \/ ListResolved
    \/ \E c \in todo : FeedResolved(c)
    \/ SyncEnds

RagNext ==
    \/ \E d \in Discs : \/ StampClosing(d)
                        \/ CommitClosing(d)
                        \/ Reopen(d)
    \/ SyncPass
    \/ ListFails
    \/ Restart
    \/ Tick

\* The ticker fires and the goroutine runs; the query does not fail on every one
\* of the passes.
RagFairness ==
    /\ WF_ragVars(SyncPass)
    /\ SF_ragVars(ListResolved)

RagSpec == RagInit /\ [][RagNext]_ragVars
RagFairSpec == RagSpec /\ RagFairness

--------------------------------------------------------------------------------
\* Nothing else is lost: between passes, a closing below the watermark has been
\* uploaded unless its upload failed (or the feature was off), it was committed
\* after the watermark had passed it, or it was older than Lookback at a restart.
\* Failed queries, restarts within Lookback, a discrepancy that was reopened and
\* closed again, and commits between any two steps of a pass lose nothing.
OnlyExcusedIsLost ==
    \A d \in Discs :
        spc = "idle" /\ resolvedAt[d] # NoTime /\ resolvedAt[d] < lastSync
            => Closed(d) \in fed \cup excused

\* What is closed is fed in the end, unless it has one of those excuses or is
\* reopened first.
ClosedIsFed ==
    \A d \in Discs : \A t \in 0..MaxTime :
        LET c == [disc |-> d, resolvedAt |-> t]
        IN  resolvedAt[d] = t ~> (resolvedAt[d] # t \/ c \in fed \cup excused)
================================================================================
