----------------------------- MODULE RagFeedProofs -----------------------------
(***************************************************************************)
(* Theorems about the RAG feed, for any set of discrepancies, any Lookback *)
(* and any number of restarts.                                             *)
(***************************************************************************)
EXTENDS RagFeed, TLAPS

\* The closings that need no further attention: uploaded, excused, or listed by
\* the pass that is feeding.
Cared == fed \cup excused \cup (IF spc = "feed" THEN todo ELSE {})

\* At every point of a pass, and not only between passes, a closing that the
\* syncer will not look at again is cared for.
NothingSkipped ==
    \A d \in Discs :
        resolvedAt[d] # NoTime /\ resolvedAt[d] < PassedBy => Closed(d) \in Cared

\* The inductive invariant.
RagInv == RagTypeOK /\ NothingSkipped

--------------------------------------------------------------------------------
\* A resolved_at that is set is a time.
LEMMA Times ==
    ASSUME RagTypeOK, NEW d \in Discs
    PROVE  /\ resolvedAt[d] # NoTime => Closed(d) \in Closing
           /\ \A t \in stamped[d] : [disc |-> d, resolvedAt |-> t] \in Closing
    BY DEF RagTypeOK, Closed, Closing

\* A step keeps every variable's type.
LEMMA RagTypeStep == RagInv /\ [RagNext]_ragVars => RagTypeOK'
<1> SUFFICES ASSUME RagInv, [RagNext]_ragVars PROVE RagTypeOK'
    OBVIOUS
<1> USE RagAssumption DEF RagInv, syncVars
<1>1. ASSUME NEW d \in Discs, StampClosing(d) PROVE RagTypeOK'
    BY <1>1 DEF StampClosing, RagTypeOK
<1>2. ASSUME NEW d \in Discs, CommitClosing(d) PROVE RagTypeOK'
  <2>1. excused' \subseteq Closing
    BY <1>2, Times DEF CommitClosing, RagTypeOK
  <2> QED BY <1>2, <2>1 DEF CommitClosing, RagTypeOK
<1>3. ASSUME NEW d \in Discs, Reopen(d) PROVE RagTypeOK'
    BY <1>3 DEF Reopen, RagTypeOK
<1>4. CASE runSync
    BY <1>4 DEF runSync, RagTypeOK
<1>5. CASE ListResolved
  <2>1. ListAllResolvedSince(lastSync) \subseteq Closing
    BY Times DEF ListAllResolvedSince
  <2> QED BY <1>5, <2>1 DEF ListResolved, RagTypeOK
<1>6. ASSUME NEW c \in todo, FeedResolved(c) PROVE RagTypeOK'
    BY <1>6 DEF FeedResolved, uploadDocument, RagTypeOK
<1>7. CASE SyncEnds
    BY <1>7 DEF SyncEnds, RagTypeOK
<1>8. CASE ListFails
    BY <1>8 DEF ListFails, RagTypeOK
<1>9. CASE Restart
  <2>1. excused' \subseteq Closing
    BY <1>9, Times DEF Restart, RagTypeOK
  <2>2. now' \in 0..MaxTime /\ began' \in 0..now' /\ crashes' \in 0..MaxCrashes
    BY <1>9 DEF Restart, RagTypeOK
  <2>3. lastSync' \in Int /\ lastSync' <= now'
    <3>1. lastSync' = now' - Lookback
      BY <1>9 DEF Restart
    <3>2. now' \in Nat
      BY <2>2
    <3>3. \A n \in Nat : n - Lookback \in Int /\ n - Lookback <= n
      OBVIOUS
    <3> QED BY <3>1, <3>2, <3>3
  <2>4. UNCHANGED <<resolvedAt, stamped, fed>> /\ enabled' \in BOOLEAN
        /\ spc' = "idle" /\ todo' = {}
    BY <1>9 DEF Restart
  <2> QED BY <2>1, <2>2, <2>3, <2>4 DEF RagTypeOK
<1>10. CASE Tick
    BY <1>10 DEF Tick, RagTypeOK
<1>11. CASE UNCHANGED ragVars
    BY <1>11 DEF ragVars, RagTypeOK
<1> QED BY <1>1, <1>2, <1>3, <1>4, <1>5, <1>6, <1>7, <1>8, <1>9, <1>10,
          <1>11 DEF RagNext, SyncPass

--------------------------------------------------------------------------------
\* A step that neither closes anything nor moves what the syncer has passed by
\* skips nothing, as long as it drops nothing that was cared for.
LEMMA StillCared ==
    ASSUME NothingSkipped, PassedBy' = PassedBy, Cared \subseteq Cared',
           \A d \in Discs : resolvedAt'[d] \in {resolvedAt[d], NoTime}
    PROVE  NothingSkipped'
    BY DEF NothingSkipped, Closed

\* Every step keeps the inductive invariant.
LEMMA RagInvStep == RagInv /\ [RagNext]_ragVars => RagInv'
<1> SUFFICES ASSUME RagInv, [RagNext]_ragVars PROVE NothingSkipped'
    BY RagTypeStep DEF RagInv
<1>0. RagTypeOK /\ RagTypeOK' /\ NothingSkipped
    BY RagTypeStep DEF RagInv
<1> USE DEF syncVars
<1>1. ASSUME NEW d \in Discs, StampClosing(d) PROVE NothingSkipped'
    BY <1>0, <1>1, StillCared DEF StampClosing, PassedBy, Cared
<1>2. ASSUME NEW d \in Discs, CommitClosing(d) PROVE NothingSkipped'
  <2> SUFFICES ASSUME NEW c \in Discs, resolvedAt'[c] # NoTime,
                      resolvedAt'[c] < PassedBy'
               PROVE  Closed(c)' \in Cared'
    BY DEF NothingSkipped
  <2>1. PassedBy' = PassedBy /\ Cared \subseteq Cared'
    BY <1>2 DEF CommitClosing, PassedBy, Cared
  <2>2. CASE c # d
    <3>1. resolvedAt'[c] = resolvedAt[c]
      BY <1>0, <1>2, <2>2 DEF CommitClosing, RagTypeOK
    <3> QED BY <1>0, <2>1, <3>1 DEF NothingSkipped, Closed
  <2>3. CASE c = d
    <3>1. resolvedAt'[d] < PassedBy
      BY <2>1, <2>3
    <3>2. [disc |-> d, resolvedAt |-> resolvedAt'[d]] \in excused'
      BY <1>0, <1>2, <3>1 DEF CommitClosing, RagTypeOK
    <3> QED BY <2>3, <3>1, <3>2 DEF Closed, Cared
  <2> QED BY <2>2, <2>3
<1>3. ASSUME NEW d \in Discs, Reopen(d) PROVE NothingSkipped'
    BY <1>0, <1>3, StillCared DEF Reopen, PassedBy, Cared, RagTypeOK
<1>4. CASE runSync
    BY <1>0, <1>4, StillCared DEF runSync, PassedBy, Cared
<1>5. CASE ListResolved
  <2> SUFFICES ASSUME NEW d \in Discs, resolvedAt'[d] # NoTime
               PROVE  Closed(d)' \in Cared'
    BY DEF NothingSkipped
  <2>1. resolvedAt' = resolvedAt /\ Closed(d)' = Closed(d) /\ resolvedAt[d] \in Nat
    BY <1>0, <1>5 DEF ListResolved, Closed, RagTypeOK
  <2>2. CASE resolvedAt[d] < lastSync
    BY <1>0, <1>5, <2>1, <2>2 DEF ListResolved, NothingSkipped, PassedBy, Cared
  <2>3. CASE resolvedAt[d] >= lastSync
    <3>1. Closed(d) \in ListAllResolvedSince(lastSync)
      BY <2>1, <2>3 DEF ListAllResolvedSince
    <3> QED BY <1>5, <2>1, <3>1 DEF ListResolved, Cared
  <2> QED BY <1>0, <2>1, <2>2, <2>3 DEF RagTypeOK
<1>6. ASSUME NEW c \in todo, FeedResolved(c) PROVE NothingSkipped'
    BY <1>0, <1>6, StillCared
       DEF FeedResolved, uploadDocument, PassedBy, Cared
<1>7. CASE SyncEnds
    BY <1>0, <1>7, StillCared DEF SyncEnds, PassedBy, Cared
<1>8. CASE ListFails
    BY <1>0, <1>8, StillCared DEF ListFails, PassedBy, Cared
<1>9. CASE Restart
  <2> SUFFICES ASSUME NEW d \in Discs, resolvedAt'[d] # NoTime,
                      resolvedAt'[d] < PassedBy'
               PROVE  Closed(d)' \in Cared'
    BY DEF NothingSkipped
  <2>1. resolvedAt' = resolvedAt /\ PassedBy' = now' - Lookback
    BY <1>9 DEF Restart, PassedBy
  <2>2. Closed(d)' = Closed(d) /\ Closed(d).resolvedAt = resolvedAt[d]
    BY <2>1 DEF Closed
  <2>3. Closed(d) \in excused'
    BY <1>9, <2>1, <2>2 DEF Restart
  <2> QED BY <2>2, <2>3 DEF Cared
<1>10. CASE Tick
    BY <1>0, <1>10, StillCared DEF Tick, PassedBy, Cared
<1>11. CASE UNCHANGED ragVars
    BY <1>0, <1>11, StillCared DEF ragVars, PassedBy, Cared
<1> QED BY <1>1, <1>2, <1>3, <1>4, <1>5, <1>6, <1>7, <1>8, <1>9, <1>10,
          <1>11 DEF RagNext, SyncPass

\* Nothing is closed yet: the inductive invariant holds.
LEMMA RagInvInit == RagInit => RagInv
    BY RagAssumption DEF RagInit, RagInv, RagTypeOK, NothingSkipped

\* The inductive invariant holds throughout.
LEMMA RagInvHolds == RagSpec => []RagInv
    BY RagInvInit, RagInvStep, PTL DEF RagSpec

--------------------------------------------------------------------------------
\* Every variable of the feed keeps its type, and the watermark of runSync never
\* gets ahead of the clock.
THEOREM RagTypeCorrect == RagSpec => []RagTypeOK
<1>1. RagInv => RagTypeOK
    BY DEF RagInv
<1> QED BY <1>1, RagInvHolds, PTL

\* runSync leaves nothing behind its watermark but what it uploaded or what had
\* one of the three excuses, whatever is closed, reopened and closed again
\* between any two of its steps, and however often a query fails or the process
\* restarts.
THEOREM OnlyExcusedIsLostHolds == RagSpec => []OnlyExcusedIsLost
<1>1. RagInv => OnlyExcusedIsLost
    BY DEF RagInv, NothingSkipped, PassedBy, Cared, OnlyExcusedIsLost
<1> QED BY <1>1, RagInvHolds, PTL
================================================================================
