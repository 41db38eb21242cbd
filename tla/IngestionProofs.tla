---------------------------- MODULE IngestionProofs ----------------------------
(***************************************************************************)
(* Theorems about the consumer, for any set of messages, any number of     *)
(* overlapping deliveries and any number of crashes.                       *)
(***************************************************************************)
EXTENDS Ingestion, FiniteSetTheorems, SequenceTheorems, TLAPS

\* The received events of a discrepancy.
Received(d) == {e \in events : e.disc = d /\ e.type = "received"}

\* A received event is that of a row, and the only one of it.
ReceivedOfRows ==
    /\ \A e \in events : rows[e.disc].status # "absent"
    /\ \A d \in Discs : \A e, f \in Received(d) : e = f

\* What the handler's place says of the message at hand: past Create its row is
\* there, and before Append nobody has recorded its receipt.
HandlerInv ==
    /\ ipc \in {"append", "ack"} => rows[discOf[msg]].status # "absent"
    /\ ipc = "append" => Received(discOf[msg]) = {}

\* The inductive invariant.
IngestInv ==
    /\ IngestTypeOK
    /\ AckedIsPersisted
    /\ ReceivedOfRows
    /\ HandlerInv

--------------------------------------------------------------------------------
\* The discrepancy a message names, and the severity a row may be given.
LEMMA DiscOfMessage == ASSUME NEW m \in Messages PROVE discOf[m] \in Discs
    BY MessageAssumption

\* Two things that are equal whenever both are in the set: it has at most one.
LEMMA AtMostOne ==
    ASSUME NEW S, \A e, f \in S : e = f
    PROVE  Cardinality(S) <= 1
<1>1. CASE S = {}
    BY <1>1, FS_EmptySet
<1>2. CASE S # {}
  <2>1. PICK e : e \in S
    BY <1>2
  <2>2. S = {e}
    BY <2>1
  <2> QED BY <2>2, FS_Singleton
<1> QED BY <1>1, <1>2

\* What the client takes from its queue, and what it leaves there.
LEMMA QueueTypes ==
    ASSUME queue \in Seq([msg: Messages, num: Nat]), queue # <<>>
    PROVE  /\ Head(queue).msg \in Messages
           /\ Tail(queue) \in Seq([msg: Messages, num: Nat])
<1> DEFINE Delivery == [msg: Messages, num: Nat]
<1>1. Head(queue) \in Delivery /\ Tail(queue) \in Seq(Delivery)
  <2> HIDE DEF Delivery
  <2>1. queue \in Seq(Delivery)
    BY DEF Delivery
  <2> QED BY <2>1, HeadTailProperties
<1> QED BY <1>1

\* A step keeps every variable's type.
LEMMA IngestTypeStep == IngestInv /\ [IngestNext]_ingestVars => IngestTypeOK'
<1> SUFFICES ASSUME IngestInv, [IngestNext]_ingestVars PROVE IngestTypeOK'
    OBVIOUS
<1> USE DEF IngestInv, IngestTypeOK, IngestionPCs, Goto
<1>1. ASSUME NEW m \in Messages, Deliver(m) PROVE IngestTypeOK'
  <2>1. delivered[m] \in Nat /\ OneMore(delivered[m]) \in Nat
    BY DEF OneMore, maxDeliveryAttempts
  <2>2. [msg |-> m, num |-> OneMore(delivered[m])] \in [msg: Messages, num: Nat]
    BY <2>1
  <2>3. queue' \in Seq([msg: Messages, num: Nat])
    BY <1>1, <2>2 DEF Deliver
  <2> QED BY <1>1, <2>1, <2>3 DEF Deliver, storeVars, StoreTypeOK
<1>2. CASE handleMessage
  <2>1. Head(queue).msg \in Messages /\ Tail(queue) \in Seq([msg: Messages, num: Nat])
    BY <1>2, QueueTypes DEF handleMessage
  <2> QED BY <1>2, <2>1 DEF handleMessage, Settle, storeVars, StoreTypeOK
<1>3. CASE validateTenant
    BY <1>3 DEF validateTenant, storeVars, natsVars, StoreTypeOK
<1>4. CASE isDuplicate
    BY <1>4 DEF isDuplicate, storeVars, natsVars, StoreTypeOK
<1>5. CASE CreateDiscrepancy
  <2>1. rows' \in [Discs -> Row]
    <3>1. CASE severityOf[msg] \in Severities /\ Create(discOf[msg], severityOf[msg])
      <4>1. [status |-> "open", severity |-> severityOf[msg],
             resolvedAt |-> FALSE] \in Row
        BY <3>1 DEF Row, Statuses
      <4> QED BY <3>1, <4>1 DEF Create, StoreTypeOK
    <3> QED BY <1>5, <3>1 DEF CreateDiscrepancy, StoreTypeOK
  <2> QED BY <1>5, <2>1 DEF CreateDiscrepancy, natsVars, StoreTypeOK
<1>6. CASE AppendReceived
  <2> DEFINE d == discOf[msg]
  <2>1. NewLedgerEvent(nextSeq, tenantOf[d], d, "received", "system")
           \in LedgerEvent
    BY TenantAssumption, DiscOfMessage
       DEF StoreTypeOK, NewLedgerEvent, LedgerEvent, EventTypes, ActorTypes
  <2>2. StoreTypeOK'
    BY <1>6, <2>1 DEF AppendReceived, AppendEvent, StoreTypeOK
  <2> QED BY <1>6, <2>2 DEF AppendReceived, natsVars
<1>7. CASE Ack
    BY <1>7 DEF Ack, Settle, storeVars, StoreTypeOK
<1>8. CASE Crash
    BY <1>8, BoundAssumption DEF Crash, storeVars, StoreTypeOK
<1>9. CASE Drained \/ UNCHANGED ingestVars
    BY <1>9 DEF Drained, ingestVars, StoreTypeOK
<1> QED BY <1>1, <1>2, <1>3, <1>4, <1>5, <1>6, <1>7, <1>8, <1>9
        DEF IngestNext, Handle

--------------------------------------------------------------------------------
\* A step that leaves the tables alone keeps what is said of them.
LEMMA TablesUntouched ==
    ASSUME IngestInv, UNCHANGED <<rows, events>>
    PROVE  /\ ReceivedOfRows'
           /\ settled' = settled => AckedIsPersisted'
           /\ \A d : Received(d)' = Received(d)
    BY DEF IngestInv, ReceivedOfRows, Received, AckedIsPersisted

\* Settling a message that is not acknowledged, or whose row is there, keeps
\* every acknowledged message persisted.
LEMMA SettlingIsSafe ==
    ASSUME IngestInv, NEW m \in Messages, NEW outcome, Settle(m, outcome),
           UNCHANGED rows,
           outcome = "acked" => rows[discOf[m]].status # "absent"
    PROVE  AckedIsPersisted'
    BY DEF IngestInv, IngestTypeOK, AckedIsPersisted, Settle

\* Every step keeps the inductive invariant.
LEMMA IngestInvStep == IngestInv /\ [IngestNext]_ingestVars => IngestInv'
<1> SUFFICES ASSUME IngestInv, [IngestNext]_ingestVars PROVE IngestInv'
    OBVIOUS
<1>0. IngestTypeOK'
    BY IngestTypeStep
<1> SUFFICES AckedIsPersisted' /\ ReceivedOfRows' /\ HandlerInv'
    BY <1>0 DEF IngestInv
<1> USE DEF Goto
<1>1. ASSUME NEW m \in Messages, Deliver(m)
      PROVE  AckedIsPersisted' /\ ReceivedOfRows' /\ HandlerInv'
    BY <1>1, TablesUntouched DEF Deliver, storeVars, IngestInv, HandlerInv
<1>2. CASE handleMessage
  <2>1. Head(queue).msg \in Messages
    BY <1>2, QueueTypes DEF handleMessage, IngestInv, IngestTypeOK
  <2>2. AckedIsPersisted'
    BY <1>2, <2>1, TablesUntouched, SettlingIsSafe DEF handleMessage, storeVars
  <2>3. ipc' \notin {"append", "ack"}
    BY <1>2 DEF handleMessage
  <2> QED BY <1>2, <2>2, <2>3, TablesUntouched
          DEF handleMessage, storeVars, HandlerInv
<1>3. CASE validateTenant
    BY <1>3, TablesUntouched DEF validateTenant, storeVars, natsVars, HandlerInv
<1>4. CASE isDuplicate
    BY <1>4, TablesUntouched DEF isDuplicate, storeVars, natsVars, HandlerInv
<1>5. CASE CreateDiscrepancy
  <2> DEFINE d == discOf[msg]
  <2>1. d \in Discs /\ UNCHANGED <<events, settled, msg>>
    BY <1>5, DiscOfMessage
       DEF CreateDiscrepancy, natsVars, IngestInv, IngestTypeOK
  <2>2. CASE Create(d, severityOf[msg])
    <3>1. Received(d) = {}
      BY <2>2 DEF Create, IngestInv, ReceivedOfRows, Received
    <3>2. /\ rows'[d].status # "absent"
          /\ \A c \in Discs : c # d => rows'[c] = rows[c]
      BY <2>1, <2>2 DEF Create, IngestInv, IngestTypeOK, StoreTypeOK
    <3>3. AckedIsPersisted'
      BY <2>1, <3>2, DiscOfMessage DEF AckedIsPersisted, IngestInv
    <3>4. \A e \in events : e.disc \in Discs
      BY DEF IngestInv, IngestTypeOK, StoreTypeOK, LedgerEvent
    <3>5. ReceivedOfRows'
      BY <2>1, <3>2, <3>4 DEF IngestInv, ReceivedOfRows, Received
    <3>6. HandlerInv'
      BY <1>5, <2>1, <3>1, <3>2 DEF CreateDiscrepancy, HandlerInv, Received
    <3> QED BY <3>3, <3>5, <3>6
  <2>3. CASE UNCHANGED rows /\ ipc' = "idle"
    BY <2>1, <2>3, TablesUntouched DEF HandlerInv
  <2> QED BY <1>5, <2>2, <2>3 DEF CreateDiscrepancy
<1>6. CASE AppendReceived
  <2>0. PICK d \in Discs : d = discOf[msg]
    BY DiscOfMessage DEF IngestInv, IngestTypeOK
  <2> DEFINE ev == NewLedgerEvent(nextSeq, tenantOf[d], d, "received", "system")
  <2>1. /\ UNCHANGED <<rows, settled, msg>> /\ ipc' = "ack"
        /\ rows[d].status # "absent" /\ Received(d) = {}
    BY <1>6, <2>0
       DEF AppendReceived, natsVars, IngestInv, IngestTypeOK, HandlerInv
  <2>2. AckedIsPersisted' /\ HandlerInv'
    BY <2>0, <2>1 DEF AckedIsPersisted, IngestInv, HandlerInv
  <2>3. CASE UNCHANGED events
    BY <2>1, <2>2, <2>3, TablesUntouched
  <2>4. CASE events' = events \cup {ev}
    <3>1. ev.disc = d
      BY DEF NewLedgerEvent
    <3>2. /\ Received(d)' \subseteq {ev}
          /\ \A c \in Discs : c # d => Received(c)' = Received(c)
      BY <2>1, <2>4, <3>1 DEF Received
    <3>3. ASSUME NEW c \in Discs, NEW e \in Received(c)', NEW f \in Received(c)'
          PROVE  e = f
      <4>1. CASE c = d
        BY <3>2, <4>1
      <4>2. CASE c # d
        BY <3>2, <4>2 DEF IngestInv, ReceivedOfRows
      <4> QED BY <4>1, <4>2
    <3>4. \A e \in events' : rows'[e.disc].status # "absent"
      BY <2>1, <2>4, <3>1 DEF IngestInv, ReceivedOfRows
    <3> QED BY <2>2, <3>3, <3>4 DEF ReceivedOfRows
  <2> QED BY <1>6, <2>0, <2>3, <2>4 DEF AppendReceived, AppendEvent
<1>7. CASE Ack
  <2>1. msg \in Messages /\ rows[discOf[msg]].status # "absent"
    BY <1>7 DEF Ack, IngestInv, IngestTypeOK, HandlerInv
  <2>2. AckedIsPersisted'
    BY <1>7, <2>1, TablesUntouched, SettlingIsSafe DEF Ack, storeVars
  <2> QED BY <1>7, <2>2, TablesUntouched DEF Ack, storeVars, HandlerInv
<1>8. CASE Crash
    BY <1>8, TablesUntouched DEF Crash, storeVars, HandlerInv
<1>9. CASE Drained \/ UNCHANGED ingestVars
    BY <1>9, TablesUntouched DEF Drained, ingestVars, IngestInv, HandlerInv
<1> QED BY <1>1, <1>2, <1>3, <1>4, <1>5, <1>6, <1>7, <1>8, <1>9
        DEF IngestNext, Handle

\* The empty tables satisfy the inductive invariant.
LEMMA IngestInvInit == IngestInit => IngestInv
<1> SUFFICES ASSUME IngestInit PROVE IngestInv
    OBVIOUS
<1>1. AbsentRow \in Row
    BY DEF AbsentRow, Row, Severities
<1>2. StoreTypeOK
    BY <1>1 DEF IngestInit, StoreInit, StoreTypeOK
<1>3. IngestTypeOK
    BY <1>2, BoundAssumption DEF IngestInit, IngestTypeOK, IngestionPCs
<1> QED BY <1>3 DEF IngestInit, StoreInit, IngestInv, AckedIsPersisted,
          ReceivedOfRows, Received, HandlerInv

\* The inductive invariant holds throughout.
LEMMA IngestInvHolds == IngestSpec => []IngestInv
    BY IngestInvInit, IngestInvStep, PTL DEF IngestSpec

--------------------------------------------------------------------------------
\* Every variable of the consumer keeps its type.
THEOREM IngestTypeCorrect == IngestSpec => []IngestTypeOK
<1>1. IngestInv => IngestTypeOK
    BY DEF IngestInv
<1> QED BY <1>1, IngestInvHolds, PTL

\* handleMessage acknowledges a message only when the row of its discrepancy is
\* committed, whatever was redelivered, lost, failed or crashed before.
THEOREM AckedIsPersistedHolds == IngestSpec => []AckedIsPersisted
<1>1. IngestInv => AckedIsPersisted
    BY DEF IngestInv
<1> QED BY <1>1, IngestInvHolds, PTL

\* persistDiscrepancy records the receipt of a discrepancy at most once, however
\* many messages name it and however often each of them is delivered.
THEOREM ReceivedOnceHolds == IngestSpec => []ReceivedOnce
<1>1. IngestInv => ReceivedOnce
    BY AtMostOne DEF IngestInv, ReceivedOfRows, Received, ReceivedOnce
<1> QED BY <1>1, IngestInvHolds, PTL

--------------------------------------------------------------------------------
\* The severity that Create is given and the table accepts is one of those that
\* publishers send.
LEMMA AcceptedSeverity ==
    ASSUME NEW m \in Messages, severityOf[m] \in Severities
    PROVE  severityOf[m] \in IngestedSeverities
    BY MessageAssumption DEF Severities

\* To the other writers of the tables the consumer does nothing but Intake: its
\* handler with its queries, failures and restarts leaves a row that was not
\* there, a received event of a row that had none, or nothing.  This is what
\* Workflow and Ledger let ingestion do, so what is shown of them holds beside
\* the real consumer.
THEOREM IngestionIsIntake == IngestSpec => [][Intake]_storeVars
<1>1. ASSUME IngestInv, [IngestNext]_ingestVars PROVE [Intake]_storeVars
  <2>1. CASE CreateDiscrepancy
    <3>1. msg \in Messages /\ discOf[msg] \in Discs
      BY <1>1, DiscOfMessage DEF IngestInv, IngestTypeOK
    <3>2. UNCHANGED <<events, nextSeq, lock>>
      BY <2>1 DEF CreateDiscrepancy
    <3>3. CASE UNCHANGED rows
      BY <3>2, <3>3 DEF storeVars
    <3>4. CASE severityOf[msg] \in Severities
               /\ Create(discOf[msg], severityOf[msg])
      BY <3>1, <3>2, <3>4, AcceptedSeverity DEF Intake, IntakeCreate
    <3> QED BY <2>1, <3>3, <3>4 DEF CreateDiscrepancy
  <2>2. CASE AppendReceived
    <3>1. PICK d \in Discs : d = discOf[msg]
      BY <1>1, DiscOfMessage DEF IngestInv, IngestTypeOK
    <3>2. UNCHANGED <<rows, lock>>
      BY <2>2 DEF AppendReceived
    <3>3. /\ rows[d].status # "absent"
          /\ ~ExistsForDiscrepancy(tenantOf[d], d, "received")
      BY <1>1, <2>2, <3>1 DEF AppendReceived, IngestInv, HandlerInv, Received,
         ExistsForDiscrepancy
    <3>4. CASE AppendEvent(tenantOf[d], d, "received", "system")
      BY <3>2, <3>3, <3>4 DEF Intake, IntakeReceived
    <3>5. CASE UNCHANGED <<events, nextSeq>>
      BY <3>2, <3>5 DEF storeVars
    <3> QED BY <2>2, <3>1, <3>4, <3>5 DEF AppendReceived
  <2>3. CASE ~CreateDiscrepancy /\ ~AppendReceived
    BY <1>1, <2>3 DEF IngestNext, Handle, Deliver, handleMessage, validateTenant,
       isDuplicate, Ack, Crash, Drained, ingestVars, storeVars
  <2> QED BY <2>1, <2>2, <2>3
<1> QED BY <1>1, IngestInvHolds, PTL DEF IngestSpec
================================================================================
