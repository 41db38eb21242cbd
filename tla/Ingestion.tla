------------------------------- MODULE Ingestion -------------------------------
(***************************************************************************)
(* The consumer of discrepancy messages: a durable JetStream subscription  *)
(* whose callback handles one message at a time, and the two tables it     *)
(* writes.                                                                 *)
(*                                                                         *)
(* JetStream delivers a message again until it is acknowledged or          *)
(* terminated: after a Nak, and whenever AckWait (2 s) runs out before the *)
(* answer comes, which the handler's own database timeouts (5, 5 and 10 s) *)
(* allow.  Several copies of a message may so wait in the client's queue.  *)
(* A Nak, a lost answer and no answer at all leave the message to be       *)
(* delivered again: they are one outcome here.  (A lost Term only repeats  *)
(* the delivery that is terminated; it is left out.)                       *)
(***************************************************************************)
EXTENDS LedgerStore, Sequences

CONSTANTS
    Messages,       \* the messages in the stream
    discOf,         \* the (tenant_id, external_id) each message names
    severityOf,     \* its severity, as the publisher wrote it
    WellFormed,     \* the messages with every required field
    MaxOverlap,     \* bound: copies of each message waiting at once
    MaxCrashes      \* bound: restarts of the process

ASSUME MessageAssumption ==
    /\ discOf \in [Messages -> Discs]
    /\ severityOf \in [Messages -> IngestedSeverities \cup {"unknown"}]
    /\ WellFormed \subseteq Messages
ASSUME BoundAssumption ==
    MaxOverlap \in [Messages -> Nat \ {0}] /\ MaxCrashes \in Nat

\* The delivery after which a message is dead-lettered.
maxDeliveryAttempts == 3

\* Mutant: no dead-lettering.
neverDeadLetter(num) == FALSE

\* A message without a delivery count would go on, but JetStream delivers none.
shouldDeadLetter(num) == num > maxDeliveryAttempts

VARIABLES
    settled,    \* per message: "no", "acked" or "terminated", at the server
    delivered,  \* per message: how often it was delivered (NumDelivered)
    queue,      \* the client's queue of deliveries: [msg, num]
    ipc,        \* where the handler is
    msg,        \* the message it handles
    crashes     \* restarts so far

natsVars == <<settled, delivered, queue>>
ingVars == <<settled, delivered, queue, ipc, msg, crashes>>
ingestVars == <<rows, events, nextSeq, lock,
                settled, delivered, queue, ipc, msg, crashes>>

IngestionPCs == {"idle", "tenant", "duplicate", "create", "append", "ack"}

\* Every variable has its type.
IngestTypeOK ==
    /\ StoreTypeOK
    /\ settled \in [Messages -> {"no", "acked", "terminated"}]
    /\ delivered \in [Messages -> Nat]
    /\ queue \in Seq([msg: Messages, num: Nat])
    /\ ipc \in IngestionPCs
    /\ msg \in Messages
    /\ crashes \in 0..MaxCrashes

IngestInit ==
    /\ StoreInit
    /\ settled = [m \in Messages |-> "no"]
    /\ delivered = [m \in Messages |-> 0]
    /\ queue = <<>>
    /\ ipc = "idle"
    /\ msg \in Messages
    /\ crashes = 0

Goto(label) == ipc' = label

--------------------------------------------------------------------------------
\* The copies of m that the client has not finished with.
Copies(m) ==
    Cardinality({i \in 1..Len(queue) : queue[i].msg = m})
        + (IF ipc # "idle" /\ msg = m THEN 1 ELSE 0)

\* The next value of NumDelivered.  The handler only compares it with the limit:
\* values above the limit are not told apart.
OneMore(num) == IF num > maxDeliveryAttempts THEN num ELSE num + 1

\* The server delivers a message for the first time, or once more.
Deliver(m) ==
    /\ settled[m] = "no"
    /\ Copies(m) < MaxOverlap[m]
    /\ delivered' = [delivered EXCEPT ![m] = OneMore(@)]
    /\ queue' = queue \o <<[msg |-> m, num |-> OneMore(delivered[m])]>>
    /\ UNCHANGED <<storeVars, settled, ipc, msg, crashes>>

\* The first answer for a message settles it; a later one finds it settled.
Settle(m, outcome) ==
    settled' = [settled EXCEPT ![m] = IF @ = "no" THEN outcome ELSE @]

\* handleMessage up to the first query: a message delivered too often is
\* terminated, one that lacks a required field is sent back.
handleMessage ==
    LET m == Head(queue).msg
    IN  /\ ipc = "idle"
        /\ queue # <<>>
        /\ queue' = Tail(queue)
        /\ msg' = m
        /\ \/ /\ shouldDeadLetter(Head(queue).num)
              /\ Settle(m, "terminated")
              /\ UNCHANGED ipc
           \/ /\ ~shouldDeadLetter(Head(queue).num)
              /\ Goto(IF m \in WellFormed THEN "tenant" ELSE "idle")
              /\ UNCHANGED settled
        /\ UNCHANGED <<storeVars, delivered, crashes>>

\* The tenant is active, or the query fails or finds no active tenant: Nak.
validateTenant ==
    /\ ipc = "tenant"
    /\ Goto("duplicate") \/ Goto("idle")
    /\ UNCHANGED <<storeVars, natsVars, msg, crashes>>

\* A row with the external id means Ack; no row, or any error of the query,
\* means that the message is taken for new.
isDuplicate ==
    /\ ipc = "duplicate"
    /\ \/ rows[discOf[msg]].status # "absent" /\ Goto("ack")
       \/ Goto("create")
    /\ UNCHANGED <<storeVars, natsVars, msg, crashes>>

\* Mutant: no CHECK on the severity.
CreateUnchecked ==
    /\ ipc = "create"
    /\ Create(discOf[msg], severityOf[msg])
    /\ Goto("append")
    /\ UNCHANGED <<events, nextSeq, lock, natsVars, msg, crashes>>

\* Mutant: an error of Create is logged, and the message acknowledged.
CreateErrorIgnored ==
    /\ ipc = "create"
    /\ \/ severityOf[msg] \in Severities /\ Create(discOf[msg], severityOf[msg])
       \/ UNCHANGED rows
    /\ Goto("ack")
    /\ UNCHANGED <<events, nextSeq, lock, natsVars, msg, crashes>>

\* Mutant: an existing row is not an error (ON CONFLICT DO NOTHING).
CreateOrIgnore ==
    /\ ipc = "create"
    /\ \/ severityOf[msg] \in Severities /\ Create(discOf[msg], severityOf[msg])
       \/ rows[discOf[msg]].status # "absent" /\ UNCHANGED rows
    /\ Goto("append")
    /\ UNCHANGED <<events, nextSeq, lock, natsVars, msg, crashes>>

\* persistDiscrepancy's Create, refused by UNIQUE or CHECK or failed: Nak.  The
\* row may have been committed although the statement is reported as failed.
CreateDiscrepancy ==
    LET d == discOf[msg]
    IN  /\ ipc = "create"
        /\ \/ /\ severityOf[msg] \in Severities
              /\ Create(d, severityOf[msg])
              /\ Goto("append") \/ Goto("idle")
           \/ UNCHANGED rows /\ Goto("idle")
        /\ UNCHANGED <<events, nextSeq, lock, natsVars, msg, crashes>>

\* persistDiscrepancy's Append.  A failure is logged, and the message is
\* acknowledged all the same.
AppendReceived ==
    LET d == discOf[msg]
    IN  /\ ipc = "append"
        /\ \/ AppendEvent(tenantOf[d], d, "received", "system")
           \/ UNCHANGED <<events, nextSeq>>
        /\ Goto("ack")
        /\ UNCHANGED <<rows, lock, natsVars, msg, crashes>>

\* msg.Ack, which reaches the server or is lost on the way.
Ack ==
    /\ ipc = "ack"
    /\ Settle(msg, "acked") \/ UNCHANGED settled
    /\ Goto("idle")
    /\ UNCHANGED <<storeVars, delivered, queue, msg, crashes>>

\* The process dies, or loses its connection to NATS: what it had received and
\* not answered comes again.
Crash ==
    /\ crashes < MaxCrashes
    /\ crashes' = crashes + 1
    /\ queue' = <<>>
    /\ Goto("idle")
    /\ UNCHANGED <<storeVars, settled, delivered, msg>>

\* Nothing in the stream is left to be settled.
Drained ==
    /\ \A m \in Messages : settled[m] # "no"
    /\ queue = <<>> /\ ipc = "idle"
    /\ UNCHANGED ingestVars

Handle ==
    \/ handleMessage
    \/ validateTenant
    \/ isDuplicate
    \/ CreateDiscrepancy
    \/ AppendReceived
    \/ Ack

IngestNext ==
    \/ \E m \in Messages : Deliver(m)
    \/ Handle
    \/ Crash
    \/ Drained

\* The server delivers what is not settled, the callback goroutine runs.
IngestFairness ==
    /\ \A m \in Messages : WF_ingestVars(Deliver(m) /\ Copies(m) = 0)
    /\ WF_ingestVars(Handle)

IngestSpec == IngestInit /\ [][IngestNext]_ingestVars
IngestFairSpec == IngestSpec /\ IngestFairness

--------------------------------------------------------------------------------
\* A message is acknowledged only when its discrepancy is in the table:
\* publishers may rely on Ack, through redeliveries, crashes and failures.
AckedIsPersisted ==
    \A m \in Messages : settled[m] = "acked" =>
                            rows[discOf[m]].status # "absent"

\* A discrepancy is received once, however often its message is delivered and
\* however many messages name it.
ReceivedOnce ==
    \A d \in Discs :
        Cardinality({e \in events : e.disc = d /\ e.type = "received"}) <= 1

\* Every message is settled in the end: acknowledged or dead-lettered, never
\* delivered for ever.
EveryMessageSettles == \A m \in Messages : <>(settled[m] # "no")
================================================================================
