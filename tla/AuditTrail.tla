------------------------------ MODULE AuditTrail -------------------------------
(***************************************************************************)
(* What the audit trail promises to an auditor, with no requests, locks or *)
(* transactions in sight: a discrepancy's status and the numbered entries  *)
(* about it change together, in one step, and never otherwise; a new entry *)
(* is numbered above all earlier entries about the same discrepancy; and   *)
(* the state machine allows the change from some status that the           *)
(* discrepancy is on record of having had.                                 *)
(*                                                                         *)
(* It does not promise that the recorded status is the one the change was  *)
(* applied to: the handlers validate a status they read without a lock.    *)
(***************************************************************************)
EXTENDS DiscrepancyDomain, Integers

CONSTANT Discs

VARIABLES
    status,     \* the status of each discrepancy, "absent" before it exists
    trail       \* the entries: [disc, seq, to]

trailVars == <<status, trail>>

TrailInit ==
    /\ status = [d \in Discs |-> "absent"]
    /\ trail = {}

Entries(d) == {e \in trail : e.disc = d}

\* d was once in status s, as far as the record goes.
OnRecord(d, s) == s = "open" \/ \E e \in Entries(d) : e.to = s

Register(d) ==
    /\ status[d] = "absent"
    /\ status' = [status EXCEPT ![d] = "open"]
    /\ UNCHANGED trail

Change(d) ==
    /\ status[d] # "absent"
    /\ \E e \in trail' \ trail :
        /\ e.disc = d
        /\ \A f \in Entries(d) : f.seq < e.seq
        /\ \E from \in Statuses :
              OnRecord(d, from) /\ ValidTransition(from, e.to)
        /\ status' = [status EXCEPT ![d] = e.to]
        /\ trail' = trail \cup {e}

TrailNext == \E d \in Discs : Register(d) \/ Change(d)

TrailSpec == TrailInit /\ [][TrailNext]_trailVars
================================================================================
