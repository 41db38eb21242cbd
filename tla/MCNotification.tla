---------------------------- MODULE MCNotification -----------------------------
(* Small instances of Notification for TLC.                                *)
EXTENDS Notification

CONSTANTS k1, d1, d2
================================================================================
