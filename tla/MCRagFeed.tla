------------------------------ MODULE MCRagFeed --------------------------------
(* Small instances of RagFeed for TLC.                                     *)
EXTENDS RagFeed

CONSTANTS d1
================================================================================
