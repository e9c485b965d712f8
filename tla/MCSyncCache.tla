---------------------------- MODULE MCSyncCache ----------------------------
(* Small instances of SyncCache for TLC. *)
EXTENDS SyncCache, TLC
=============================================================================
