---- MODULE MCSyncClient ----
(* A small instance of SyncClient. *)
EXTENDS SyncClient
====
