------------------------------- MODULE MCOutbox -------------------------------
(* Small instances of Outbox for TLC: more events than a batch holds, one of them broken. *)
EXTENDS Outbox
===============================================================================
