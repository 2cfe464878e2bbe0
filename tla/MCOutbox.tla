------------------------------- MODULE MCOutbox -------------------------------
(***************************************************************************)
(* Instances of Outbox for TLC.                                             *)
(***************************************************************************)
EXTENDS OutboxProperties

OneTry == [q \in Queue |-> 1]
EmailRetried == [q \in Queue |-> IF q = "email" THEN 2 ELSE 1]
=============================================================================
