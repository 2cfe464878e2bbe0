----------------------------- MODULE MCTenantTx -----------------------------
(***************************************************************************)
(* Instances of TenantTx for TLC.                                           *)
(***************************************************************************)
EXTENDS TenantTxProperties

\* A create of two rows and an event.
TwoRowsAndEvent == <<"row", "row", "event">>

\* A create of one row and its event.
RowAndEvent == <<"row", "event">>
=============================================================================
