------------------------------ MODULE MCBilling ------------------------------
(***************************************************************************)
(* Instances of Billing for TLC.                                            *)
(***************************************************************************)
EXTENDS BillingProperties, TLC

CONSTANTS free, pro, paid, unpaid

\* A success and a failure of the first subscription.
OneReference == (paid :> 1) @@ (unpaid :> 1)

\* The free plan allows one member of staff, the paid one any number.
Limits == (free :> 1) @@ (pro :> -1)
=============================================================================
