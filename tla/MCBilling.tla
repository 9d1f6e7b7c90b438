----------------------------- MODULE MCBilling -----------------------------
(* Small instances of Billing: a self-serve subscription, the one of a     *)
(* later sale of the same row, and a rep's quote.                          *)
EXTENDS Billing, TLC
=============================================================================
