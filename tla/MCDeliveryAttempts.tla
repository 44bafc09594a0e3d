------------------------- MODULE MCDeliveryAttempts -------------------------
(* Small instances of DeliveryAttempts for TLC. *)
EXTENDS DeliveryAttempts
=============================================================================
