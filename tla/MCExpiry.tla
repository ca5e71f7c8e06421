------------------------------ MODULE MCExpiry ------------------------------
(* Two keys, scheduled, rescheduled earlier or later, and cancelled.        *)
EXTENDS ExpiryScheduler
=============================================================================
