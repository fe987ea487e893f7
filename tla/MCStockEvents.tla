---------------------------- MODULE MCStockEvents ---------------------------
(* Instance of StockEvents for TLC. *)
EXTENDS StockEvents

MCMarker == {File[k] : k \in DOMAIN File}
MCKind == {"motion_start", "motion_stop", "baby"}
MCSlots == 0..1
=============================================================================
