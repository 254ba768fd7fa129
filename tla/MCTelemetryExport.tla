------------------------- MODULE MCTelemetryExport --------------------------
(* TelemetryExport on a page load of a few items.                            *)
EXTENDS TelemetryExport
=============================================================================
