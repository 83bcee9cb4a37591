----------------------------- MODULE MCLifecycle -----------------------------
(***************************************************************************)
(* Values of the constants for the runs of Lifecycle.                      *)
(***************************************************************************)
EXTENDS Lifecycle

None == {}
AnyPlace == LivePlaces
Playing == {"play"}
=============================================================================
