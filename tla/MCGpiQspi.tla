----------------------------- MODULE MCGpiQspi -----------------------------
(* Instances of GpiQspi for TLC. *)
EXTENDS GpiQspi

============================================================================
