------------------------------ MODULE MCSpiHid ------------------------------
(* Constants of SpiHid for TLC are numbers; spihid.cfg gives them.         *)
EXTENDS SpiHid
=============================================================================
