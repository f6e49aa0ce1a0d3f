---------------------------- MODULE MCGpiChannel ----------------------------
(* Instances of GpiChannel for TLC.                                        *)
EXTENDS GpiChannel
=============================================================================
