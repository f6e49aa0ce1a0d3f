----------------------------- MODULE MCG6tsInit -----------------------------
(* Constants of G6tsInit for TLC.                                          *)
EXTENDS G6tsInit

Linux(v2, fix) == [parity |-> FALSE, v2 |-> v2, fix |-> fix, provides |-> {}]
Parity(owners) == [parity |-> TRUE, v2 |-> TRUE, fix |-> FALSE, provides |-> owners]

(* The Linux sequence, bare and as deployed, and parity attaches that pass *)
(* one boundary after the other.                                           *)
MCProfiles ==
  {Linux(FALSE, FALSE), Linux(TRUE, TRUE),
   Parity({}), Parity({"feedback"}), Parity({"feedback", "config"}),
   Parity({"feedback", "config", "cfu"}), Parity(Owners)}

(* Two configurations that fit in an output report and one that does not.  *)
MCConfigs == {"c1", "c2", "full"}
MCDefects == {<<"short", "good">>, <<"exact", "other">>, <<"exact", "bad">>}
=============================================================================
